# A verification of Constellation

Constellation gives MCP clients access to the file systems of machines that connect
outbound to a self-hosted relay.  This directory holds TLA+ models of the parts whose
behaviour depends on the order of events, TLC configurations that check them on small
instances, and proofs, checked by TLAPS, of what most of them guarantee for every value of
their constants.

Paths below are relative to the repository; `relay/`, `hub/`, `node/`, `shared/` and
`cli/` stand for `packages/relay/src/` and so on.

- [1. The system](#1-the-system)
- [2. The modules](#2-the-modules)
- [3. The runs](#3-the-runs)
- [4. The proofs](#4-the-proofs)
- [5. What the code does that its documentation does not say](#5-what-the-code-does-that-its-documentation-does-not-say)
- [6. What is not modelled](#6-what-is-not-modelled)
- [7. Plan](#7-plan)

## 1. The system

### 1.1 Components

| Component | State it keeps | Operations | Correct when |
|---|---|---|---|
| **Relay: authentication and rotation** (`relay/hub.ts`, `executors.ts`, `api.ts`) | rows `executor_tokens`, `executors` in Postgres; maps `pendingRotations`, `lastRotateAt` in memory | upgrade of a WebSocket, `rotate_token`, adoption of a rotated token on reconnect, expiry timer, prune of orphans, revocation and registration by the owner | one rotation at a time; a new token is adopted once; nobody but the owner takes away a token in use; abandoned tokens die |
| **Relay: registry and RPC dispatch** (`relay/registry.ts`, `hub.ts`, `router.ts`) | `connections` by executor, `pendingRpcs`, heartbeat counters of a connection | register / replace / unregister, ping and pong, dispatch, response, RPC timer, reject on close | every call gets one answer; a live connection stays registered; a dead one is found out |
| **Relay: shares** (`relay/hub.ts`, `router.ts`) | rows `path_shares`, `hub_shares`, `relay_path_filters` | `config_update`, `hub_share_sync`, `update_host`, resolution of a share name | a share name of a user points to the executor and the path that announced it; what the relay knows too late opens no directory |
| **Relay: rate limits** (`relay/router.ts`, `mcp.ts`, `hub.ts`) | arrays of times per user, token or address, the time of the last logged refusal, a message count per connection, all in memory | admit or refuse a request, a tool call, an upgrade, a message; prune | a window lets no more through than its limit, refuses only when it is full, and a flood of refusals is logged without flooding the log |
| **Relay: MCP endpoint, discovery, middleware, activity log, configuration, set-up** | log rows | request handling around `routeToolCall` | see 6 |
| **Executor's WebSocket** (`shared/relay-socket.ts`) | the socket, its backoff | connect, close, reconnect, send (dropped without an open socket) | always one socket, and another one after each loss |
| **Node daemon** (`node/connection.ts`, `rpc.ts`) | `node.yaml` with `node_token` and `previous_node_token`; the rotation in progress | rotate, receive RPCs, announce its paths | never only dead tokens on disk |
| **Hub daemon** (`hub/index.ts`, `identity.ts`) | the same in an env file; `hub.yaml` | the same; maps the caller's identity to a local account, checks permissions and hands the request to the pool; writes the audit log; drains at shutdown | a request runs as its caller, where the configuration allows it; what was answered is in the audit log |
| **Hub: worker pool** (`hub/subnode.ts`, `subnode-worker.ts`) | per user: workers, queue, promise lock; per worker: pending requests, idle timer | dispatch, spawn, reuse, queue, drain on completion, timeouts, exits, evictions, shutdown | a worker only serves the account it runs as; limits hold; no request is lost |
| **Control channel and node CLI** (`shared/control-channel.ts`, `node/cli/node.ts`) | a socket or pipe per daemon; `node.yaml`, shared with the daemon | one request and one response per connection; `node rotate` and `node rename`, through the daemon or by a connection of their own | whoever rotates, `node.yaml` keeps a token that authenticates; what reports success has succeeded; every command ends |
| **Lock file and CLI session** (`shared/file-lock.ts`, `cli/session.ts`) | a lock file; access and refresh token | acquire, steal a stale lock, release; refresh | one holder at a time |
| **Executor's file tools** (`shared/executor/`) | the files | write, edit, create, delete, copy, move; read, list, search | an answer says what has become of the files; a move loses nothing |
| **Path filters, permissions** (`shared/path-filter.ts`, `shared/permissions.ts`, `hub/permissions.ts`) | none | evaluation of rules, on relay and executor | two copies of a rule do not disagree in the caller's favour |
| **File browser** (`telescope/FileBrowserApp.tsx`) | selected share and file, what is shown and edited, the calls under way | choose a share, open, refresh, edit, save | what is shown, edited and saved belongs to what is selected |
| **The other commands, service installation, node-gui** | none of their own | user interface | see 6 |

### 1.2 Interaction

The executor (a node or a hub) opens a WebSocket to the relay and authenticates with
its token.  `handleUpgradeRequest` reads the token row, `handleConnection` adopts a
rotated token if it is one, enters the connection in the registry (terminating the
connection that was there) and attaches the listeners.  Calls of MCP clients enter
through `routeToolCall`, which resolves the share, looks up the executor's connection
and sends an RPC; the answer, the close of the connection, or a timer settles it.  A hub
hands the request to a worker process of the caller's account and sends the worker's
answer back.  Owners revoke tokens or register hosts again over the management API at
any time.  Postgres is the only state that survives a restart of the relay; the config
file the only one that survives a restart of the executor.

### 1.3 What makes it hard

- The relay, the hub and the daemons are single JavaScript threads: the code between two
  `await`s is atomic, and everything read before an `await` may be stale after it.  The
  adoption of a rotated token (`relay/hub.ts:283-333`), `handleRotateToken` (`:601-650`)
  and the pool's lock callback (`hub/subnode.ts:345-400`) read, wait, and act.
- Two processes hold copies of one fact (which token is valid, which connection is up)
  and learn of changes by messages that are lost or late.  On the node a third party, the
  CLI, writes the daemon's file and takes over when the daemon does not answer in time.
- Timers race the events they wait for: rotation expiry and adoption, RPC timeout and
  response, idle timer and the next request, queue timer and drain.
- The file browser has several tool calls under way whose answers arrive in any order,
  after the user has moved on.
- File tools are sequences of system calls; several run at once, and each call may fail.
- Crashes: the relay forgets its maps but not its rows, an executor its rotation but not
  its file, a worker process the requests it was given.

`PROJECT.json` lists the hazards one by one, each at its line, with the properties that
watch it.

## 2. The modules

| Module | What it is |
|---|---|
| `TokenRotation` | the life of one executor's credential, across relay, database, daemon and owner |
| `TokenRotationProofs` | proofs about it |
| `SubnodePool` | the hub's pool of worker processes |
| `SubnodePoolProofs` | proofs about it |
| `ToolCall` | what the relay promises the caller of a tool (abstract) |
| `ToolRelay` | registry, heartbeat and RPCs; implements `ToolCall` |
| `ShareSync` | the share rows of one user: `config_update`, the daemons and CLIs that send it |
| `ShareSyncProofs` | proofs about it |
| `LockFile` | the lock file, one action per system call |
| `RelaySession` | the CLI's sign-in, refreshed, replaced and removed by concurrent processes; extends `LockFile` |
| `RelaySessionProofs` | proofs about both |
| `Browser` | the file browser: selection, editor, tree, and tool calls answered late |
| `FileOps` | the executor's tools that change files, several at once, one action per system call |
| `ToolProofs` | proofs about `ToolRelay`, the safety part of the refinement among them, and about `FileOps` |
| `Permissions` | the evaluation of permission blobs, shared by relay and hub |
| `Executors` | nodes and hubs with their workers: what they do with calls, a hub's shutdown and audit log; extends `Permissions` |
| `CallRouting` | a call through the relay, await by await, to an executor; extends `Executors` |
| `CallRoutingProofs` | proofs about the two and what they use of `Permissions` |
| `RateLimits` | the relay's sliding windows, the log of refusals, the count of a connection's messages |
| `RateLimitsProofs` | proofs about it |
| `NodeControl` | the daemon and commands of the CLI around one `node.yaml` and one relay |
| `ClientProofs` | proofs about `NodeControl` and `Browser` |
| `MCTokenRotation`, `MCSubnodePool`, `MCToolRelay`, `MCShareSync`, `MCRelaySession`, `MCBrowser`, `MCFileOps`, `MCCallRouting`, `MCRateLimits`, `MCNodeControl` | the small instances TLC checks |

In every module an action is the code from one `await`, event or timer to the next.
Where an action ends in the middle of a handler, a variable records how far the handler
has come and what it has read.

### 2.1 TokenRotation

| State | Code |
|---|---|
| `row`, `expiry`, `current` | `executor_tokens.revoked_at` / `expires_at`, `executors.executor_token_id` |
| `pending` | `pendingRotations`, new token to the one it replaces |
| `recent` | `lastRotateAt` within `ROTATE_MIN_INTERVAL_MS` |
| `registered` | the executor's slot in the registry |
| `stage`, `bearer`, `captured` | how far `handleUpgradeRequest` / `handleConnection` has come on a connection, the token it presented, the `oldTokenId` it read during the upgrade |
| `mint` | the `handleRotateToken` in progress on a connection |
| `revoking` | revocations issued by the expiry timer and not awaited |
| `owner` | `DELETE /api/executors/:id/token` or a registration in progress |
| `client`, `disk` | the daemon's socket and rotation; both tokens in its file |

Upgrade: `Connect`, `LookupToken` (row read once), `CompleteUpgrade` (the 101, then the
synchronous start of `handleConnection`, which claims the map entry or registers),
`CommitAdoption` / `FailAdoption` (the transaction), `FinishAdoption` (registration after
it).  Rotation: `ReceiveRotate`, `StoreToken`, `OfferToken`, with their failures.
Expiry: the `expires_at` of a row, the timer, the revocation it issues, and the prune are
four separate steps.  Owner: read, commit and the cancellation after it are separate
steps.  The daemon's rotation is `AskRotation`, `SaveRotatedToken`, and `Opened`, which
takes the 101 for the confirmation.  `NetworkLoss`, `ExecutorRestarts` and
`RelayRestarts` may happen in any state.

One executor is enough, since each handler touches only rows and map entries of its own
executor.  Two assumptions on time are built in and named in the module: a database call
ends within the minute that `ROTATE_MIN_INTERVAL_MS` covers (`MinuteElapses` waits for
the handlers), and a rotation the daemon still waits for (30 s) is younger than
`ROTATION_TTL_MS` (5 min; `Fresh`).

### 2.2 SubnodePool

State: the current `Subnode` object of each user (`subnodes`), and per object `workers`,
`queue` and the promise chain `lock`; per process `stage`, the object its handlers were
wired for (`home`), the identity it runs as (`creds`), its idle timer, the waiters
(`pending`) and what the process has actually received (`running`).  `Subnode` objects
have an identity of their own: one that was dropped from the map is still reachable
from a callback that is under way, and this is where the pool's surprises come from.

`Dispatch`, `Refuse`, `Admit` are the parts of `dispatch()` around the lookup of groups;
`DropStale`, `Reuse`, `Spawn`, `ForkFails`, `Enqueue` the branches of the lock's callback,
`Ready` / `ReadyTimeout` its continuation; `Respond`, `DrainNext`, `DrainStale`,
`DrainSend`, `DrainRefuse`, `DrainEmpty` a completion and the rounds of its drain loop;
then the timers, `Exit`, `Shutdown` and `Stop`.  `RemoveWorkers` is `removeWorker` with
all it does: settle the waiters, drop an empty `Subnode`, reject its queue.  Microtasks
(the next lock callback, the next round of a loop) run before any other event: every
event has the guard `Quiet`.

### 2.3 ToolCall and ToolRelay

`ToolCall` is what a caller may rely on: a call gets one answer, in the end; a result
only after the operation; a *refused* call is without effect for ever, so repeating it
is safe; of a *failed* call (timeout, disconnect, restart of the relay) nothing is known,
its operation may even happen afterwards.

`ToolRelay` has the relay's view (`registry`, `link`, `stage`, `missed`, `awaiting`,
`call`) and the executor's (`peer`, `running`, `done`), with requests and responses
under way on each connection.  `link` and `peer` are the two ends of one TCP connection;
the network may kill one without telling the other.  `Connect` and
`ConnectAdopting`/`FinishAdoption` register a connection and terminate the previous one;
`CloseEvent` unregisters it only if it is still the registered one and then rejects the
executor's RPCs; `Heartbeat` is one round of the loop over all connections.  A response
is accepted for any pending RPC of its executor, over whichever connection it comes.

`Calls == INSTANCE ToolCall WITH state <- ..., effect <- done` maps `routing` and
`pending` calls to *open* ones; `CallsAreKept == Calls!Spec` is checked as a property, its
fairness included.

### 2.4 ShareSync

`rows` are the `path_shares` of one user, each with the executor that owns it and, in
`path`, the node whose path it reports (a share keeps its directory, so the node stands
for the path).  `tx` holds the transactions of `config_update`s in progress.  Here a
transaction is a sequence of statements, as Postgres runs it under READ COMMITTED, the
default that `relay/hub.ts:525` gets: `CheckShare` / `Refuse` are the rounds of the
conflict loop, `UpsertShare` those of the upsert loop, `ListWithdrawn` and `DeleteRow`
the snapshot and the row locks of `deleteMany`, `Commit` makes the transaction's writes
visible; `Locked` makes a statement wait for a row another transaction has written, and
`Remaining` is the second look a statement takes at a row it waited for.  `Abort` covers
deadlock victims, timeouts and database errors.

The daemon sends what is on `disk` on every connect (`DaemonConnects`); a CLI command asks
it to send the new list (`AskDaemon`, `waiting` is `configUpdateState`), or, when no daemon
is connected, opens a connection of its own (`GoDirect`, `CliConnects`), which evicts the
daemon's, as the daemon's next connect evicts it.  `WritePaths` follows the
acknowledgement.  `Settles` is where answers and requests are matched: the daemon takes
any `config_update_ok` or `config_update_error` for that of the update it waits for.

### 2.5 LockFile and RelaySession

`LockFile` is `shared/file-lock.ts` with one action per system call.  A file is an inode
with its mtime, which is what `stealStaleLock` compares; `lock` is the one at the lock's
path, `moved` those renamed to `.stale-` names, `mine` the one with a process's nonce.
`Stat`, `Move`, `Inspect`, `Restore` and `Drop` are the steps of a theft, `Leave` and
`Unlink` those of the release.  One assumption on time is built in, the one the code
states (`file-lock.ts:4-9`): the lock of a live holder does not go stale (`Age`).

`RelaySession` puts the callback of `refreshSession` into it: `Reread`, `Discover`, the
request on its `wire`, which may outlive its caller, and `Save` or `Forget`.  Sign-ins
(`StartDevice`, `Approved`, `Store`) and logouts (`Revoke`, `Remove`) run beside it
without the lock, as in the code.  A refresh token is a number in the chain that a sign-in
began.  The authorization server (`Answer`, `ChainEnds`) is external: it rotates a
live token, and ends the whole grant when a spent one is presented, which is what the
client's comments and `docs/configuration.md:235` say of it.  The relay may name another
server whenever it likes (`RelayNames`).

### 2.6 Browser

`share`, `path`, `loading`, `editing`, `saving` and `seq` are `selectedShare` (with
`selectedHost`), `selectedPath`, `isLoadingFile`, `isEditing`, `isSaving` and
`openFileSeq`; `shown` is the file that `fileContent` was read from.  `opens`, `saves`
and `listings` are the tool calls under way, with what each captured when it began.
`StartsOpening` is `openFile` up to its `await`, `Read` and `ReadFails` what follows;
`StartSave`, `Written`, `Reread` and `SaveFails` are the same for `saveFile`.
`ChooseShare`, `ClickFile`, `Refresh`, `StartEditing` and `CancelEditing` are the user's
clicks, possible where the component renders the control.  `TreeFollows` is the effect of
`DirectoryTree` with its cleanup; the tree of the previous share stays up, and can be
clicked, until the next listing arrives.

### 2.7 FileOps

`tree` is what is at each path of a share (or of two shares, `apart` on file systems of
their own), `content` the text of each inode: a file that is open survives its name.
`op` is how far each operation is, with its open files (`handle`, `source`), the entries
that a copy or a removal still has to visit (`todo`, `opened`), and two things only the
properties look at: what was there when it began (`start`) and whether other operations
ran meanwhile (`company`): none, only some that spare what this one reads (`Spares`: a
`create_directory`, an edit that is a dry run, a copy whose destination lies elsewhere), or
any.  Of two copies each may spare the other or only one of them: with `a` copied to `b`
and `b` to `c`, the second finds more in `b` than was there when it began, the first is not
disturbed.

`Begin` is `execute()` up to the tool.  It resolves links, so that a link still on a path it
passes on is one that leads nowhere: of such a link `safeRealpath` resolves only the parent and
keeps the name.  `access` follows it and finds nothing; `lstat`, `rename` and `rm` see the link
itself.  Links come from the initial tree, since no tool makes one.  Then each tool takes one step per system call:
`MakeDirs` (one level of `mkdir` a step), `OpenToWrite` and `Write`; `OpenToEdit`,
`ReadToEdit`, `Truncate` and `Put`; `Look`, `StartRemoving` and `RemoveNext`; `Access`
(`assertNotExists`), `CopyNext`, `Fill` and `Copied`; `Rename`, which on EXDEV continues
with the copy (`crossDeviceMove`).  `Breaks` fails any system call, `Dies` is the end of
the process.  A text is a sequence of lines, each told apart by who wrote it.

### 2.8 Permissions, Executors and CallRouting

These three follow a call across the system.  `CallRouting` is the relay's side: `rows` are
the shares that executors announced, `filters` the path filters of all users, `online` the
registry, `call` how far `routeToolCall` is with a call and what it has found.  Its awaits
are between `Begins`, `FindOwn`, `FindHub` (the same two again for the destination of a
copy), `ReadFilters` and `Dispatches` or `Fails`; in between executors announce other
shares (`HandlesShares`), connect and disconnect, and users set and delete filters.

`Executors` is the other side.  `config` is what an executor's process works with:
`paths.yaml`, which a node reads for every call (`EditPaths` writes it), or `hub.yaml`,
which a hub reads when it starts.  `rpc` is how far a call is and under which configuration
it was accepted.  `NodeReceives` is the allowlist, `NodeRuns` the execution.  On a hub,
`HubReceives`, `Identified` or `NotIdentified`, `WorkerGets`, `WorkerRuns` and
`WorkerSettles` are `handleRpc` up to `Answers`, the audit entry and the response;
`PoolFails` stands for all the refusals of `SubnodePool`.  `execute` is the common part of
`FileExecutor`: names looked up in the process's own registry, real paths checked against
the filters of the envelope.  `HubStops`, `PoolShutsDown`, `StopsDraining` and `Exits` are
`shutdown()` between its awaits, `AuditAppends` the chain of writes beside it, `Crashes`
the end without any of it.

Abstractions: a filter is the one path it blocks, and calls work in the directory of their
share, so that globs and paths below a share do not matter; `Real` is what links make of
a path.  A message about shares may be late, so `HandlesShares` takes any configuration the
executor may have had.  Hosts have different names, so a destination is always on the
source's host, and `cross_host` does not occur.  What becomes of a response is in
`ToolRelay`, how requests share workers in `SubnodePool`.  A hub that starts replaces its
old connection at once.  A hub that drains answers what is queued; a request whose worker
is still starting is overlooked, as in the code.  `call.since`, `rpc.under` and the stages
*late* and *orphan* are history, for the properties.

### 2.9 RateLimits

The relay limits requests to `/mcp` and calls of cheap and of expensive tools per user
(`allowInWindow`: an array of the times that were admitted), upgrades per address and per
token (arrays of all attempts, the refused ones too), and the messages of a connection (a
count in a fixed window).  The entries of different keys never meet, so one key of each map
and one connection are enough.  `times` numbers the recorded calls; an array is the set of
the numbers it still holds (`held`): `Live` is `shift()` from the front until a time counts,
`Fresh` is `filter()`.  That these agree is a lemma (4), since the arrays are sorted.
`Admit` and `TurnAway` are the two outcomes of `allowInWindow`, `Attempt` is the code in
front of an upgrade, `LogRefusal` is `shouldLogRateLimited` with the event it lets through,
`Message` is `overRateLimit`, which keeps counting what arrives at a connection it is
closing.  `Prune` is the timer that removes old entries from all maps.  `admitted`,
`refusedAt`, `events` and `handled` are history, for the properties.

The clock is `Date.now()`, taken to be monotone.  The maps belong to one process and start
empty, so the limits hold between two starts of the relay.  The HTTP limiters of `app.ts`
and `api.ts` are `express-rate-limit`'s and not modelled.

### 2.10 NodeControl

| State | Code |
|---|---|
| `yaml` | `node_token` and `previous_node_token` in `node.yaml`, which the daemon and each command read and write |
| `daemon` | whether its process is up and its control server listening; `rotationState` and `updateHostState` with the command that waits for each |
| `cli` | how far each command is, and the token it found |
| `ws`, `inbox`, `handling` | each process's socket to the relay, what the relay has sent it, the messages the relay is handling |
| `current`, `row`, `pending`, `claim`, `recent` | what these clients see of the relay (2.1) |

A command asks the daemon over the control channel (`AskDaemon`; refused while the daemon
is busy with another one), or goes its own way when no daemon listens (`NoDaemon`) or when
none has answered in time (`ControlTimesOut`).  Then `Dial` connects with the token in the
file, which displaces the daemon's connection, `CommandReceives` writes the new token and
`DialAgain` confirms it by a second connection.  The daemon's rotation is the same in
`DaemonReceives` and `DaemonConnects`.  A request that was begun for a command which has
since given up is carried on, and its answer settles whichever request waits by then.

The relay is reduced: a token authenticates or does not, a new connection displaces the
registered one, a rotation is offered, refused, adopted or expires.  Restarts of the relay
and failed adoptions, which can cost the node its last token, are in `TokenRotation`; here
they are left out to see what the clients do to each other.  A message sent as a connection
opens may be lost while the relay awaits an adoption on it (`FinishAdoption`, `heard`).
A read and a write of `node.yaml` in one turn of a process are one step: turns of two
processes that overlap within the milliseconds of a `writeFileSync` are not modelled.

Assumptions on time, named where they are made: the token on offer outlives the minute after
its rotation (`ROTATION_TTL_MS` is 5 min; `RotationExpires`); within a minute of a rotation
what was sent has arrived, or the pings (30 s, and 10 s for the pong) have ended its
connection, and an adoption that has begun is committed (`MinuteElapses`); a `rotate_token`
that the daemon sent for a command has reached the relay, or is lost, before the command's
30 s are over (`GivesUp`).

## 3. The runs

`tlc -config X.cfg M` runs each of them; the constants are in the `.cfg` files.

| Run | Module / cfg | Bounds | Shows |
|---|---|---|---|
| `rotation_safety` | `MCTokenRotation` / `TokenRotation_safety.cfg` | 3 tokens (2 can be minted or registered), 2 connections, 1 reply in flight | `OnePendingRotation`, `ClaimedOnce`, `ReferencedTokenNeverExpires`, `LateRevocationsAreHarmless`, `OnlyTheOwnerRevokesInPlace` |
| `rotation_liveness` | `TokenRotation_liveness.cfg` | 2 tokens, 2 connections, no owner | `AbandonedRotationIsRevoked`; `ValidTokenReconnects`: a daemon with the registered token gets its connection back |
| `rotation_previous_token` | `TokenRotation_previous.cfg` | as safety, no owner | `DiskHoldsALiveToken` **violated**: the disk never holds only dead tokens |
| `pool_safety` | `MCSubnodePool` / `SubnodePool_safety.cfg` | 3 requests, 3 processes, 2 `Subnode` objects, 2 users, one with three identities (one blocked), `Max` 2, `Limit` 1 | `WorkersRunAsRequester`, `SubnodeWithinMax`, `NoRequestIsLost`, `QueueWaitsForBusyWorkers`, `AnsweredIsNotStarted` |
| `relay_calls` | `MCToolRelay` / `ToolRelay_calls.cfg` | 1 executor, 2 connections, 2 calls, `MaxMissed` 1 | `CallsAreKept` (refinement), `PendingIsConnected`, `LiveIsRegistered`, `HalfOpenIsDetected` |
| `shares_sync` | `MCShareSync` / `ShareSync_safety.cfg` | 2 nodes, 2 shares, 2 updates at once, `MaxEdits` 2 | `OwnerKeepsItsShares`, `LoneUpdateReplaces` |
| `session` | `MCRelaySession` / `RelaySession_session.cfg` | 2 processes, 5 lock files, 2 sign-ins, 2 servers, `MaxRefresh` 3, `MaxCommands` 2, 1 crash | `OneHolder`, `SpentOnlyOnce`, `SentToItsIssuer`, `CommandsEnd` |
| `browser` | `MCBrowser` / `Browser_safety.cfg` | 2 shares, 2 paths, 2 files opened, 2 saves | `ShownUnderItsPath`, `TreeIsOfShare`, `EditsAreUndisturbed`, `BusyEnds` |
| `files` | `MCFileOps` / `FileOps_tools.cfg` | 2 operations, three names with room for one entry below each, on one file system or several, with a link that leads nowhere at a source or a destination, 4 inodes | `MovesLoseNothing`, `AnswersAreTrue` |
| `calls_routed` | `MCCallRouting` / `CallRouting_calls.cfg` | 1 node, 2 hubs, 2 users, 2 calls, 2 shares, 3 paths (one a link to another), 2 filters, `MaxChanges` 2 | `RunsWhereAllowed`, `CompletedIsAudited` |
| `rate_limits` | `MCRateLimits` / `RateLimits_windows.cfg` | 5 calls or messages in 5 ticks, windows of 2 and 3 ticks, limits of 1 and 2 | `AtMostLimit`, `RefusedOnlyWhenFull`, `FloodIsLogged`, `BurstIsBounded` |
| `node_commands` | `MCNodeControl` / `NodeControl_commands.cfg` | 3 tokens, 2 commands (a rotation; another, or a rename), the daemon stops or loses its connection once | `NeverOnlyDead`, `SuccessRetires`, `CommandsEnd` |

**Why these bounds.**  The rotation's hazards need a token in use, one being adopted and
one minted after it, and an old connection beside a new one: three tokens and two
connections, whose identifiers are reused.  Two executors would add nothing (see 2.1).
A reply beyond the first only adds stale replies, which the daemon drops one by one.  For
the pool, three requests are one at work, one queued or under the lock, and one that
arrives meanwhile; two `Subnode` objects are a current one and a dropped one that is still
referenced, or two users who compete for `Limit` 1.  In `ToolRelay` two connections are an
old and a new one, two calls are one on each.  In
`ShareSync` two updates at once are those of two nodes, or two of one; they start from
every configuration in which each node's rows are those of its file, and with two commands
a share can move from one node to the other, or be withdrawn and announced again.  In `RelaySession`
five files are a lock left by a crash, one for each process, one moved aside and one
remembered by a thief; the inode a new lock gets is any free one, since only equality
matters.  Two commands are two refreshes, or a refresh beside a sign-in or a logout.  In
`Browser` two opens are one superseded by the other, with a save before or after each.
In `FileOps` two operations are what it takes to interfere; two names with one
entry each give every case of a source and a destination, missing, empty, file, link or
full, with a text in which a line to edit occurs never, once or twice; the third is where a
destination is copied on to, so that one copy reads what another writes (199,878 states).
In `CallRouting` one call is a copy between two shares, on the node or on a hub, the other
one of a user with fewer rights; the relay's rows and the executors' configurations start
in any combination, so that the two changes (of shares, filters, connections or processes)
all fall into the calls.  A second hub makes a name ambiguous; the link makes a filter
that only the executor can enforce.
In `RateLimits` five calls and five ticks fill a window, leave one that overlaps it, let a
prune fall between any two calls, and let two fixed windows meet.  In `NodeControl` three
tokens are one in use, one offered and the next; two commands are one that the daemon works
for and one that competes with it, or two that both gave up on the daemon.
`TypeOK` is checked in the runs of `TokenRotation`, `ShareSync` and `Browser`, and proved of
every module that has a module of proofs, of `NodeControl` as `ControlTypeOK`, of `FileOps` as `FilesTypeOK`.
Symmetry is used only in runs without liveness properties.

**What the properties mean.**  In brief: `LateRevocationsAreHarmless` is the reason why
the relay may issue revocations without awaiting them; `OnlyTheOwnerRevokesInPlace` says
that expiry, prune and cancelled or failed rotations never hit the token of an executor
that stays on it.  `QueueWaitsForBusyWorkers` excludes that a request sits in a queue that
no completion will ever drain.  `LiveIsRegistered` is what `unregisterConnection`'s
identity check is for.  `OwnerKeepsItsShares` says that only an update of the owning node
takes a share away from it, whatever other nodes announce meanwhile; `LoneUpdateReplaces`
that an accepted update which no other update of its node overlaps leaves exactly its
list.  Of overlapping updates of one node nothing of the kind holds (5.2).
`AnswersAreTrue` is what a caller may conclude from an answer.  Most of it is said of
operations that no other one overlaps; a copy may run beside operations that spare its
source, copies into the same directory among them, since COPYFILE_EXCL lets only one of
them create a file.  `MovesLoseNothing` holds of every
state on the way, so also of what a crash leaves.  Both make one exception, `Skips`: the source
of a copy, or of a move to another file system, is a file and its destination a link that leads
nowhere.  The code does not copy it (5.2), and the properties say that nothing else is lost.
`RunsWhereAllowed` is what the relay's comment "this is optimistic: actual enforcement
happens at the hub" (`relay/router.ts:221`) rests on: whatever the relay believed, a call
works in a directory only if the configuration of the process that accepted it grants it to
the caller, and no filter that was set all the while blocks it.  `CompletedIsAudited` is
the comment before `audit.flush()` (`hub/index.ts:568`), as far as it is true (5.2).
`OneHolder` is a property of two processes (5.2).
`RefusedOnlyWhenFull` counts recorded calls; for `/mcp` and the tools these are admitted
calls, for upgrades also refused ones, so that a client that keeps trying stays out, as
in the code.  `FloodIsLogged` says that refusals are never silent for a whole window and
never logged twice in one.  `BurstIsBounded` is what a fixed window really gives: twice
`MSG_RATE_MAX` within any `MSG_RATE_WINDOW_MS`.
`NeverOnlyDead` of `NodeControl` is the comment "so the node is never left with only a dead
credential" (`node/cli/node.ts:311-314`), for all ways to rotate together; it excepts a file
one of whose tokens expired before it was adopted (`lapsed`, 5.2).  `SuccessRetires` is what
a user rotates for: after a success the token that was in the file is revoked, or the
adoption of another one is being committed, after which it does not authenticate.
`OneHolder` and `SpentOnlyOnce` except the state in which a process died between moving a
live lock and putting it back (`Abandoned`): the lock is then free while its holder works,
which the code cannot prevent.

**Fairness.**  `TokenRotation`: promises settle (weak fairness on the continuation of
each statement), timers fire, the prune runs every five minutes (`relay/index.ts:25`), the
daemon reconnects after each loss (`shared/relay-socket.ts:260`).  Strong fairness is
assumed of `LookupToken` and `CompleteUpgrade`: an upgrade may be refused by a rate limit
or a database error, but attempts come at growing intervals and not every one is refused;
and of `Elapse`, since time passes however often the daemon asks again.  `ToolRelay`: the
heartbeat interval fires, a closing socket emits its close event (`ws` guarantees it by
its own timeout), an adoption and a lookup settle, and the RPC timer fires.  Nothing is
assumed of the network, of executors or of pongs.  `RelaySession`: programs run on, HTTP requests and device codes time out,
and locks grow old; nobody has to give up waiting for the lock, so that `CommandsEnd` rests
on stale locks being stolen.  `Browser`: every tool call is answered or throws, in the end; the user opens files and
saves finitely often (`MaxOpens`, `MaxSaves`), or `isLoadingFile` and `isSaving` might never be false.
`NodeControl`: the timers of a command and of the daemon fire, and a command does what it
can do; nothing is assumed of the relay, of the daemon's process or of the network.  `SubnodePool` has no liveness property:
each waiter has a timer, so that a request which is held somewhere (`NoRequestIsLost`) is
answered when its timer fires.

**Deadlock.**  The runs of `SubnodePool`, `ToolRelay`, `RelaySession`, `Browser`, `FileOps`, `CallRouting`, `RateLimits` and
`NodeControl` have finitely many requests, calls, commands, clicks or operations, so their behaviours end; `CHECK_DEADLOCK FALSE` says so in their `.cfg`.
The other runs check for deadlock.

## 4. The proofs

Each module of proofs states an inductive invariant, shows that the initial states satisfy it
and that each action preserves it, and concludes what a run checks on a small instance.
The invariants were model-checked on such instances as well.  The assumptions are the named
`ASSUME`s of the models, which only say what the constants are.

### 4.1 TokenRotation

`TokenRotationProofs` proves, for every set of tokens and connections and every
`MaxReplies`, under `ConstantsAssumption` alone (the initial token is a token, the null
values are not, at least one reply can be in flight):

| Theorem | States |
|---|---|
| `TypeCorrect` | `Spec => []TypeOK` |
| `PendingRotationIsUnique` | `Spec => []OnePendingRotation` |
| `ReferencedTokenIsPermanent` | `Spec => []ReferencedTokenNeverExpires` |
| `RotationsAreClaimedOnce` | `Spec => []ClaimedOnce` |
| `LateRevocationsMissTheTokenInUse` | `Spec => []LateRevocationsAreHarmless` |
| `OnlyTheOwnerRevokes` | `Spec => OnlyTheOwnerRevokesInPlace` |

None of the properties is inductive.  The proof builds its inductive invariant in four
layers, each relative to those before it:

1. `Shapes`: types, and a handler that is under way holds the tokens it works on.
2. `OneRotation`: while a `handleRotateToken` runs, the minute after its request has not
   passed, no other one runs, and nothing is pending.  It carries
   `PendingRotationIsUnique`: the rate limit, meant against abuse, is what serialises
   rotations.
3. `Rows`: every token that a handler, a map entry or a request refers to has a stored
   row; the value being stored has none yet.
4. `Claims`: a token on its way to revocation (expired, cancelled, or in a statement not
   yet executed) is out of every path to an adoption, and a token being adopted is not
   pending, not in use, and adopted by one connection only.  The other theorems follow
   from it.

### 4.2 Browser

`ClientProofs` proves, for any shares and paths and any number of opens and saves, under
`BrowserAssumption` (the null values are none of them):

| Theorem | States |
|---|---|
| `TypeCorrect` | `Spec => []TypeOK` |
| `ShownRight` | `Spec => []ShownUnderItsPath` |
| `EditsUndisturbed` | `Spec => []EditsAreUndisturbed` |
| `TreeRight` | `Spec => []TreeIsOfShare` |

`ShownUnderItsPath` is not inductive: a re-read after a save sets the content and leaves
the path.  The invariant says why that is right: the current call of `openFile` is alone
with its number (`Numbered`), the skeleton hides the editor until it is answered
(`SkeletonHidesEditor`), so that a save of the current number was begun in the editor
that is still there, and is of the selected path (`SavesOfThisNumber`).  `TreeInv` adds
that a listing not cancelled is of the selected share.

### 4.3 RateLimits

`RateLimitsProofs` proves, for any windows and limits and without the bounds `MaxTime` and
`MaxCalls` playing a part, under `RateAssumption` (windows are positive numbers, limits
numbers):

| Theorem | States |
|---|---|
| `ShapesHold` | `Spec => []TypeOK` |
| `LimitHolds` | `Spec => []AtMostLimit` |
| `RefusalsAreDue` | `Spec => []RefusedOnlyWhenFull` |
| `RefusalsAreLogged` | `Spec => []FloodIsLogged` |
| `BurstsAreBounded` | `Spec => []BurstIsBounded` |

The properties speak of all calls ever made, the code only of what its arrays still hold.
The invariant (`Inv`) closes the gap in three parts.  `Arrays`: the times are sorted, so that
cutting the front of an array drops just what has expired, and every call that still counts
is still held; the size of the array is therefore the number the property counts, before
and after any refusal and any prune.  `Logged`: `loggedAt` is the time of the last event, or
was forgotten when that one had left the window.  `Messages`: the count bounds the messages
handled in the current fixed window, and no more than `MsgMax` were handled in the window
before it, of which an interval of the same length can meet only these two.

### 4.4 SubnodePool

For any requests, workers, users, identities and `Subnode` objects, under `PoolAssumption`
(`Max` is positive, `Limit` a number, null values are none of them):

| Theorem | States |
|---|---|
| `TypeCorrect` | `Spec => []TypeOK` |
| `WorkersAreOfRequester` | `Spec => []WorkersRunAsRequester` |
| `SubnodesWithinMax` | `Spec => []SubnodeWithinMax` |
| `RequestsAreKept` | `Spec => []NoRequestIsLost` |
| `QueuesWaitForBusyWorkers` | `Spec => []QueueWaitsForBusyWorkers` |
| `AnsweredNotStarted` | `Spec => AnsweredIsNotStarted` |

`NoRequestIsLost` alone is not inductive: a request in two places would be answered in one
and taken out of the other.  The invariant has it in *exactly* one (`OnePlace`, `NoneTwice`,
with `Holds` for a place and its holder) and knows that what is held there is unanswered
(`HeldIsOpen`).  About the workers it ties `home`, `lock` and `stage` together: a process
that starts does so for the head of the lock of its `Subnode`, under that request's
identity, and is the only one there (`StartsForHead`, `OneStarts`), which is why the count
taken before the `fork` is still right after the wait for *ready*; whatever still acts for
a process, a drain loop of a dead one included, knows the `Subnode` it was wired for
(`Wired`).

### 4.5 ToolRelay and ToolCall

For any executors, connections and calls and any `MaxMissed`, under `RelayAssumption`:

| Theorem | States |
|---|---|
| `TypeCorrect` | `Spec => []TypeOK` |
| `PendingHasConnection` | `Spec => []PendingIsConnected` |
| `LiveHasRegistration` | `Spec => []LiveIsRegistered` |
| `CallsAreKeptSafely` | `Spec => Calls!Init /\ [][Calls!Next]_(Calls!vars)` |

`PendingIsConnected` says more than that the executor is registered: the connection is its own
and the relay listens to it, so that a close event, if one is still to come, rejects the call.
The connection need not be open: one that closed while its adoption was awaited has no close
event left (5.2), and its calls end by the RPC timer.  The invariant says of every registered
connection that it is of its executor and listening (`RegisteredListens`), for which a
connection that is not used yet must be at no stage (`UnusedIsFresh`).

The last one is the safety part of the refinement: initial states map to initial states,
every step to a step of `ToolCall` or a stutter.  What it needs is that a refused call has
never left the relay.  `SentIsRecorded` says so: a call that is under way, at work, carried
out or answered is recorded as pending, answered or failed for good.  With
`ResponsesAreTrue`, a result is only given after the operation.

### 4.6 ShareSync

For any nodes, shares, updates in progress and commands, under `ShareAssumption` (the null
values are told apart from rows and nodes):

| Theorem | States |
|---|---|
| `TypeCorrect` | `Spec => []TypeOK` |
| `OwnersKeepShares` | `Spec => OwnerKeepsItsShares` |
| `LoneUpdatesReplace` | `Spec => LoneUpdateReplaces` |

Both properties speak of a commit, but are decided statements before it.  The invariant
says what an open transaction may have written (`WroteOwnShares`: a row it wrote has the
owner that the committed row has now, or its own node if there is none; `DeletesOwnRows`:
what it deleted or is about to delete is a committed row of its own node).  That this stays
true while others commit is due to the row locks (`RowLocks`: no two transactions have
written one row).  For a transaction that nothing overlaps, `FindsAllRows` adds that each
committed row of the node it does not list is deleted or still to be deleted; another
node's commit cannot add one, since it never changes an owner.

### 4.7 LockFile and RelaySession

For any files, chains and servers, and without `MaxRefresh`, `MaxCommands` and `MaxCrashes`
playing a part, under `LockAssumption` and `SessionAssumption` (nonempty sets, null values
outside of them):

| Theorem | States | For |
|---|---|---|
| `TypeCorrect` | `Spec => []TypeOK` | any processes |
| `SentToIssuer` | `Spec => []SentToItsIssuer` | any processes |
| `OneHolds` | `Spec => []OneHolder` | two processes |
| `SpentOnce` | `Spec => []SpentOnlyOnce` | two processes |

The last two are false of three (5.2), so the hypothesis `AtMostTwo` is in the theorems.
The hard part is `LockInv`.  A holder's lock need not be at its path: the other process may
have taken it for the stale lock it saw before and moved it.  `Excluded` says where it is
then, and that it is put back: nothing is at the path, and the other process stands before
`link`.  The rest is what keeps that true: a file aside is nowhere else (`AtMostOnce`,
`NotBoth`), a process that is about to move a file its peer has already moved finds the path
empty (`AboutToMove`), and a name that the wrong file has taken belongs to a file that is
gone, so that nobody will look for it again (`Mistakes`).  A crash between the two steps
may break this; `Lost` recognises such states, is never left, and implies the exception
`Abandoned` of the properties.

`OnceInv` follows a refresh token: a spent token in the file has its successor in the memory
of the process that is about to write it, or the successor was lost (`Successor`); a process
that has decided to use a spent token read one that was lost (`Presented`), because the lock
excludes the one that could still write; a token just received is nowhere else (`Received`),
which is also what makes a sign-in safe that writes without the lock.

### 4.8 CallRouting

For any executors, users, shares, filters and configurations, any finite set of calls and any
number of changes, under `RoutingAssumption` and `ExecutorsAssumption` (the kinds of
executors are disjoint; requests and configurations are well-formed; a filter is for all
hosts or for a node of its user):

| Theorem | States |
|---|---|
| `TypeCorrect` | `Spec => []TypeOK` |
| `CallsRunWhereAllowed` | `Spec => []RunsWhereAllowed` |
| `CompletedCallsAreAudited` | `Spec => []CompletedIsAudited` |

The relay's half of the invariant is about what a call has found so far: a node it was
resolved to is the caller's own (`ResolvedAt`), and of the filters that were set since it
began it carries all that apply, once it has read them (`FiltersAt`, `SentTo`).  Nothing is
claimed of the rows it read: they may be wrong, and it is the executor's half, `Accepted`
(no directory is entered before the check, under the configuration of the process that
accepted the call), that makes it right.  `Audited` counts the entries that the flush under
way will certainly write (`Certain`): an answered call has its entry on disk or among them.

### 4.9 NodeControl

`ClientProofs` also proves, under `ControlAssumption` (the first token is a token, null values
are not), without a bound on the daemon's stops and lost connections:

| Theorem | States | For |
|---|---|---|
| `ControlTypeCorrect` | `ControlSpec => []ControlTypeOK` | any commands and tokens |
| `RotationsRetire` | `ControlSpec => SuccessRetires` | any commands and tokens |
| `NeverDead` | `ControlSpec /\ []OneAdoption => []NeverOnlyDead` | any commands and tokens |
| `NeverDeadOfTwo` | `AtMostTwo /\ ControlSpec => []NeverOnlyDead` | two commands, any tokens |

`CInv` is an invariant for any number of commands.  It knows which messages and replies belong
to what a process waits for (`Exchanges`), that the relay has one token on offer at a time, the
last, which one reply at most carries and nobody else has heard of (`Latest`), and where a
rotation stands that someone waits for (`Progress`): until its token is in the file, the token it
found is either still the one its connection uses or has been overtaken (`Behind`); afterwards
it is neither offered nor the executor's, or its successor is being adopted.  `RotationsRetire`
reads `SuccessRetires` from it at the step in which a command ends.

`NeverOnlyDead` is false of three rotations (5.2), so a hypothesis is due.  The reason is that
the relay may commit two adoptions in turn, and `NeverDead` says it is the only one: while no
two adoptions overlap (`OneAdoption`), `DInv` holds of any number of commands.  In it the file's
token is the executor's, or is being adopted, or is on offer with the executor's token kept
beside it, or was withdrawn, and then the other one is live and nobody is about to drop it
(`FileInv`).  `NeverDeadOfTwo` derives the hypothesis for two commands: an adoption that has
begun is of the file's token, and nobody hears of another before it is committed (`AdoptsLast`),
because a third party would have to ask meanwhile.  Of two commands one had to give up for the
other's token to be in the file, and what the daemon's connection then runs on tells which
(`SomeoneIsLate`, `AskerWaits`).

### 4.10 FileOps

`ToolProofs` proves, for any tree of any depth, any finite or infinite set of requests and any
number of operations at once, under `FileOpsAssumption` (paths are closed under prefixes and
under what a copy makes of them, the initial trees are trees, a copy or move is not into itself,
constants differ), with any system call failing and the process dying at any time:

| Theorem | States |
|---|---|
| `FilesTypeCorrect` | `FilesSpec => []FilesTypeOK` |
| `MovesAreSafe` | `FilesSpec => MovesLoseNothing` |
| `AnswersHold` | `FilesSpec => AnswersAreTrue` |

The inductive invariant `FilesInv` has four parts, each relative to those before it:

1. `Structure` holds of operations in any company: the tree is a tree, a file has one name, an
   inode without a name and a handle is empty, an operation is at a step of its tool, with
   handles where it needs them.  Two copies never fill one file (`OneFiller`), because
   `COPYFILE_EXCL` made each its own.
2. `Company` says what others under way may be: none beside an operation that is alone, and
   beside a copy only some that spare what it reads, whose own unfinished copies are still at
   the place where they were made (`Placed`; otherwise a failure would unlink another's file).
3. `Copying` says how far such a copy, or a move that is alone, has come.  What it reads is as
   it was, and each file of its source has arrived or is one the code skips (`Saved`), or is the one
   being filled, or lies at or below an entry still to be visited.  The only link at or below
   its destination is one that was at the destination when it began (`OntoLink`), and a move
   that copies goes to another file system (`Crosses`), so that nothing more is skipped.  A move in its last phase keeps instead what has
   arrived, whatever is gone of the source.
4. `Lone` is what an operation that is alone remembers: the handle is of the file at its path,
   the draft is the edited text of the beginning, nothing has been touched before the checks
   are over.

An action of an operation that others rely on is *gentle*: it takes nothing away but a copy it
had begun itself.  That is what a copy's company is reduced to (`SparingIsGentle`,
`OtherKeepsCopy`), so that the proof has one case for each action and one for all the others.
The two theorems on action properties go through `EndingCases`, which lists in which states an
operation can give which answer.

Of a copy beside any other copies `AnswersAreTrue` is false, which takes three names to see:
hence the distinction `Spares` makes, and the third name of the run.

### 4.11 What is only model-checked

- All liveness properties (`AbandonedRotationIsRevoked`, `ValidTokenReconnects`,
  `HalfOpenIsDetected`, `BusyEnds`, both `CommandsEnd`) and the fairness of `CallsAreKept`:
  fairness is out of the prover's reach.
- That the text an edit writes is the one a reader expects: `Edited` is a fold over the
  requested edits.  The proofs show that it is written, whatever it computes.

## 5. What the code does that its documentation does not say

### 5.1 Shown by a run

- **The previous token is dropped too early** (`rotation_previous_token`).  The daemon
  takes the 101 for the confirmation of the rotation and deletes the previous token; the
  relay only then starts the adoption transaction, having already deleted the map entry.
  If the transaction fails or the relay restarts, the file holds a token that cannot be
  adopted any more.

### 5.2 Seen in the code while modelling, without a run

- Two nodes can announce one share.  The conflict check of `config_update` is inside the
  transaction (`relay/hub.ts:525`), but READ COMMITTED does not make it exclusive; the
  second upsert takes the update branch and writes its path into the first node's row.
- A file of the previous share can be saved over one of the selected share.  Selecting a
  share in the browser does not bump `openFileSeq`: the answer to an `openFile` still in
  flight sets path and content of the old share under the new one.

- *No lockout* (`docs/relay.md:398`, `docs/architecture.md:134`, ADR 0006:23): a rotation
  that is not adopted within its TTL leaves the daemon presenting the revoked new token;
  the old one, still valid, is in the file as `previous_node_token`, and `docs/hub.md:64`
  has the operator restore it by hand.
- `relay/hub.ts:294-297` takes a missing map entry to mean that another connection adopted
  the token.  It may also have been removed by expiry or cancellation, or by an adoption
  that then failed: the connection is registered on a token the executor row does not
  reference.
- Past the map entry there is nothing to cancel (`relay/hub.ts:655-658` says a rotation
  token cannot be adopted after a revocation): an adoption under way installs the new
  token whatever the owner does to the old one meanwhile.
- A connection whose socket closes while it awaits its adoption is registered all the
  same, since listeners are attached after the `await`: no close event will come, the
  heartbeat's `terminate()` does nothing, and the executor stays registered until it
  connects again (`docs/relay.md:374`).
- Between the lookup of the upgrade and the adoption the prune may revoke the row; the
  adoption does not look again.  Two adoptions may commit in the other order than they
  were claimed.
- `FinishAdoption` of an older connection terminates a newer one that registered
  meanwhile (`relay/hub.ts:328`, "terminate the old one").
- Two `config_update`s of one node, the one on connect and the CLI's, are handled
  concurrently: they may commit in the other order than they were sent, or leave the
  union of both lists.  The acknowledgements do not say which update they answer, so the
  CLI may write a list to `paths.yaml` that the relay then refuses, or that another
  update has replaced (`node/cli/node.ts:515` speaks of a file that does not drift ahead
  of the relay).  The next connect sends the file again.
- Messages a daemon sends on open (`config_update`, `hub_share_sync`) are lost while its
  connection awaits an adoption.
- `docs/architecture.md:88` promises that pending requests are rejected at once when an
  executor disconnects.  Those sent on a connection that was replaced wait for the RPC
  timeout: its close event is not that of the registered connection.
- A user can have more than `subnode_workers.max` workers (`docs/hub.md:205`): the late
  exit of a worker that was not ready in time drops the `Subnode` under which another
  worker is starting (`hub/subnode.ts:699`), and the next request starts a second one.
- `child.send()` returning false does not mean "not sent" (`hub/subnode.ts:529`): Node
  also returns false on a backlog and delivers the message, which is executed although its
  caller was told that it was not sent.
- The lock callback registers its `Subnode` again (`hub/subnode.ts:371`) without looking
  at `max_concurrent_subnodes`; a `fork()` that throws leaves an empty `Subnode` that
  counts against it; a spawn in progress is missed by `shutdown()`.
- The idle timer is not cleared when a worker is reused (`hub/subnode.ts:373`): a request on
  a reused worker is killed when the timer of the idle time before it fires, although
  `:594` does not start it on a worker with requests.
- The hub closes its socket before it drains the pool (`hub/index.ts:560-575`), so that
  the answers of the drained requests, and `HUB_SHUTTING_DOWN`, have nowhere to go.
- "Draining above only guarantees every audit entry was enqueued" (`hub/index.ts:568`): not
  those of requests killed when the drain gives up, still in the lookup of their account,
  or whose worker was starting.  Their entries come after `flush()`, or never, where
  `docs/hub.md:476` has one for each tool call.
- A copy on a node takes its source by path and its destination by name: if the names of
  two shares are swapped in `paths.yaml` after the relay resolved them, it runs within one
  directory.
- `ShareRegistryCache` (`node/rpc.ts:15`) is keyed by the configured paths: the real path of
  a link stays what it was when the link is changed.
- The CLI's control channel gives up after 30 s (`shared/control-channel.ts:184`), the time
  the daemon itself waits for a rotation, and it starts to wait before the daemon does: a
  daemon that gets no answer never has the time to say so.  The CLI then connects itself,
  displaces the daemon's connection, and is refused if the daemon's request did arrive less
  than a minute ago.
- `node rotate` without a daemon confirms the new token by a `config_update` it sends as its
  second connection opens; the relay, which awaits the adoption then, may not listen yet.
  The command reports a timeout after 15 s although the rotation has succeeded, and leaves
  the revoked token as `previous_node_token`.
- A rotation that fails before its confirmation leaves a token in the file that is not
  adopted yet.  If the daemon's connection still runs with the token before it (it connected
  while the command was rotating), its next rotation cancels that token and writes it as
  `previous_node_token` over the one the relay knows; should the newest one expire before it
  is adopted, the file holds only dead tokens (`lapsed` in `NodeControl`, against
  `node/cli/node.ts:311-314`).
- Three rotations of a node, and a file with only a dead token (against
  `node/cli/node.ts:311-314`): one by the CLI fails before it confirms its token *b*; a
  second dials with *b*, whose adoption begins; a third asks the daemon, whose connection is
  still on the first token: it gets *e*, connects with it and drops the previous token.
  If *e* is adopted before *b*, the executor row ends with *b*, the file with *e* alone,
  which is not revoked but which no executor row references any more.  That two adoptions
  overlap is what it takes (`NeverDead`, 4.9).
- `token_rotated`, `update_host_ok` and their errors do not say which request they answer; a
  late answer settles the request that waits by then.  The daemon's `rotateToken` and
  `updateHost` do not look whether the connection is open, as its `config_update` does: what
  they send is dropped and the command waits for the timeout.
- `node rename` reads `node.yaml`, waits for the relay, and writes the whole file back
  (`node/cli/node.ts:345-346`, `:357-358`).
- The control client has no handler for the end of its socket (`shared/control-channel.ts:186-204`):
  a daemon that stops without an answer is waited for until the timeout.
- `hub rotate-token` (`hub/cli.ts:358-452`) by a connection of its own keeps no previous token and does not confirm the
  new one, unlike the daemon's rotation.
- "Sliding" is said of the message limit (`relay/hub.ts:346`), but the window is fixed: up to
  twice 500 messages in ten seconds are handled.
- A restart of the relay forgets `lastRotateAt` and all rate limits.
- `shared/file-lock.ts:43`: the second `statSync` throws if another process has removed the
  moved file, and `withLockFile` with it.  A process that dies after moving a live lock
  leaves its holder without one.
- Refreshes are "serialized across processes" (`docs/configuration.md:235`,
  `shared/file-lock.ts:57`) only for two: a waiter that is delayed between its look at a
  stale lock and the rename moves the live lock of the process that stole it
  (`file-lock.ts:38`); until it is put back the lock is free, and a third process can take
  it and refresh beside the second.
- Sign-in and logout do not take the lock (`cli/session.ts:83`, `cli/relay.ts:256`): a
  refresh under way writes the old session back after a logout, over a newer sign-in, or
  deletes the newer one on `invalid_grant`.  A refresh whose answer is lost leaves the
  spent token in the file; the next refresh ends the grant.
- The browser's draft is not safe from the moment of the click on Save, as
  `telescope/FileBrowserApp.tsx:309-312` has it: if the write fails after the user has
  opened another file, the text is gone; and text typed while a save runs, or a draft
  begun after Cancel during a save, is replaced when the re-read arrives.
- A file moved to another file system onto a link that leads nowhere is lost, with
  `ok: true`.  `safeRealpath` keeps the link as it is, `assertNotExists` follows it and finds
  nothing, `copyRecursive` sees a link at the destination and returns without an error
  (`shared/executor/tools/fs-write.ts:206`), and `crossDeviceMove` removes the source
  (`:152`), where its comment promises to "report exactly which step failed" (`:135`) and
  `docs/reference.md:541` that `move` "fails if the destination already exists".  The model
  has this behaviour; it is what `Skips` excepts.  A `copy` onto such a link answers
  `ok: true` with nothing copied.
- `move` within a file system replaces such a link, and whatever is created between the check
  and `rename()` (`docs/reference.md:541` again).
- "Both now exist" (`shared/executor/tools/fs-write.ts:156`) is not so when `rm` failed
  half-way through a directory.  A move of a directory across file systems loses the links
  in it, with `ok: true` (`docs/architecture.md:215` says that they are skipped).
- Copying a directory into one of its own subdirectories does not end before a path is too
  long: `copyRecursive` makes the destination before it lists the source.  `FileOps` leaves
  such requests out.
- Edits and writes of one file that overlap lose updates or mix texts, and an edit that
  fails between `truncate` and `write` leaves an empty file (`fs-edit.ts:73-74`).
  `countOccurrences` does not count matches that overlap.
- `SRC_IS_SYMLINK` is answered only for a link that leads nowhere, or one made in between:
  `execute()` has resolved any other.  Of a link to a file it copies the file.
- `shared/relay-socket.ts`: `stop()` followed by `start()` while the old socket still
  closes lets its close event clear the new socket.

## 6. What is not modelled

`PROJECT.json` names every component with its status.  In short: user interfaces (but for the file browser), service
files, parsing of configuration and environment, stateless request handling (authentication, listings), and the
tools that only read are outside what the models tell apart.  Within the modelled parts these are
abstracted: the content of messages; lengths of time (a timer may fire whenever it runs,
except for the orders named in 2.1 and 2.10); transactions of Postgres, which are one step at
their commit, but in `ShareSync`; hub registrations by host; backoff.  `RateLimits` stands alone: in
the other modules an upgrade or a call may be refused at any time.  The HTTP limiters are a
library's.  The queue timeout of the pool (`shared/queue-timeout.ts`) is a formula without a
state; `FileOps` leaves out calls through a link whose target is made while they run; a write of the hub's env file is a
`rename`, so that readers see one content or the other.  `stop()` of the socket is taken as the end of the process.

## 7. Plan

In this order:

1. **`ShareSync`, continued**: what holds of `paths.yaml` between an acknowledgement and
   the next connect.
2. **`hub rotate-token`**: the hub's CLI beside its daemon, as `NodeControl` has it for the
   node.
