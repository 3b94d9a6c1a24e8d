----------------------------- MODULE Executors ------------------------------
(***************************************************************************)
(* What executors do with the calls the relay sends them: nodes             *)
(* (node/rpc.ts), hubs (hub/index.ts, identity.ts, audit.ts) with their     *)
(* worker processes (hub/subnode-worker.ts), and the checks of              *)
(* FileExecutor.execute that both share.                                    *)
(*                                                                         *)
(* A configuration maps the names of shares to their path and, in a hub's,  *)
(* their permissions.  A path filter is the path it blocks; what a glob     *)
(* matches, and the entries inside a share, are abstracted: a call is at    *)
(* work in the directory of its share.  The pool of workers is the module   *)
(* SubnodePool; here a request is with the pool, then with a worker.        *)
(***************************************************************************)
EXTENDS Permissions, SequencesExt

CONSTANTS
  Node, Hub,   \* executors
  User,
  Share,       \* names of shares
  Path,        \* directories, as configured
  Real,        \* Path -> Path, what realpath() makes of them
  Call,
  GroupsOf,    \* User -> set of groups, from the token's claims
  Configs,     \* executor -> what its paths.yaml or hub.yaml may say
  NoShare, NoEnvelope

ExecutorsAssumption ==
  /\ Real \in [Path -> Path]
  /\ \A p \in Path : Real[Real[p]] = Real[p]
  /\ NoShare \notin Share
  /\ Node \cap Hub = {}
  /\ \A e \in Node \cup Hub : \A cfg \in Configs[e] :
       \A s \in DOMAIN cfg : s \in Share /\ cfg[s].path \in Path
ASSUME ExecutorsAssumption

VARIABLES
  config,    \* executor -> the configuration its process works with
  phase,     \* hub -> how far its process is from start to exit
  envelope,  \* call -> what the relay sent
  rpc,       \* call -> how far the executor is, under which configuration
  touched,   \* call -> real paths of the directories it has been at work in
  toWrite,   \* hub -> audit entries not yet on disk, in order
  flushing,  \* hub -> how many of them the exit waits for
  log        \* hub -> calls with an audit entry on disk, or one that failed

execVars == <<config, phase, envelope, rpc, touched, toWrite, flushing, log>>

Executor == Node \cup Hub

Phase == {"down", "up", "closing", "draining", "flushing", "exited"}
\* "late" is a call whose audit entry was written when the exit no longer waited for it,
\* "orphan" one whose worker has outlived its hub.
Stage == {"none", "sent", "lost", "refused", "identity", "pooled", "running", "killed", "ran",
          "done", "late", "orphan"}

\* The hub's process exists.
Alive(h) == phase[h] \notin {"down", "exited"}

ShuttingDown(h) == Alive(h) /\ phase[h] # "up"

NoConfig == [s \in {} |-> NoShare]

subject(user) == [sub |-> user, groups |-> GroupsOf[user]]

\* The other share of a copy or move; without one, the destination is in the source's share.
Destination(env) == IF env.tool \in TwoPathTools THEN {env.dst} \ {NoShare} ELSE {}

ExecutorInit ==
  /\ config \in [Executor -> UNION {Configs[e] : e \in Executor}]
  /\ \A e \in Executor : config[e] \in Configs[e]
  /\ phase = [h \in Hub |-> "up"]
  /\ envelope = [c \in Call |-> NoEnvelope]
  /\ rpc = [c \in Call |-> [stage |-> "none", under |-> NoConfig]]
  /\ touched = [c \in Call |-> {}]
  /\ toWrite = [h \in Hub |-> <<>>]
  /\ flushing = [h \in Hub |-> 0]
  /\ log = [h \in Hub |-> {}]

At(c, e) == envelope[c] # NoEnvelope /\ envelope[c].to = e

Step(c, stage) == rpc' = [rpc EXCEPT ![c].stage = stage]

-----------------------------------------------------------------------------
(* FileExecutor.execute, in a node's process or in a worker's. *)

\* Names are looked up in the registry of the process, made when it read its configuration.
Sides(c, source) == {source} \cup Destination(envelope[c])

Directories(c, source) == {Real[rpc[c].under[s].path] : s \in Sides(c, source)}

Passes(c, source) ==
  /\ Sides(c, source) \subseteq DOMAIN rpc[c].under
  /\ Directories(c, source) \cap envelope[c].filters = {}

\* Otherwise it is rejected; so is a path that does not resolve.
execute(c, source) ==
  \/ Passes(c, source) /\ touched' = [touched EXCEPT ![c] = Directories(c, source)]
  \/ UNCHANGED touched

-----------------------------------------------------------------------------
(* A node. *)

\* paths.yaml is written by the CLI, and read for every call.
EditPaths(n) ==
  /\ \E cfg \in Configs[n] \ {config[n]} : config' = [config EXCEPT ![n] = cfg]
  /\ UNCHANGED <<phase, envelope, rpc, touched, toWrite, flushing, log>>

\* absolute_root must be the path of a share.
Allowed(n, c) == {s \in DOMAIN config[n] : config[n][s].path = envelope[c].root}

NodeReceives(n, c) ==
  /\ At(c, n) /\ rpc[c].stage = "sent"
  /\ rpc' = [rpc EXCEPT ![c] =
       [stage |-> IF Allowed(n, c) = {} THEN "refused" ELSE "running", under |-> config[n]]]
  /\ UNCHANGED <<config, phase, envelope, touched, toWrite, flushing, log>>

NodeRuns(n, c) ==
  /\ At(c, n) /\ rpc[c].stage = "running"
  /\ \E s \in DOMAIN rpc[c].under :
       rpc[c].under[s].path = envelope[c].root /\ execute(c, s)
  /\ Step(c, "ran")
  /\ UNCHANGED <<config, phase, envelope, toWrite, flushing, log>>

-----------------------------------------------------------------------------
(* A hub: calls. *)

\* The handler answers: an audit entry, and a response, which goes nowhere without a socket.
\* What becomes of the response at the relay is in ToolRelay.
Answers(h, c) ==
  /\ Step(c, IF phase[h] = "flushing" THEN "late" ELSE "done")
  /\ toWrite' = [toWrite EXCEPT ![h] = Append(@, c)]
  /\ UNCHANGED <<config, phase, envelope, touched, flushing, log>>

HubReceives(h, c) ==
  /\ At(c, h) /\ rpc[c].stage = "sent" /\ phase[h] = "up"
  /\ rpc' = [rpc EXCEPT ![c] = [stage |-> "identity", under |-> config[h]]]
  /\ UNCHANGED <<config, phase, envelope, touched, toWrite, flushing, log>>

\* HUB_SHUTTING_DOWN
HubRefuses(h, c) ==
  /\ At(c, h) /\ rpc[c].stage = "sent" /\ ShuttingDown(h)
  /\ Answers(h, c)

\* Mutant: the destination of a copy is not looked at.
SourcePermitted(c) ==
  checkPermission(subject(envelope[c].user), envelope[c].share, envelope[c].tool, rpc[c].under)

Permitted(c) ==
  checkRpcPermission(subject(envelope[c].user), {envelope[c].share} \cup Destination(envelope[c]),
                     envelope[c].tool, rpc[c].under)

\* The continuation of resolveIdentity.  The pool refuses at once when it shuts down.
Identified(h, c) ==
  /\ At(c, h) /\ rpc[c].stage = "identity"
  /\ Permitted(c) /\ phase[h] \in {"up", "closing"}
  /\ Step(c, "pooled")
  /\ UNCHANGED <<config, phase, envelope, touched, toWrite, flushing, log>>

\* It is refused, or there is no account: user_map or getent names none.
NotIdentified(h, c) ==
  /\ At(c, h) /\ rpc[c].stage = "identity"
  /\ Answers(h, c)

\* The pool refuses it, or its queue or ready timer fires.
PoolFails(h, c) ==
  /\ At(c, h) /\ rpc[c].stage = "pooled"
  /\ Answers(h, c)

WorkerGets(h, c) ==
  /\ At(c, h) /\ rpc[c].stage = "pooled"
  /\ Step(c, "running")
  /\ UNCHANGED <<config, phase, envelope, touched, toWrite, flushing, log>>

WorkerRuns(h, c) ==
  /\ At(c, h) /\ rpc[c].stage = "running"
  /\ execute(c, envelope[c].share)
  /\ Step(c, "ran")
  /\ UNCHANGED <<config, phase, envelope, toWrite, flushing, log>>

\* A worker that is told to stop, or whose hub is gone, finishes what it is doing.
WorkerOutlives(h, c) ==
  /\ At(c, h) /\ rpc[c].stage \in {"killed", "orphan"}
  /\ execute(c, envelope[c].share)
  /\ UNCHANGED <<config, phase, envelope, rpc, toWrite, flushing, log>>

\* The response of the worker, or its death, which settles its requests.
WorkerSettles(h, c) ==
  /\ At(c, h) /\ rpc[c].stage \in {"running", "ran", "killed"}
  /\ Answers(h, c)

\* One append.  A failure is logged to stderr and forgotten.
AuditAppends(h) ==
  /\ toWrite[h] # <<>>
  /\ log' = [log EXCEPT ![h] = @ \cup {Head(toWrite[h])}]
  /\ toWrite' = [toWrite EXCEPT ![h] = Tail(@)]
  /\ flushing' = [flushing EXCEPT ![h] = IF @ > 0 THEN @ - 1 ELSE 0]
  /\ UNCHANGED <<config, phase, envelope, rpc, touched>>

-----------------------------------------------------------------------------
(* A hub: its process. *)

OfHub(h, stages) == {c \in Call : At(c, h) /\ rpc[c].stage \in stages}

\* The configuration is read now and never again.  What was sent to the previous process
\* never arrives.
HubStarts(h) ==
  /\ ~Alive(h)
  /\ phase' = [phase EXCEPT ![h] = "up"]
  /\ \E cfg \in Configs[h] : config' = [config EXCEPT ![h] = cfg]
  /\ rpc' = [c \in Call |->
       IF c \in OfHub(h, {"sent"}) THEN [rpc[c] EXCEPT !.stage = "lost"] ELSE rpc[c]]
  /\ UNCHANGED <<envelope, touched, toWrite, flushing, log>>

\* SIGTERM.  The socket is given up at once and closed; its last messages still arrive.
HubStops(h) ==
  /\ phase[h] = "up"
  /\ phase' = [phase EXCEPT ![h] = "closing"]
  /\ UNCHANGED <<config, envelope, rpc, touched, toWrite, flushing, log>>

\* The socket is closed, or five seconds have passed.  Requests queue behind busy workers;
\* all of them are answered now.  One whose worker is still starting is forgotten.
PoolShutsDown(h) ==
  /\ phase[h] = "closing"
  /\ phase' = [phase EXCEPT ![h] = "draining"]
  /\ \E queued \in SUBSET OfHub(h, {"pooled"}) :
       /\ queued # {} => OfHub(h, {"running", "ran"}) # {}
       /\ rpc' = [c \in Call |-> IF c \in queued THEN [rpc[c] EXCEPT !.stage = "done"] ELSE rpc[c]]
       /\ toWrite' = [toWrite EXCEPT ![h] = @ \o SetToSeq(queued)]
  /\ UNCHANGED <<config, envelope, touched, flushing, log>>

\* Mutant: the exit does not wait for the promise.
NothingToFlush(h) == 0

\* flush() is the promise of the entries written so far.
ToFlush(h) == Len(toWrite[h])

\* The end of the drain: nothing is left, or 30 s have passed and the workers are killed.
StopsDraining(h) ==
  /\ phase[h] = "draining"
  /\ phase' = [phase EXCEPT ![h] = "flushing"]
  /\ rpc' = [c \in Call |->
       IF c \in OfHub(h, {"running", "ran"}) THEN [rpc[c] EXCEPT !.stage = "killed"] ELSE rpc[c]]
  /\ flushing' = [flushing EXCEPT ![h] = ToFlush(h)]
  /\ UNCHANGED <<config, envelope, touched, toWrite, log>>

\* The process is gone, with what it had not written; its workers are on their own.
AfterEnd(h, c) ==
  CASE c \in OfHub(h, {"running", "killed"})           -> "orphan"
    [] c \in OfHub(h, {"identity", "pooled", "ran"})    -> "lost"
    [] OTHER                                            -> rpc[c].stage

Ends(h, last) ==
  /\ phase' = [phase EXCEPT ![h] = last]
  /\ toWrite' = [toWrite EXCEPT ![h] = <<>>]
  /\ flushing' = [flushing EXCEPT ![h] = 0]
  /\ UNCHANGED <<config, envelope, touched, log>>

Exits(h) ==
  /\ phase[h] = "flushing" /\ flushing[h] = 0
  /\ rpc' = [c \in Call |-> [rpc[c] EXCEPT !.stage = AfterEnd(h, c)]]
  /\ Ends(h, "exited")

\* The entries that were waiting are now "late".
Crashes(h) ==
  /\ Alive(h)
  /\ rpc' = [c \in Call |-> [rpc[c] EXCEPT !.stage =
       IF c \in ToSet(toWrite[h]) THEN "late" ELSE AfterEnd(h, c)]]
  /\ Ends(h, "down")

NodeRpc(n, c) == NodeReceives(n, c) \/ NodeRuns(n, c)

HubRpc(h, c) ==
  \/ HubReceives(h, c) \/ HubRefuses(h, c) \/ Identified(h, c) \/ NotIdentified(h, c)
  \/ PoolFails(h, c) \/ WorkerGets(h, c) \/ WorkerRuns(h, c) \/ WorkerOutlives(h, c) \/ WorkerSettles(h, c)

HubLives(h) == HubStarts(h) \/ HubStops(h) \/ Crashes(h)

HubEnds(h) == PoolShutsDown(h) \/ StopsDraining(h) \/ AuditAppends(h) \/ Exits(h)

=============================================================================
