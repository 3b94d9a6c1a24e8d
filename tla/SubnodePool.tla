----------------------------- MODULE SubnodePool -----------------------------
(***************************************************************************)
(* The hub's pool of worker processes: per user a subnode with up to       *)
(* subnode_workers.max workers, a queue, and a promise chain (the lock)    *)
(* that serialises "pick a worker, spawn one, or queue".                   *)
(*                                                                         *)
(* Atomicity.  The hub is one JavaScript thread.  A step is the code from  *)
(* one await, timer or child event to the next.  A lock callback and a     *)
(* round of the drain loop start as microtasks: nothing else runs before   *)
(* them (Quiet).   Once a child is disconnected none of its messages are   *)
(* delivered, so a removed worker is forgotten and its slot is free.       *)
(*                                                                         *)
(* Left out: the length of the idle timeouts (the warm and burst tiers     *)
(* differ in nothing else).  The uid policy is fixed for the life of the   *)
(* process, so the drain loop never finds a uid "newly blocked".           *)
(***************************************************************************)
EXTENDS Naturals, Sequences, FiniteSets, Functions

CONSTANTS
  Request, Worker, Subnode,  \* requests, slots for worker processes, Subnode objects
  User, Identity, UserOf,    \* user names; uid/gid pairs; the name of each identity
  UidBlocked,                \* identities checkUidRestrictions rejects
  Max,                       \* subnode_workers.max
  Limit,                     \* max_concurrent_subnodes, 0 when unlimited
  NoSubnode, NoIdentity

ASSUME PoolAssumption ==
  /\ Max \in Nat \ {0} /\ Limit \in Nat
  /\ UserOf \in [Identity -> User] /\ UidBlocked \subseteq Identity
  /\ NoSubnode \notin Subnode /\ NoIdentity \notin Identity

VARIABLES
  subnodes,  \* SubnodePool.subnodes: the current Subnode of each user
  workers,   \* Subnode.workers
  queue,     \* Subnode.queue
  lock,      \* Subnode.lock: requests chained on it, the head's callback runs
  stage,     \* worker: free, starting (forked, not ready), up, dying (no ready in time)
  home,      \* worker: the Subnode its handlers were wired for
  creds,     \* worker: the identity it dropped its privileges to
  idle,      \* worker: its idle timer runs
  pending,   \* worker: requests with a waiter in Worker.pending
  running,   \* worker: requests its process has received and not answered
  loop,      \* worker: onRequestComplete stands at the head of its loop
  drain,     \* worker: entries whose groups onRequestComplete is looking up
  checking,  \* requests whose groups dispatch is looking up
  ident,     \* request: the identity it was resolved to
  answer,    \* request: what dispatch resolved to, none so far
  phase      \* run, draining (shutdown is waiting), stopped

requestVars == <<checking, ident, answer>>
vars == <<subnodes, workers, queue, lock, stage, home, creds, idle, pending, running, loop,
          drain, checking, ident, answer, phase>>

Stages  == {"free", "starting", "up", "dying"}
Answers == {"none", "result", "unsent", "timeout", "error"}

Init ==
  /\ subnodes = [u \in User |-> NoSubnode]
  /\ workers = [s \in Subnode |-> {}]
  /\ queue = [s \in Subnode |-> <<>>]
  /\ lock = [s \in Subnode |-> <<>>]
  /\ stage = [w \in Worker |-> "free"]
  /\ home = [w \in Worker |-> NoSubnode]
  /\ creds = [w \in Worker |-> NoIdentity]
  /\ idle = [w \in Worker |-> FALSE]
  /\ pending = [w \in Worker |-> {}]
  /\ running = [w \in Worker |-> {}]
  /\ loop = [w \in Worker |-> FALSE]
  /\ drain = [w \in Worker |-> {}]
  /\ checking = {}
  /\ ident = [r \in Request |-> NoIdentity]
  /\ answer = [r \in Request |-> "none"]
  /\ phase = "run"

-----------------------------------------------------------------------------
(* Helpers *)

\* A promise keeps its first resolution.
Answer(f, S, a) == [r \in Request |-> IF r \in S /\ f[r] = "none" THEN a ELSE f[r]]

Username(r) == UserOf[ident[r]]

\* Nothing refers to the Subnode object any more.
Unreferenced(s) ==
  /\ \A u \in User : subnodes[u] # s
  /\ lock[s] = <<>> /\ workers[s] = {}
  /\ \A w \in Worker : home[w] = s => stage[w] = "free" /\ ~loop[w] /\ drain[w] = {}

\* The slot can hold a new process.
Vacant(w) == stage[w] = "free" /\ ~loop[w] /\ drain[w] = {}

Spawning(s) == \E w \in Worker : stage[w] = "starting" /\ home[w] = s

\* The callback of the lock's head runs as soon as the one before it is over.
LockRuns(s) == lock[s] # <<>> /\ ~Spawning(s)

\* No microtask is left: the next event of the process may run.
Quiet == (\A s \in Subnode : ~LockRuns(s)) /\ (\A w \in Worker : ~loop[w])

\* Mutant: the entries of a queue that lost its last worker get no answer.
StrandNothing(queues, empty) == {}

\* The queue entries of subnodes that lost their last worker.
Stranded(queues, empty) == UNION {Range(queues[s]) : s \in empty}

\* removeWorker for each worker of W, when the step has already made these
\* resolutions and left these queues.
RemoveWorkers(W, answers, queues) ==
  LET empty == {s \in {home[w] : w \in W} : workers[s] \subseteq W}
      lost  == (UNION {pending[w] : w \in W}) \cup Stranded(queues, empty)
  IN  /\ workers' = [s \in Subnode |-> workers[s] \ W]
      /\ queue' = [s \in Subnode |-> IF s \in empty THEN <<>> ELSE queues[s]]
      /\ subnodes' = [u \in User |-> IF subnodes[u] \in empty THEN NoSubnode ELSE subnodes[u]]
      /\ stage' = [w \in Worker |-> IF w \in W THEN "free" ELSE stage[w]]
      /\ idle' = [w \in Worker |-> w \notin W /\ idle[w]]
      /\ pending' = [w \in Worker |-> IF w \in W THEN {} ELSE pending[w]]
      /\ running' = [w \in Worker |-> IF w \in W THEN {} ELSE running[w]]
      /\ answer' = Answer(answers, lost, "error")

\* evictSubnodeWorkers: the workers of the user's current Subnode.
Evicted(u) == IF subnodes[u] = NoSubnode THEN {} ELSE workers[subnodes[u]]

\* sendRequest to the live process w.  child.send() returns false when the
\* channel has a backlog, but the message is delivered all the same.
Send(w, r, answers) ==
  \/ /\ pending' = [pending EXCEPT ![w] = @ \cup {r}]
     /\ running' = [running EXCEPT ![w] = @ \cup {r}]
     /\ answer' = answers
  \/ /\ pending' = pending
     /\ running' = [running EXCEPT ![w] = @ \cup {r}]
     /\ answer' = Answer(answers, {r}, "unsent")

-----------------------------------------------------------------------------
(* dispatch *)

\* HUB_SHUTTING_DOWN.
DispatchLate(r, i) ==
  /\ Quiet
  /\ ident[r] = NoIdentity
  /\ phase = "draining"
  /\ ident' = [ident EXCEPT ![r] = i]
  /\ answer' = Answer(answer, {r}, "error")
  /\ UNCHANGED <<subnodes, workers, queue, lock, stage, home, creds, idle, pending, running,
                 loop, drain, checking, phase>>

\* The uid policy rejects the identity: the user's workers are evicted.
DispatchBlocked(r, i) ==
  /\ Quiet
  /\ ident[r] = NoIdentity
  /\ phase = "run" /\ i \in UidBlocked
  /\ ident' = [ident EXCEPT ![r] = i]
  /\ RemoveWorkers(Evicted(UserOf[i]), Answer(answer, {r}, "error"), queue)
  /\ UNCHANGED <<lock, home, creds, loop, drain, checking, phase>>

\* The identity passes the uid policy; its groups are looked up.
Dispatch(r, i) ==
  /\ Quiet
  /\ ident[r] = NoIdentity
  /\ phase = "run" /\ i \notin UidBlocked
  /\ ident' = [ident EXCEPT ![r] = i]
  /\ checking' = checking \cup {r}
  /\ UNCHANGED <<subnodes, workers, queue, lock, stage, home, creds, idle, pending, running,
                 loop, drain, answer, phase>>

\* A group is blocked, or the groups cannot be read.
Refuse(r) ==
  /\ Quiet
  /\ r \in checking
  /\ checking' = checking \ {r}
  /\ RemoveWorkers(Evicted(Username(r)), Answer(answer, {r}, "error"), queue)
  /\ UNCHANGED <<lock, home, creds, loop, drain, ident, phase>>

\* The Subnode objects the user's request may be chained on: the current one,
\* or a new one.
Chosen(u) ==
  IF subnodes[u] # NoSubnode THEN {subnodes[u]} ELSE {s \in Subnode : Unreferenced(s)}

AtCapacity(u) ==
  /\ subnodes[u] = NoSubnode
  /\ Limit > 0 /\ Cardinality({v \in User : subnodes[v] # NoSubnode}) >= Limit

Admit(r, s) ==
  /\ Quiet
  /\ r \in checking /\ ~AtCapacity(Username(r))
  /\ s \in Chosen(Username(r))
  /\ checking' = checking \ {r}
  /\ subnodes' = [subnodes EXCEPT ![Username(r)] = s]
  /\ lock' = [lock EXCEPT ![s] = Append(@, r)]
  /\ UNCHANGED <<workers, queue, stage, home, creds, idle, pending, running, loop, drain,
                 ident, answer, phase>>

RefuseCapacity(r) ==
  /\ Quiet
  /\ r \in checking /\ AtCapacity(Username(r))
  /\ checking' = checking \ {r}
  /\ answer' = Answer(answer, {r}, "error")
  /\ UNCHANGED <<subnodes, workers, queue, lock, stage, home, creds, idle, pending, running,
                 loop, drain, ident, phase>>

-----------------------------------------------------------------------------
(* The lock's callback: assignAndSend *)

\* Mutant: workers are not compared with the identity of the request.
NoStale(s, r) == {}

\* Idle workers that run as someone else by now.
Stale(s, r) == {w \in workers[s] : pending[w] = {} /\ creds[w] # ident[r]}

\* Mutant: only workers whose idle timer does not run are used again.
RestlessWorkers(s) == {w \in workers[s] : pending[w] = {} /\ ~idle[w]}

Idle(s) == {w \in workers[s] : pending[w] = {}}

\* The callback of r has got past the removal of stale workers.
Assigning(s, r) == LockRuns(s) /\ r = Head(lock[s]) /\ Stale(s, r) = {}

\* The subnode is registered again: a removal may have dropped it.
Registered(s, r) == subnodes' = [subnodes EXCEPT ![Username(r)] = s]

Unlocked(s) == lock' = [lock EXCEPT ![s] = Tail(@)]

DropStale(s) ==
  /\ LockRuns(s) /\ Stale(s, Head(lock[s])) # {}
  /\ RemoveWorkers(Stale(s, Head(lock[s])), answer, queue)
  /\ UNCHANGED <<lock, home, creds, loop, drain, checking, ident, phase>>

\* An idle worker gets the request.
Reuse(s, r, w) ==
  /\ Assigning(s, r) /\ w \in Idle(s)
  /\ Registered(s, r) /\ Unlocked(s)
  /\ Send(w, r, answer)
  /\ UNCHANGED <<workers, queue, stage, home, creds, idle, loop, drain, checking, ident, phase>>

\* Mutant: one worker too many.
RoomForOneMore(s) == Cardinality(workers[s]) <= Max

Room(s) == Cardinality(workers[s]) < Max

\* A worker is forked; the lock is held until it is ready.
Spawn(s, r, w) ==
  /\ Assigning(s, r) /\ Idle(s) = {} /\ Room(s) /\ Vacant(w)
  /\ Registered(s, r)
  /\ stage' = [stage EXCEPT ![w] = "starting"]
  /\ home' = [home EXCEPT ![w] = s]
  /\ creds' = [creds EXCEPT ![w] = ident[r]]
  /\ UNCHANGED <<workers, queue, lock, idle, pending, running, loop, drain, requestVars, phase>>

\* fork() throws.
ForkFails(s, r) ==
  /\ Assigning(s, r) /\ Idle(s) = {} /\ Room(s)
  /\ Registered(s, r) /\ Unlocked(s)
  /\ answer' = Answer(answer, {r}, "error")
  /\ UNCHANGED <<workers, queue, stage, home, creds, idle, pending, running, loop, drain,
                 checking, ident, phase>>

Enqueue(s, r) ==
  /\ Assigning(s, r) /\ Idle(s) = {} /\ ~Room(s)
  /\ Registered(s, r) /\ Unlocked(s)
  /\ queue' = [queue EXCEPT ![s] = Append(@, r)]
  /\ UNCHANGED <<workers, stage, home, creds, idle, pending, running, loop, drain, requestVars,
                 phase>>

\* The worker is ready: it joins the pool and gets the request it was forked for.
Ready(w) ==
  /\ Quiet
  /\ stage[w] = "starting"
  /\ stage' = [stage EXCEPT ![w] = "up"]
  /\ workers' = [workers EXCEPT ![home[w]] = @ \cup {w}]
  /\ Unlocked(home[w])
  /\ Send(w, Head(lock[home[w]]), answer)
  /\ UNCHANGED <<subnodes, queue, home, creds, idle, loop, drain, checking, ident, phase>>

\* It is not ready in time: terminated, but not removed before it exits.
ReadyTimeout(w) ==
  /\ Quiet
  /\ stage[w] = "starting"
  /\ stage' = [stage EXCEPT ![w] = "dying"]
  /\ Unlocked(home[w])
  /\ answer' = Answer(answer, {Head(lock[home[w]])}, "error")
  /\ UNCHANGED <<subnodes, workers, queue, home, creds, idle, pending, running, loop, drain,
                 checking, ident, phase>>

-----------------------------------------------------------------------------
(* Workers at work *)

\* The process answers a request somebody waits for: onRequestComplete.
Respond(w, r) ==
  /\ Quiet
  /\ stage[w] = "up" /\ r \in running[w] /\ r \in pending[w]
  /\ running' = [running EXCEPT ![w] = @ \ {r}]
  /\ pending' = [pending EXCEPT ![w] = @ \ {r}]
  /\ answer' = Answer(answer, {r}, "result")
  /\ loop' = [loop EXCEPT ![w] = TRUE]
  /\ UNCHANGED <<subnodes, workers, queue, lock, stage, home, creds, idle, drain, checking,
                 ident, phase>>

\* It answers a request nobody waits for: it is removed.
RespondUnknown(w, r) ==
  /\ Quiet
  /\ stage[w] = "up" /\ r \in running[w] /\ r \notin pending[w]
  /\ RemoveWorkers({w}, answer, queue)
  /\ UNCHANGED <<lock, home, creds, loop, drain, checking, ident, phase>>

\* Mutant: the worker takes whatever is queued.
AnyWorkerServes(w, r) == TRUE

\* workerRunsAs: the worker's credentials are the ones the request needs.
Serves(w, r) == creds[w] = ident[r]

\* The queue is empty: the idle timer starts, unless the worker is at work.
DrainEmpty(w) ==
  /\ loop[w] /\ queue[home[w]] = <<>>
  /\ loop' = [loop EXCEPT ![w] = FALSE]
  /\ idle' = [idle EXCEPT ![w] = stage[w] = "up" /\ pending[w] = {}]
  /\ UNCHANGED <<subnodes, workers, queue, lock, stage, home, creds, pending, running, drain,
                 requestVars, phase>>

\* The next entry leaves the queue, and its groups are looked up.
DrainNext(w, r) ==
  /\ loop[w] /\ queue[home[w]] # <<>> /\ r = Head(queue[home[w]]) /\ Serves(w, r)
  /\ loop' = [loop EXCEPT ![w] = FALSE]
  /\ queue' = [queue EXCEPT ![home[w]] = Tail(@)]
  /\ drain' = [drain EXCEPT ![w] = @ \cup {r}]
  /\ UNCHANGED <<subnodes, workers, lock, stage, home, creds, idle, pending, running,
                 requestVars, phase>>

\* The worker must not serve the next entry: both go.
DrainStale(w, r) ==
  /\ loop[w] /\ queue[home[w]] # <<>> /\ r = Head(queue[home[w]]) /\ ~Serves(w, r)
  /\ loop' = [loop EXCEPT ![w] = FALSE]
  /\ RemoveWorkers({w} \cap workers[home[w]], Answer(answer, {r}, "error"),
                   [queue EXCEPT ![home[w]] = Tail(@)])
  /\ UNCHANGED <<lock, home, creds, drain, checking, ident, phase>>

\* The groups are fine: the entry is sent, if its worker is still there.
DrainSend(w, r) ==
  /\ Quiet
  /\ r \in drain[w]
  /\ drain' = [drain EXCEPT ![w] = @ \ {r}]
  /\ IF stage[w] = "up" THEN Send(w, r, answer)
     ELSE /\ answer' = Answer(answer, {r}, "unsent")
          /\ UNCHANGED <<pending, running>>
  /\ UNCHANGED <<subnodes, workers, queue, lock, stage, home, creds, idle, loop, checking,
                 ident, phase>>

\* A group is blocked by now: the user's workers go, the loop continues.
DrainRefuse(w, r) ==
  /\ Quiet
  /\ r \in drain[w]
  /\ drain' = [drain EXCEPT ![w] = @ \ {r}]
  /\ loop' = [loop EXCEPT ![w] = TRUE]
  /\ RemoveWorkers(Evicted(Username(r)), Answer(answer, {r}, "error"), queue)
  /\ UNCHANGED <<lock, home, creds, checking, ident, phase>>

-----------------------------------------------------------------------------
(* Timers, exits, shutdown *)

\* Mutant: the queue keeps the expired entry.
KeptQueued(s, r) == queue[s]

\* Array.indexOf, of an element the queue has.
Position(q, r) == CHOOSE i \in DOMAIN q : q[i] = r

\* splice(idx, 1): the queue without that element.
Unqueued(s, r) ==
  LET at == Position(queue[s], r)
  IN  [i \in 1..Len(queue[s]) - 1 |-> queue[s][IF i < at THEN i ELSE i + 1]]

ExpireQueued(s, r) ==
  /\ Quiet
  /\ r \in Range(queue[s])
  /\ queue' = [queue EXCEPT ![s] = Unqueued(s, r)]
  /\ answer' = Answer(answer, {r}, "timeout")
  /\ UNCHANGED <<subnodes, workers, lock, stage, home, creds, idle, pending, running, loop,
                 drain, checking, ident, phase>>

RpcTimeout(w, r) ==
  /\ Quiet
  /\ stage[w] = "up" /\ r \in pending[w]
  /\ RemoveWorkers({w}, Answer(answer, {r}, "timeout"), queue)
  /\ UNCHANGED <<lock, home, creds, loop, drain, checking, ident, phase>>

IdleTimeout(w) ==
  /\ Quiet
  /\ idle[w]
  /\ RemoveWorkers({w}, answer, queue)
  /\ UNCHANGED <<lock, home, creds, loop, drain, checking, ident, phase>>

\* The process exits by itself, or after it was terminated.
Exit(w) ==
  /\ Quiet
  /\ stage[w] # "free"
  /\ IF stage[w] = "starting"
     THEN /\ RemoveWorkers({w}, Answer(answer, {Head(lock[home[w]])}, "error"), queue)
          /\ Unlocked(home[w])
     ELSE RemoveWorkers({w}, answer, queue) /\ UNCHANGED lock
  /\ UNCHANGED <<home, creds, loop, drain, checking, ident, phase>>

Pooled == {subnodes[u] : u \in User} \ {NoSubnode}
PooledWorkers == UNION {workers[s] : s \in Pooled}

\* shutdown(): queues are rejected, idle workers go, busy ones may finish.
Shutdown ==
  /\ Quiet
  /\ phase = "run"
  /\ RemoveWorkers({w \in PooledWorkers : pending[w] = {}},
                   Answer(answer, UNION {Range(queue[s]) : s \in Pooled}, "error"),
                   [s \in Subnode |-> IF s \in Pooled THEN <<>> ELSE queue[s]])
  /\ phase' = "draining"
  /\ UNCHANGED <<lock, home, creds, loop, drain, checking, ident>>

\* No pooled worker is at work any more, or the drain timeout passed: what is
\* left is terminated, and the process exits with all it holds.
Stop ==
  /\ Quiet
  /\ phase = "draining"
  /\ phase' = "stopped"
  /\ answer' = Answer(answer, UNION {pending[w] : w \in PooledWorkers}, "error")
  /\ subnodes' = [u \in User |-> NoSubnode]
  /\ workers' = [s \in Subnode |-> {}]
  /\ queue' = [s \in Subnode |-> <<>>]
  /\ lock' = [s \in Subnode |-> <<>>]
  /\ stage' = [w \in Worker |-> "free"]
  /\ idle' = [w \in Worker |-> FALSE]
  /\ pending' = [w \in Worker |-> {}]
  /\ running' = [w \in Worker |-> {}]
  /\ loop' = [w \in Worker |-> FALSE]
  /\ drain' = [w \in Worker |-> {}]
  /\ checking' = {}
  /\ UNCHANGED <<home, creds, ident>>

-----------------------------------------------------------------------------
Callback(s) ==
  \/ DropStale(s)
  \/ \E r \in Request :
       \/ \E w \in Worker : Reuse(s, r, w) \/ Spawn(s, r, w)
       \/ ForkFails(s, r) \/ Enqueue(s, r)

Round(w) == DrainEmpty(w) \/ \E r \in Request : DrainNext(w, r) \/ DrainStale(w, r)

Dispatching(r) ==
  \/ \E i \in Identity : DispatchLate(r, i) \/ DispatchBlocked(r, i) \/ Dispatch(r, i)
  \/ Refuse(r) \/ RefuseCapacity(r)
  \/ \E s \in Subnode : Admit(r, s)

ChildEvent(w) ==
  \/ Ready(w) \/ Exit(w)
  \/ \E r \in Request : Respond(w, r) \/ RespondUnknown(w, r)

Timer(w) ==
  \/ ReadyTimeout(w) \/ IdleTimeout(w)
  \/ \E r \in Request : RpcTimeout(w, r)

Lookup(w) == \E r \in Request : DrainSend(w, r) \/ DrainRefuse(w, r)

Event ==
  \/ \E r \in Request : Dispatching(r)
  \/ \E w \in Worker : ChildEvent(w) \/ Timer(w) \/ Lookup(w)
  \/ \E s \in Subnode, r \in Request : ExpireQueued(s, r)
  \/ Shutdown \/ Stop

Next ==
  \/ \E s \in Subnode : Callback(s)
  \/ \E w \in Worker : Round(w)
  \/ Event

Spec == Init /\ [][Next]_vars

-----------------------------------------------------------------------------
(* Safety *)

\* Every variable has its type, and a worker that starts has a request
\* waiting for it under the lock of its subnode.
TypeOK ==
  /\ subnodes \in [User -> Subnode \cup {NoSubnode}]
  /\ workers \in [Subnode -> SUBSET Worker]
  /\ queue \in [Subnode -> Seq(Request)]
  /\ lock \in [Subnode -> Seq(Request)]
  /\ stage \in [Worker -> Stages]
  /\ home \in [Worker -> Subnode \cup {NoSubnode}]
  /\ creds \in [Worker -> Identity \cup {NoIdentity}]
  /\ idle \in [Worker -> BOOLEAN]
  /\ pending \in [Worker -> SUBSET Request]
  /\ running \in [Worker -> SUBSET Request]
  /\ loop \in [Worker -> BOOLEAN]
  /\ drain \in [Worker -> SUBSET Request]
  /\ checking \subseteq Request
  /\ ident \in [Request -> Identity \cup {NoIdentity}]
  /\ answer \in [Request -> Answers]
  /\ phase \in {"run", "draining", "stopped"}
  /\ \A w \in Worker : stage[w] = "starting" => lock[home[w]] # <<>>

\* A process only ever works for the identity it dropped its privileges to,
\* even if the account was deleted and created again with another uid while
\* the request was queued (subnode.ts, assignAndSend and onRequestComplete).
WorkersRunAsRequester ==
  \A w \in Worker : \A r \in running[w] : ident[r] = creds[w]

\* The lock keeps concurrent dispatches from spawning more than
\* subnode_workers.max workers for one Subnode.
SubnodeWithinMax ==
  \A s \in Subnode :
    Cardinality({w \in Worker : stage[w] \in {"starting", "up"} /\ home[w] = s}) <= Max

\* Until it is answered a request is always held somewhere it will be answered
\* from: a group lookup, the lock, the queue or a waiter, each with its timer.
NoRequestIsLost ==
  phase # "stopped" =>
    \A r \in Request : ident[r] # NoIdentity /\ answer[r] = "none" =>
      \/ r \in checking
      \/ \E s \in Subnode : r \in Range(lock[s]) \/ r \in Range(queue[s])
      \/ \E w \in Worker : r \in pending[w] \/ r \in drain[w]

\* Requests wait only while every worker of their subnode is at work: no
\* worker idles beside a queue, and no queue is left without workers.
QueueWaitsForBusyWorkers ==
  \A s \in Subnode : queue[s] # <<>> =>
    /\ workers[s] # {}
    /\ \A w \in workers[s] : running[w] # {} \/ drain[w] # {} \/ loop[w]

\* A request that was already answered (its queue timer fired, its subnode
\* was emptied, the hub shuts down) is not started afterwards.
AnsweredIsNotStarted ==
  [][\A w \in Worker : \A r \in running'[w] \ running[w] : answer[r] = "none"]_vars

=============================================================================
