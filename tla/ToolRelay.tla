------------------------------ MODULE ToolRelay ------------------------------
(***************************************************************************)
(* The relay between the callers of tools and the executors: the registry  *)
(* of WebSocket connections with its heartbeat, the pending RPCs, and the  *)
(* executors' side of both.                                                *)
(*                                                                         *)
(* Atomicity.  The relay is one JavaScript thread: a step is the code      *)
(* between two awaits, or the handler of one event of a socket.  While a   *)
(* connection waits for the adoption of its rotated token no listener is   *)
(* attached to it: what happens on its socket meanwhile is lost.           *)
(*                                                                         *)
(* Left out: which executor a share resolves to (any), authentication and  *)
(* the adoption itself (TokenRotation), control messages, the rows that    *)
(* report heartbeats, the content of requests and answers.                 *)
(***************************************************************************)
EXTENDS Naturals

CONSTANTS
  Executor, Call,
  Conn, OwnerOf,  \* connections, used once each, and the executor that opens each
  MaxMissed,      \* HEARTBEAT_MAX_MISSED
  NoConn, NoExecutor

ASSUME RelayAssumption ==
  /\ OwnerOf \in [Conn -> Executor] /\ MaxMissed \in Nat
  /\ NoConn \notin Conn /\ NoExecutor \notin Executor

VARIABLES
  registry,  \* the registered connection of each executor
  link,      \* connection: the relay's WebSocket: unused, open, closing, closed
  stage,     \* connection: none, adopting, listening, refused
  peer,      \* connection: the executor's WebSocket: unused, open, gone
  missed,    \* connection: missedPings
  awaiting,  \* connection: awaitingPong
  down, up,  \* connection: requests and responses under way
  running,   \* executor: calls its process works on
  done,      \* calls an executor has carried out or rejected
  target,    \* call: the executor its share resolved to
  call       \* call: idle, routing, pending (in pendingRpcs), and how it was answered

connVars == <<registry, link, stage, peer, missed, awaiting>>
vars == <<connVars, down, up, running, done, target, call>>

Init ==
  /\ registry = [e \in Executor |-> NoConn]
  /\ link = [c \in Conn |-> "unused"]
  /\ stage = [c \in Conn |-> "none"]
  /\ peer = [c \in Conn |-> "unused"]
  /\ missed = [c \in Conn |-> 0]
  /\ awaiting = [c \in Conn |-> FALSE]
  /\ down = [c \in Conn |-> {}]
  /\ up = [c \in Conn |-> {}]
  /\ running = [e \in Executor |-> {}]
  /\ done = {}
  /\ target = [k \in Call |-> NoExecutor]
  /\ call = [k \in Call |-> "idle"]

-----------------------------------------------------------------------------
(* Connections *)

Sockets(e) == {c \in Conn : OwnerOf[c] = e /\ peer[c] = "open"}

\* The daemon reconnects once its socket is gone.
Dials(e) == Sockets(e) = {}

\* terminate() and close() do nothing to a socket that is closed.
Ending(l) == IF l = "open" THEN "closing" ELSE l

\* handleConnection past the adoption: the connection is registered, one that
\* was registered before is terminated, and the listeners are attached.
Register(c, links) ==
  LET e == OwnerOf[c]
  IN  /\ registry' = [registry EXCEPT ![e] = c]
      /\ link' = [d \in Conn |-> IF d = registry[e] THEN Ending(links[d]) ELSE links[d]]
      /\ stage' = [stage EXCEPT ![c] = "listening"]

Connect(c) ==
  /\ link[c] = "unused" /\ Dials(OwnerOf[c])
  /\ peer' = [peer EXCEPT ![c] = "open"]
  /\ Register(c, [link EXCEPT ![c] = "open"])
  /\ UNCHANGED <<missed, awaiting, down, up, running, done, target, call>>

\* The connection came with a rotated token: its adoption is awaited first.
ConnectAdopting(c) ==
  /\ link[c] = "unused" /\ Dials(OwnerOf[c])
  /\ peer' = [peer EXCEPT ![c] = "open"]
  /\ link' = [link EXCEPT ![c] = "open"]
  /\ stage' = [stage EXCEPT ![c] = "adopting"]
  /\ UNCHANGED <<registry, missed, awaiting, down, up, running, done, target, call>>

FinishAdoption(c) ==
  /\ stage[c] = "adopting"
  /\ Register(c, link)
  /\ UNCHANGED <<peer, missed, awaiting, down, up, running, done, target, call>>

FailAdoption(c) ==
  /\ stage[c] = "adopting"
  /\ link' = [link EXCEPT ![c] = Ending(@)]
  /\ stage' = [stage EXCEPT ![c] = "refused"]
  /\ UNCHANGED <<registry, peer, missed, awaiting, down, up, running, done, target, call>>

\* Too many or too large messages, or an owner who revokes or replaces the
\* token: the relay terminates the registered connection.
Terminate(c) ==
  /\ registry[OwnerOf[c]] = c /\ link[c] = "open"
  /\ link' = [link EXCEPT ![c] = "closing"]
  /\ UNCHANGED <<registry, stage, peer, missed, awaiting, down, up, running, done, target, call>>

\* The relay learns that the executor closed its socket.
SeeClose(c) ==
  /\ link[c] = "open" /\ peer[c] = "gone"
  /\ link' = [link EXCEPT ![c] = "closing"]
  /\ UNCHANGED <<registry, stage, peer, missed, awaiting, down, up, running, done, target, call>>

\* Mutant: whichever connection closes, the executor is taken for offline.
ClosesAny(c) == stage[c] = "listening"

\* unregisterConnection: only the connection that is registered.
Closes(c) == stage[c] = "listening" /\ registry[OwnerOf[c]] = c

Pending(e) == {k \in Call : call[k] = "pending" /\ target[k] = e}

\* Mutant: the caller is told that the executor was offline.
ToldOffline == "refused"

\* The caller is told that the executor disconnected before it answered: the
\* same code as for an offline executor, with another message.
ToldDisconnected == "failed"

\* The "close" event of the relay's socket.
CloseEvent(c) ==
  /\ link[c] = "closing"
  /\ link' = [link EXCEPT ![c] = "closed"]
  /\ up' = [up EXCEPT ![c] = {}]
  /\ IF Closes(c)
     THEN /\ registry' = [registry EXCEPT ![OwnerOf[c]] = NoConn]
          /\ call' = [k \in Call |->
                        IF k \in Pending(OwnerOf[c]) THEN ToldDisconnected ELSE call[k]]
     ELSE UNCHANGED <<registry, call>>
  /\ UNCHANGED <<stage, peer, missed, awaiting, down, running, done, target>>

\* Mutant: a connection that owes a pong is not counted again.
CountedOnce(c) == IF awaiting[c] THEN missed[c] ELSE missed[c] + 1

\* Counted up to MaxMissed + 1, which ends the connection.
Counted(c) == IF missed[c] > MaxMissed THEN missed[c] ELSE missed[c] + 1

Registered == {registry[e] : e \in Executor} \ {NoConn}

\* One round of the heartbeat loop.
Heartbeat ==
  LET overdue == {c \in Registered : Counted(c) > MaxMissed}
  IN  /\ missed' = [c \in Conn |-> IF c \in Registered THEN Counted(c) ELSE missed[c]]
      /\ awaiting' = [c \in Conn |-> awaiting[c] \/ c \in Registered \ overdue]
      /\ link' = [c \in Conn |-> IF c \in overdue THEN Ending(link[c]) ELSE link[c]]
      /\ UNCHANGED <<registry, stage, peer, down, up, running, done, target, call>>

Pong(c) ==
  /\ stage[c] = "listening" /\ link[c] = "open" /\ peer[c] = "open" /\ awaiting[c]
  /\ awaiting' = [awaiting EXCEPT ![c] = FALSE]
  /\ missed' = [missed EXCEPT ![c] = 0]
  /\ UNCHANGED <<registry, link, stage, peer, down, up, running, done, target, call>>

\* The relay restarts: it holds all of this in memory only.
RelayRestarts ==
  /\ registry' = [e \in Executor |-> NoConn]
  /\ link' = [c \in Conn |-> IF link[c] = "unused" THEN "unused" ELSE "closed"]
  /\ stage' = [c \in Conn |-> "none"]
  /\ missed' = [c \in Conn |-> 0]
  /\ awaiting' = [c \in Conn |-> FALSE]
  /\ up' = [c \in Conn |-> {}]
  /\ call' = [k \in Call |-> IF call[k] \in {"routing", "pending"} THEN "failed" ELSE call[k]]
  /\ UNCHANGED <<peer, down, running, done, target>>

-----------------------------------------------------------------------------
(* Calls *)

\* routeToolCall looks the share up.
Ask(k, e) ==
  /\ call[k] = "idle"
  /\ call' = [call EXCEPT ![k] = "routing"]
  /\ target' = [target EXCEPT ![k] = e]
  /\ UNCHANGED <<connVars, down, up, running, done>>

\* Mutant: an executor without a connection is not noticed.
AlwaysConnected(e) == TRUE

Connected(e) == registry[e] # NoConn

\* No such share, a path filter, or an executor that is offline.
Refuse(k) ==
  /\ call[k] = "routing"
  /\ call' = [call EXCEPT ![k] = "refused"]
  /\ UNCHANGED <<connVars, down, up, running, done, target>>

\* dispatchRpc; send() drops the request when the socket is not open.
Dispatch(k) ==
  /\ call[k] = "routing" /\ Connected(target[k])
  /\ call' = [call EXCEPT ![k] = "pending"]
  /\ down' = [c \in Conn |->
                IF c = registry[target[k]] /\ link[c] = "open" THEN down[c] \cup {k} ELSE down[c]]
  /\ UNCHANGED <<connVars, up, running, done, target>>

RpcTimeout(k) ==
  /\ call[k] = "pending"
  /\ call' = [call EXCEPT ![k] = "failed"]
  /\ UNCHANGED <<connVars, down, up, running, done, target>>

\* A response arrives; nobody may wait for it any more.
Respond(c, k) ==
  /\ k \in up[c] /\ link[c] = "open"
  /\ up' = [up EXCEPT ![c] = @ \ {k}]
  /\ call' = IF stage[c] = "listening" /\ call[k] = "pending" /\ target[k] = OwnerOf[c]
             THEN [call EXCEPT ![k] = "result"] ELSE call
  /\ UNCHANGED <<connVars, down, running, done, target>>

-----------------------------------------------------------------------------
(* Executors *)

Receive(c, k) ==
  /\ peer[c] = "open" /\ k \in down[c]
  /\ down' = [down EXCEPT ![c] = @ \ {k}]
  /\ running' = [running EXCEPT ![OwnerOf[c]] = @ \cup {k}]
  /\ UNCHANGED <<connVars, up, done, target, call>>

Execute(e, k) ==
  /\ k \in running[e] \ done
  /\ done' = done \cup {k}
  /\ UNCHANGED <<connVars, down, up, running, target, call>>

\* The response goes to the socket of the moment, or nowhere.
Reply(e, k) ==
  /\ k \in running[e] \cap done
  /\ running' = [running EXCEPT ![e] = @ \ {k}]
  /\ up' = [c \in Conn |->
              IF c \in Sockets(e) /\ link[c] = "open" THEN up[c] \cup {k} ELSE up[c]]
  /\ UNCHANGED <<connVars, down, done, target, call>>

\* The executor's sockets of C are gone, and what was under way to it.
Gone(C) ==
  /\ peer' = [c \in Conn |-> IF c \in C THEN "gone" ELSE peer[c]]
  /\ down' = [c \in Conn |-> IF c \in C THEN {} ELSE down[c]]

\* The network, a ping timeout or the relay's close ends the executor's socket.
LoseSocket(c) ==
  /\ peer[c] = "open"
  /\ Gone({c})
  /\ UNCHANGED <<registry, link, stage, missed, awaiting, up, running, done, target, call>>

\* Its process dies in the middle of its calls.
Crash(e) ==
  /\ Gone(Sockets(e))
  /\ running' = [running EXCEPT ![e] = {}]
  /\ UNCHANGED <<registry, link, stage, missed, awaiting, up, done, target, call>>

-----------------------------------------------------------------------------
Next ==
  \/ \E c \in Conn :
       \/ Connect(c) \/ ConnectAdopting(c) \/ FinishAdoption(c) \/ FailAdoption(c)
       \/ Terminate(c) \/ SeeClose(c) \/ CloseEvent(c) \/ Pong(c) \/ LoseSocket(c)
       \/ \E k \in Call : Receive(c, k) \/ Respond(c, k)
  \/ Heartbeat \/ RelayRestarts
  \/ \E k \in Call : Refuse(k) \/ Dispatch(k) \/ RpcTimeout(k)
  \/ \E e \in Executor :
       \/ Crash(e)
       \/ \E k \in Call : Ask(k, e) \/ Execute(e, k) \/ Reply(e, k)

\* Timers fire, database calls settle, and a socket that is closing closes.
\* The network owes nothing: not even that a close is ever seen.
Fairness ==
  /\ WF_vars(Heartbeat)
  /\ \A c \in Conn :
       WF_vars(CloseEvent(c)) /\ WF_vars(FinishAdoption(c) \/ FailAdoption(c))
  /\ \A k \in Call : WF_vars(Refuse(k) \/ Dispatch(k)) /\ WF_vars(RpcTimeout(k))

Spec == Init /\ [][Next]_vars /\ Fairness

-----------------------------------------------------------------------------
(* Properties *)

\* Every variable has its type, and an executor has one socket at a time.
TypeOK ==
  /\ registry \in [Executor -> Conn \cup {NoConn}]
  /\ link \in [Conn -> {"unused", "open", "closing", "closed"}]
  /\ stage \in [Conn -> {"none", "adopting", "listening", "refused"}]
  /\ peer \in [Conn -> {"unused", "open", "gone"}]
  /\ missed \in [Conn -> 0..(MaxMissed + 1)]
  /\ awaiting \in [Conn -> BOOLEAN]
  /\ down \in [Conn -> SUBSET Call] /\ up \in [Conn -> SUBSET Call]
  /\ running \in [Executor -> SUBSET Call]
  /\ done \subseteq Call
  /\ target \in [Call -> Executor \cup {NoExecutor}]
  /\ call \in [Call -> {"idle", "routing", "pending", "refused", "result", "failed"}]
  /\ \A e \in Executor : \A c, d \in Sockets(e) : c = d

\* A pending RPC is one to an executor that has a connection registered, its own
\* and with its listeners: a close event of it settles the RPC, whichever
\* connection the request went to.  Whoever unregisters a connection rejects
\* the executor's RPCs in the same step (hub.ts, "close").  The connection need
\* not be open: one that closed during its adoption is registered all the same,
\* has no close event any more, and leaves its RPCs to the timer.
PendingIsConnected ==
  \A k \in Call : call[k] = "pending" =>
    \E c \in Conn : OwnerOf[c] = target[k] /\ registry[target[k]] = c /\ stage[c] = "listening"

\* The close event of a replaced connection, however late, leaves the newer
\* one alone: a connection that listens and is open is the registered one
\* (registry.ts, unregisterConnection).
LiveIsRegistered ==
  \A c \in Conn : stage[c] = "listening" /\ link[c] = "open" => registry[OwnerOf[c]] = c

\* A connection the executor has lost, of which the network tells the relay
\* nothing, is found out by the heartbeat.
HalfOpenIsDetected ==
  \A c \in Conn :
    registry[OwnerOf[c]] = c /\ link[c] = "open" /\ peer[c] = "gone"
      ~> registry[OwnerOf[c]] # c

\* The relay keeps the promises made to the callers of tools.
Calls == INSTANCE ToolCall WITH
  state <- [k \in Call |-> IF call[k] \in {"routing", "pending"} THEN "open" ELSE call[k]],
  effect <- done

CallsAreKept == Calls!Spec

=============================================================================
