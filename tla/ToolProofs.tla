------------------------------ MODULE ToolProofs ------------------------------
(***************************************************************************)
(* Proofs about the two ends of a tool call.                               *)
(*                                                                         *)
(* ToolRelay, in the relay: types, the two invariants of the registry, and *)
(* that each step of the relay is a step of ToolCall or none, for any      *)
(* executors, connections and calls, and any number of missed pings.       *)
(*                                                                         *)
(* FileOps, in the executor: the tree of a share stays a tree, a move      *)
(* loses no file, and answers are true, for any share, any requests and    *)
(* any number of operations at once, paths of any length and any texts.    *)
(***************************************************************************)
EXTENDS ToolRelay, FileOps, SequenceTheorems, TLAPS

-----------------------------------------------------------------------------
(* ToolRelay *)

\* The types of the variables, without the one socket per executor.
Shapes ==
  /\ registry \in [Executor -> Conn \cup {NoConn}]
  /\ link \in [Conn -> {"unused", "open", "closing", "closed"}]
  /\ stage \in [Conn -> {"none", "adopting", "listening", "refused"}]
  /\ peer \in [Conn -> {"unused", "open", "gone"}]
  /\ missed \in [Conn -> 0..(MaxMissed + 1)]
  /\ awaiting \in [Conn -> BOOLEAN]
  /\ down \in [Conn -> SUBSET Call] /\ up \in [Conn -> SUBSET Call]
  /\ running \in [Executor -> SUBSET Call]
  /\ done \subseteq Call
  /\ target \in [Call -> Executor \cup {NoExecutor}]
  /\ call \in [Call -> {"idle", "routing", "pending", "refused", "result", "failed"}]

OneSocket == \A e \in Executor : \A c, d \in Sockets(e) : c = d

\* A call that is being routed or is pending has an executor.
Routed == \A k \in Call : call[k] # "idle" => target[k] \in Executor

\* Whoever unregisters a connection rejects the executor's calls.
PendingIsRegistered == \A k \in Call : call[k] = "pending" => registry[target[k]] # NoConn

\* What is registered is a connection of the executor, with its listeners.
RegisteredListens ==
  \A e \in Executor : registry[e] # NoConn => OwnerOf[registry[e]] = e /\ stage[registry[e]] = "listening"

\* A connection that is not used yet is at no stage.
UnusedIsFresh == \A c \in Conn : link[c] = "unused" => stage[c] = "none"

\* Calls that have left the relay: on their way to an executor, at work there, carried out, or
\* answered.
Sent == {k \in Call : \/ \E c \in Conn : k \in down[c] \cup up[c]
                      \/ \E e \in Executor : k \in running[e]
                      \/ k \in done}

\* They were dispatched, which is recorded for good: none of them can be refused any more.
SentIsRecorded == \A k \in Sent : call[k] \in {"pending", "result", "failed"}

\* A response is one to a call that was carried out.
ResponsesAreTrue == \A c \in Conn : up[c] \subseteq done

Inv == Shapes /\ OneSocket /\ Routed /\ PendingIsRegistered /\ RegisteredListens /\ UnusedIsFresh
         /\ LiveIsRegistered /\ SentIsRecorded /\ ResponsesAreTrue

-----------------------------------------------------------------------------
(* What the steps change *)

LEMMA TypeIsShapes == TypeOK <=> Shapes /\ OneSocket
BY DEF TypeOK, Shapes, OneSocket

LEMMA InitInv == Init => Inv
<1> SUFFICES ASSUME Init
             PROVE  Inv
  OBVIOUS
<1> USE RelayAssumption DEF RelayAssumption
<1>1. Shapes
  BY DEF Init, Shapes
<1>2. \A c \in Conn : down[c] = {} /\ up[c] = {} /\ peer[c] = "unused" /\ stage[c] = "none"
  BY DEF Init
<1>3. \A e \in Executor : running[e] = {}
  BY DEF Init
<1>4. Sent = {}
  BY <1>2, <1>3 DEF Sent, Init
<1> QED
  BY <1>1, <1>2, <1>4 DEF Inv, Init, OneSocket, Sockets, Routed, PendingIsRegistered,
                          RegisteredListens, UnusedIsFresh, LiveIsRegistered, SentIsRecorded, ResponsesAreTrue

LEMMA ShapesNext == Inv /\ [Next]_vars => Shapes'
<1> SUFFICES ASSUME Inv, [Next]_vars
             PROVE  Shapes'
  OBVIOUS
<1> USE RelayAssumption DEF RelayAssumption, Inv, Shapes, connVars
<1>1. ASSUME NEW c \in Conn, Connect(c) \/ ConnectAdopting(c)
      PROVE  Shapes'
  <2>1. CASE Connect(c)
    BY <2>1 DEF Connect, Register, Ending
  <2>2. CASE ConnectAdopting(c)
    BY <2>2 DEF ConnectAdopting
  <2> QED
    BY <1>1, <2>1, <2>2
<1>2. ASSUME NEW c \in Conn, FinishAdoption(c) \/ FailAdoption(c) \/ Terminate(c) \/ SeeClose(c)
      PROVE  Shapes'
  <2>1. CASE FinishAdoption(c)
    BY <2>1 DEF FinishAdoption, Register, Ending
  <2>2. CASE FailAdoption(c)
    BY <2>2 DEF FailAdoption, Ending
  <2>3. CASE Terminate(c)
    BY <2>3 DEF Terminate
  <2>4. CASE SeeClose(c)
    BY <2>4 DEF SeeClose
  <2> QED
    BY <1>2, <2>1, <2>2, <2>3, <2>4
<1>3. ASSUME NEW c \in Conn, CloseEvent(c)
      PROVE  Shapes'
  BY <1>3 DEF CloseEvent, Closes, ToldDisconnected
<1>4. ASSUME NEW c \in Conn, Pong(c) \/ LoseSocket(c)
      PROVE  Shapes'
  <2>1. 0 \in 0..(MaxMissed + 1)
    OBVIOUS
  <2>2. CASE Pong(c)
    BY <2>1, <2>2 DEF Pong
  <2>3. CASE LoseSocket(c)
    BY <2>3 DEF LoseSocket, Gone
  <2> QED
    BY <1>4, <2>2, <2>3
<1>5. ASSUME NEW c \in Conn, NEW k \in Call, Receive(c, k) \/ Respond(c, k)
      PROVE  Shapes'
  <2>1. CASE Receive(c, k)
    BY <2>1 DEF Receive
  <2>2. CASE Respond(c, k)
    BY <2>2 DEF Respond
  <2> QED
    BY <1>5, <2>1, <2>2
<1>6. CASE Heartbeat
  <2>1. \A c \in Conn : Counted(c) \in 0..(MaxMissed + 1)
    BY DEF Counted
  <2> QED
    BY <1>6, <2>1 DEF Heartbeat, Ending
<1>7. CASE RelayRestarts
  BY <1>7 DEF RelayRestarts
<1>8. ASSUME NEW k \in Call, Refuse(k) \/ Dispatch(k) \/ RpcTimeout(k)
      PROVE  Shapes'
  BY <1>8 DEF Refuse, Dispatch, RpcTimeout
<1>9. ASSUME NEW e \in Executor, Crash(e)
      PROVE  Shapes'
  BY <1>9 DEF Crash, Gone
<1>10. ASSUME NEW e \in Executor, NEW k \in Call, Ask(k, e) \/ Execute(e, k) \/ Reply(e, k)
       PROVE  Shapes'
  <2>1. CASE Ask(k, e)
    BY <2>1 DEF Ask
  <2>2. CASE Execute(e, k)
    BY <2>2 DEF Execute
  <2>3. CASE Reply(e, k)
    BY <2>3 DEF Reply
  <2> QED
    BY <1>10, <2>1, <2>2, <2>3
<1>11. CASE UNCHANGED vars
  BY <1>11 DEF vars
<1> QED
  BY <1>1, <1>2, <1>3, <1>4, <1>5, <1>6, <1>7, <1>8, <1>9, <1>10, <1>11 DEF Next

\* An executor dials when it has no socket, and no other step opens one.
LEMMA OneSocketNext == Inv /\ [Next]_vars => OneSocket'
<1> SUFFICES ASSUME Inv, [Next]_vars
             PROVE  OneSocket'
  OBVIOUS
<1> USE DEF Inv, Shapes, OneSocket, Sockets
<1>1. ASSUME NEW c \in Conn, Connect(c) \/ ConnectAdopting(c)
      PROVE  OneSocket'
  BY <1>1 DEF Connect, ConnectAdopting, Dials
<1>2. ASSUME NEW C, Gone(C)
      PROVE  OneSocket'
  BY <1>2 DEF Gone
<1>3. CASE peer' = peer
  BY <1>3
<1> QED
  BY <1>1, <1>2, <1>3 DEF Next, vars, connVars, FinishAdoption, FailAdoption, Terminate, SeeClose,
       CloseEvent, Pong, LoseSocket, Receive, Respond, Heartbeat, RelayRestarts, Refuse, Dispatch,
       RpcTimeout, Crash, Ask, Execute, Reply

LEMMA RoutedNext == Inv /\ [Next]_vars => Routed'
<1> SUFFICES ASSUME Inv, [Next]_vars
             PROVE  Routed'
  OBVIOUS
<1> USE DEF Inv, Shapes, Routed
<1>1. ASSUME NEW e \in Executor, NEW k \in Call, Ask(k, e)
      PROVE  Routed'
  BY <1>1 DEF Ask
<1>2. ASSUME NEW k \in Call, Refuse(k) \/ Dispatch(k) \/ RpcTimeout(k)
      PROVE  Routed'
  BY <1>2 DEF Refuse, Dispatch, RpcTimeout
<1>3. ASSUME NEW c \in Conn, CloseEvent(c) \/ \E k \in Call : Respond(c, k)
      PROVE  Routed'
  BY <1>3 DEF CloseEvent, Respond, Pending
<1>4. CASE RelayRestarts
  BY <1>4 DEF RelayRestarts
<1>5. CASE UNCHANGED <<call, target>>
  BY <1>5
<1> QED
  BY <1>1, <1>2, <1>3, <1>4, <1>5 DEF Next, vars, connVars, Connect, ConnectAdopting,
       FinishAdoption, FailAdoption, Terminate, SeeClose, Pong, LoseSocket, Receive, Heartbeat,
       Crash, Execute, Reply

\* Who unregisters a connection rejects the executor's calls in the same step.
LEMMA PendingNext == Inv /\ [Next]_vars => PendingIsRegistered'
<1> SUFFICES ASSUME Inv, [Next]_vars
             PROVE  PendingIsRegistered'
  OBVIOUS
<1> USE RelayAssumption DEF RelayAssumption, Inv, Shapes, Routed, PendingIsRegistered
<1>1. ASSUME NEW c \in Conn, Connect(c) \/ FinishAdoption(c)
      PROVE  PendingIsRegistered'
  BY <1>1 DEF Connect, FinishAdoption, Register
<1>2. ASSUME NEW c \in Conn, CloseEvent(c)
      PROVE  PendingIsRegistered'
  BY <1>2 DEF CloseEvent, Pending, ToldDisconnected
<1>3. CASE RelayRestarts
  BY <1>3 DEF RelayRestarts
<1>4. ASSUME NEW k \in Call, Refuse(k) \/ Dispatch(k) \/ RpcTimeout(k) \/ \E c \in Conn : Respond(c, k)
      PROVE  PendingIsRegistered'
  BY <1>4 DEF Refuse, Dispatch, RpcTimeout, Respond, Connected, connVars
<1>5. ASSUME NEW e \in Executor, NEW k \in Call, Ask(k, e)
      PROVE  PendingIsRegistered'
  BY <1>5 DEF Ask, connVars
<1>6. CASE UNCHANGED <<registry, call, target>>
  BY <1>6
<1> QED
  BY <1>1, <1>2, <1>3, <1>4, <1>5, <1>6 DEF Next, vars, connVars, ConnectAdopting, FailAdoption,
       Terminate, SeeClose, Pong, LoseSocket, Receive, Heartbeat, Crash, Execute, Reply

\* Only a connection that is not registered is refused, or still waits for its adoption.
LEMMA RegisteredNext == Inv /\ [Next]_vars => RegisteredListens'
<1> SUFFICES ASSUME Inv, [Next]_vars
             PROVE  RegisteredListens'
  OBVIOUS
<1> USE RelayAssumption DEF RelayAssumption, Inv, Shapes, RegisteredListens
<1>1. ASSUME NEW c \in Conn, Connect(c) \/ FinishAdoption(c)
      PROVE  RegisteredListens'
  BY <1>1 DEF Connect, FinishAdoption, Register
<1>2. ASSUME NEW c \in Conn, ConnectAdopting(c)
      PROVE  RegisteredListens'
  <2>1. \A e \in Executor : registry[e] # c
    BY <1>2 DEF ConnectAdopting, UnusedIsFresh
  <2> QED
    BY <1>2, <2>1 DEF ConnectAdopting
<1>3. ASSUME NEW c \in Conn, FailAdoption(c)
      PROVE  RegisteredListens'
  BY <1>3 DEF FailAdoption
<1>4. ASSUME NEW c \in Conn, CloseEvent(c)
      PROVE  RegisteredListens'
  BY <1>4 DEF CloseEvent
<1>5. CASE RelayRestarts
  BY <1>5 DEF RelayRestarts
<1>6. CASE UNCHANGED <<registry, stage>>
  BY <1>6
<1> QED
  BY <1>1, <1>2, <1>3, <1>4, <1>5, <1>6 DEF Next, vars, connVars, Terminate, SeeClose, Pong, LoseSocket,
       Receive, Respond, Heartbeat, Refuse, Dispatch, RpcTimeout, Crash, Ask, Execute, Reply

LEMMA FreshNext == Inv /\ [Next]_vars => UnusedIsFresh'
<1> SUFFICES ASSUME Inv, [Next]_vars
             PROVE  UnusedIsFresh'
  OBVIOUS
<1> USE RelayAssumption DEF RelayAssumption, Inv, Shapes, UnusedIsFresh
<1>1. ASSUME NEW c \in Conn, Connect(c) \/ FinishAdoption(c)
      PROVE  UnusedIsFresh'
  BY <1>1 DEF Connect, FinishAdoption, Register, Ending
<1>2. ASSUME NEW c \in Conn, ConnectAdopting(c) \/ FailAdoption(c) \/ Terminate(c) \/ SeeClose(c)
      PROVE  UnusedIsFresh'
  BY <1>2 DEF ConnectAdopting, FailAdoption, Terminate, SeeClose, Ending
<1>3. ASSUME NEW c \in Conn, CloseEvent(c)
      PROVE  UnusedIsFresh'
  BY <1>3 DEF CloseEvent
<1>4. CASE Heartbeat \/ RelayRestarts
  BY <1>4 DEF Heartbeat, RelayRestarts, Ending
<1>5. CASE UNCHANGED <<stage, link>>
  BY <1>5
<1> QED
  BY <1>1, <1>2, <1>3, <1>4, <1>5 DEF Next, vars, connVars, Pong, LoseSocket, Receive, Respond,
       Refuse, Dispatch, RpcTimeout, Crash, Ask, Execute, Reply

\* Who registers a connection terminates the one before it.
LEMMA LiveNext == Inv /\ [Next]_vars => LiveIsRegistered'
<1> SUFFICES ASSUME Inv, [Next]_vars
             PROVE  LiveIsRegistered'
  OBVIOUS
<1> USE RelayAssumption DEF RelayAssumption, Inv, Shapes, LiveIsRegistered
<1>1. ASSUME NEW c \in Conn, Connect(c) \/ FinishAdoption(c)
      PROVE  LiveIsRegistered'
  BY <1>1 DEF Connect, FinishAdoption, Register, Ending
<1>2. ASSUME NEW c \in Conn, ConnectAdopting(c) \/ FailAdoption(c) \/ Terminate(c) \/ SeeClose(c)
      PROVE  LiveIsRegistered'
  BY <1>2 DEF ConnectAdopting, FailAdoption, Terminate, SeeClose, Ending
<1>3. ASSUME NEW c \in Conn, CloseEvent(c)
      PROVE  LiveIsRegistered'
  BY <1>3 DEF CloseEvent, Closes
<1>4. CASE Heartbeat \/ RelayRestarts
  BY <1>4 DEF Heartbeat, RelayRestarts, Ending
<1>5. CASE UNCHANGED <<registry, stage, link>>
  BY <1>5
<1> QED
  BY <1>1, <1>2, <1>3, <1>4, <1>5 DEF Next, vars, connVars, Pong, LoseSocket, Receive, Respond,
       Refuse, Dispatch, RpcTimeout, Crash, Ask, Execute, Reply

-----------------------------------------------------------------------------
(* Calls on their way *)

\* Once dispatched, for ever dispatched.
LEMMA RecordedStays ==
  ASSUME Inv, [Next]_vars, NEW k \in Call, call[k] \in {"pending", "result", "failed"}
  PROVE  call'[k] \in {"pending", "result", "failed"}
<1> USE DEF Inv, Shapes, connVars
<1>1. ASSUME NEW c \in Conn, CloseEvent(c) \/ \E j \in Call : Respond(c, j)
      PROVE  call'[k] \in {"pending", "result", "failed"}
  BY <1>1 DEF CloseEvent, Respond, Pending, ToldDisconnected
<1>2. ASSUME NEW j \in Call,
             Refuse(j) \/ Dispatch(j) \/ RpcTimeout(j) \/ \E e \in Executor : Ask(j, e)
      PROVE  call'[k] \in {"pending", "result", "failed"}
  BY <1>2 DEF Refuse, Dispatch, RpcTimeout, Ask
<1>3. CASE RelayRestarts
  BY <1>3 DEF RelayRestarts
<1>4. CASE UNCHANGED call
  BY <1>4
<1> QED
  BY <1>1, <1>2, <1>3, <1>4 DEF Next, vars, Connect, ConnectAdopting, FinishAdoption,
       FailAdoption, Terminate, SeeClose, Pong, LoseSocket, Receive, Heartbeat, Crash, Execute, Reply

\* Only a dispatch sends a call on its way.
LEMMA SentGrows ==
  ASSUME Inv, [Next]_vars, NEW k \in Sent'
  PROVE  k \in Sent \/ Dispatch(k)
<1> USE RelayAssumption DEF RelayAssumption, Inv, Shapes, Sent, connVars
<1>1. ASSUME NEW c \in Conn, CloseEvent(c) \/ LoseSocket(c)
      PROVE  k \in Sent
  BY <1>1 DEF CloseEvent, LoseSocket, Gone
<1>2. ASSUME NEW c \in Conn, NEW j \in Call, Receive(c, j) \/ Respond(c, j)
      PROVE  k \in Sent
  BY <1>2 DEF Receive, Respond
<1>3. CASE RelayRestarts
  BY <1>3 DEF RelayRestarts
<1>4. ASSUME NEW j \in Call, Dispatch(j)
      PROVE  k \in Sent \/ Dispatch(k)
  <2>1. \A c \in Conn : down'[c] \subseteq down[c] \cup {j}
    BY <1>4 DEF Dispatch
  <2>2. k = j \/ k \in Sent
    BY <1>4, <2>1 DEF Dispatch
  <2> QED
    BY <1>4, <2>2
<1>5. ASSUME NEW e \in Executor, Crash(e)
      PROVE  k \in Sent
  BY <1>5 DEF Crash, Gone
<1>6. ASSUME NEW e \in Executor, NEW j \in Call, Execute(e, j) \/ Reply(e, j)
      PROVE  k \in Sent
  BY <1>6 DEF Execute, Reply
<1>7. CASE UNCHANGED <<down, up, running, done>>
  BY <1>7
<1> QED
  BY <1>1, <1>2, <1>3, <1>4, <1>5, <1>6, <1>7 DEF Next, vars, Connect, ConnectAdopting,
       FinishAdoption, FailAdoption, Terminate, SeeClose, Pong, Heartbeat, Refuse, RpcTimeout, Ask

LEMMA SentNext == Inv /\ [Next]_vars => SentIsRecorded'
<1> SUFFICES ASSUME Inv, [Next]_vars, NEW k \in Sent'
             PROVE  call'[k] \in {"pending", "result", "failed"}
  BY DEF SentIsRecorded
<1>1. CASE k \in Sent
  BY <1>1, RecordedStays DEF Inv, SentIsRecorded, Sent
<1>2. CASE Dispatch(k)
  BY <1>2 DEF Dispatch, Inv, Shapes, Sent
<1> QED
  BY <1>1, <1>2, SentGrows

LEMMA ResponsesNext == Inv /\ [Next]_vars => ResponsesAreTrue'
<1> SUFFICES ASSUME Inv, [Next]_vars, NEW c \in Conn
             PROVE  up'[c] \subseteq done'
  BY DEF ResponsesAreTrue
<1> USE DEF Inv, Shapes, ResponsesAreTrue, connVars
<1>1. ASSUME NEW d \in Conn, CloseEvent(d) \/ \E k \in Call : Respond(d, k)
      PROVE  up'[c] \subseteq done'
  BY <1>1 DEF CloseEvent, Respond
<1>2. CASE RelayRestarts
  BY <1>2 DEF RelayRestarts
<1>3. ASSUME NEW e \in Executor, NEW k \in Call, Execute(e, k) \/ Reply(e, k)
      PROVE  up'[c] \subseteq done'
  BY <1>3 DEF Execute, Reply
<1>4. CASE UNCHANGED <<up, done>>
  BY <1>4
<1> QED
  BY <1>1, <1>2, <1>3, <1>4 DEF Next, vars, Connect, ConnectAdopting, FinishAdoption,
       FailAdoption, Terminate, SeeClose, Pong, LoseSocket, Receive, Heartbeat, Refuse, Dispatch,
       RpcTimeout, Crash, Ask

LEMMA NextInv == Inv /\ [Next]_vars => Inv'
BY ShapesNext, OneSocketNext, RoutedNext, PendingNext, RegisteredNext, FreshNext,
   LiveNext, SentNext, ResponsesNext DEF Inv

LEMMA Invariance == Spec => []Inv
BY InitInv, NextInv, PTL DEF Spec

-----------------------------------------------------------------------------
(* The theorems *)

\* Every variable has its type, and an executor has one socket at a time (relay-socket.ts).
THEOREM TypeCorrect == Spec => []TypeOK
<1>1. Inv => TypeOK
  BY TypeIsShapes DEF Inv
<1> QED
  BY <1>1, Invariance, PTL

\* A pending RPC is one to an executor with a registered connection of its own whose listeners are attached, so that
\* a close event of it, if one is still to come, settles the RPC (hub.ts, "close").
THEOREM PendingHasConnection == Spec => []PendingIsConnected
<1>1. Inv => PendingIsConnected
  <2> SUFFICES ASSUME Inv, NEW k \in Call, call[k] = "pending"
               PROVE  \E c \in Conn : OwnerOf[c] = target[k] /\ registry[target[k]] = c /\ stage[c] = "listening"
    BY DEF PendingIsConnected
  <2>1. target[k] \in Executor /\ registry[target[k]] # NoConn
    BY DEF Inv, Routed, PendingIsRegistered
  <2>2. registry[target[k]] \in Conn
    BY <2>1 DEF Inv, Shapes
  <2> QED
    BY <2>1, <2>2 DEF Inv, RegisteredListens
<1> QED
  BY <1>1, Invariance, PTL

\* The close event of a replaced connection leaves the newer one alone, however late it comes
\* (registry.ts, unregisterConnection).
THEOREM LiveHasRegistration == Spec => []LiveIsRegistered
<1>1. Inv => LiveIsRegistered
  BY DEF Inv
<1> QED
  BY <1>1, Invariance, PTL

-----------------------------------------------------------------------------
(* The refinement *)

LEMMA InitImplements == Init => Calls!Init
BY DEF Init, Calls!Init

\* One call changes, as the caller sees it.
LEMMA NextImplements == Inv /\ [Next]_vars => [Calls!Next]_(Calls!vars)
<1> SUFFICES ASSUME Inv, [Next]_vars
             PROVE  [Calls!Next]_(Calls!vars)
  OBVIOUS
<1> USE DEF Inv, Shapes, connVars
<1>1. ASSUME NEW k \in Call, NEW e \in Executor, Ask(k, e)
      PROVE  Calls!Ask(k)
  BY <1>1 DEF Ask, Calls!Ask
<1>2. ASSUME NEW k \in Call, NEW e \in Executor, Execute(e, k)
      PROVE  Calls!Happen(k)
  BY <1>2 DEF Execute, Calls!Happen, SentIsRecorded, Sent
<1>3. ASSUME NEW k \in Call, Refuse(k)
      PROVE  Calls!Refuse(k)
  BY <1>3 DEF Refuse, Calls!Refuse, SentIsRecorded, Sent
<1>4. ASSUME NEW c \in Conn, NEW k \in Call, Respond(c, k), call' # call
      PROVE  Calls!Return(k)
  BY <1>4 DEF Respond, Calls!Return, ResponsesAreTrue
<1>5. ASSUME NEW k \in Call, RpcTimeout(k)
      PROVE  Calls!Fail({k})
  BY <1>5 DEF RpcTimeout, Calls!Fail
<1>6. ASSUME NEW c \in Conn, CloseEvent(c), Closes(c), NEW K \in SUBSET Call, K # {},
             K = Pending(OwnerOf[c])
      PROVE  Calls!Fail(K)
  BY <1>6 DEF CloseEvent, Calls!Fail, Pending, ToldDisconnected
<1>7. ASSUME RelayRestarts, NEW K \in SUBSET Call, K # {},
             K = {k \in Call : call[k] \in {"routing", "pending"}}
      PROVE  Calls!Fail(K)
  BY <1>7 DEF RelayRestarts, Calls!Fail
<1>8. ASSUME UNCHANGED <<call, done>>
      PROVE  UNCHANGED Calls!vars
  BY <1>8 DEF Calls!vars
<1>9. ASSUME NEW k \in Call, Dispatch(k)
      PROVE  UNCHANGED Calls!vars
  BY <1>9 DEF Dispatch, Calls!vars
<1>10. ASSUME NEW c \in Conn, CloseEvent(c), ~Closes(c) \/ Pending(OwnerOf[c]) = {}
       PROVE  UNCHANGED <<call, done>>
  BY <1>10 DEF CloseEvent
<1>11. ASSUME RelayRestarts, ~\E k \in Call : call[k] \in {"routing", "pending"}
       PROVE  UNCHANGED <<call, done>>
  BY <1>11 DEF RelayRestarts
<1>12. CASE \E k \in Call : \/ Refuse(k) \/ Dispatch(k) \/ RpcTimeout(k)
                            \/ \E e \in Executor : Ask(k, e) \/ Execute(e, k)
  BY <1>1, <1>2, <1>3, <1>5, <1>9, <1>12 DEF Calls!Next
<1>13. CASE \E c \in Conn : CloseEvent(c)
  <2> PICK c \in Conn : CloseEvent(c)
    BY <1>13
  <2>1. CASE Closes(c) /\ Pending(OwnerOf[c]) # {}
    <3>1. PICK K \in SUBSET Call : K = Pending(OwnerOf[c])
      BY DEF Pending
    <3> QED
      BY <1>6, <2>1, <3>1 DEF Calls!Next
  <2>2. CASE ~Closes(c) \/ Pending(OwnerOf[c]) = {}
    BY <1>8, <1>10, <2>2
  <2> QED
    BY <2>1, <2>2
<1>14. CASE \E c \in Conn, k \in Call : Respond(c, k)
  <2>1. \A c \in Conn, k \in Call : Respond(c, k) => done' = done
    BY DEF Respond
  <2> QED
    BY <1>4, <1>8, <1>14, <2>1 DEF Calls!Next
<1>15. CASE RelayRestarts
  <2>1. CASE \E k \in Call : call[k] \in {"routing", "pending"}
    <3>1. PICK K \in SUBSET Call : K = {k \in Call : call[k] \in {"routing", "pending"}}
      OBVIOUS
    <3> QED
      BY <1>7, <1>15, <2>1, <3>1 DEF Calls!Next
  <2>2. CASE ~\E k \in Call : call[k] \in {"routing", "pending"}
    BY <1>8, <1>11, <1>15, <2>2
  <2> QED
    BY <2>1, <2>2
<1>16. CASE UNCHANGED <<call, done>>
  BY <1>8, <1>16
<1> QED
  BY <1>12, <1>13, <1>14, <1>15, <1>16 DEF Next, vars, Connect, ConnectAdopting, FinishAdoption,
       FailAdoption, Terminate, SeeClose, Pong, LoseSocket, Receive, Heartbeat, Crash, Reply

\* The relay keeps its promise to the callers of tools, as far as it is one of safety: one
\* answer for each call, a result only after its operation, no operation after a refusal.
\* That every call is answered is left to CallsAreKept, which the model checker checks.
THEOREM CallsAreKeptSafely == Spec => Calls!Init /\ [][Calls!Next]_(Calls!vars)
BY InitImplements, NextImplements, Invariance, PTL DEF Spec

-----------------------------------------------------------------------------
(* FileOps: the inductive invariant                                         *)
(*                                                                          *)
(* Structure holds of any operations; Company of those that were never      *)
(* overlapped, or only by some that spare what they read; Copying says how  *)
(* far such a copy or move is; Lone what an operation alone remembers.      *)

\* What an operation may hold, and where its work lies.
Holding == {"write", "read", "truncate", "put", "filling"}

Does(tool, at) ==
  \/ tool = "write"  /\ at \in {"mkdirs", "open", "write"}
  \/ tool = "edit"   /\ at \in {"open", "read", "truncate", "put"}
  \/ tool = "create" /\ at = "mkdirs"
  \/ tool = "delete" /\ at \in {"look", "rm", "removing"}
  \/ tool = "copy"   /\ at \in {"look", "access", "mkdirs", "copying", "filling"}
  \/ tool = "move"   /\ at \in {"access", "mkdirs", "rename", "copying", "filling", "rm", "removing"}

Fields == {"at", "req", "handle", "source", "todo", "opened", "path", "draft", "company", "start"}

FilesShapes ==
  /\ tree \in [Path -> {None, Dir, Link} \cup Inode]
  /\ DOMAIN content = Inode
  /\ DOMAIN op = Op
  /\ \A o \in Op : DOMAIN op[o] = Fields /\ op[o].at \in {"idle"} \cup Stage \cup Answer

\* An operation under way does what was asked for.
Records ==
  \A o \in Op :
    LET rec == op[o]
        r == rec.req
    IN /\ rec.handle \in IF rec.at \in Holding THEN Inode ELSE {NoInode}
       /\ rec.source \in IF rec.at = "filling" THEN Inode ELSE {NoInode}
       /\ Active(o) => r \in Request /\ Does(r.tool, rec.at) /\ rec.company \in {"none", "peaceful", "any"}
       /\ rec.at \in {"copying", "filling", "removing"} => \A p \in rec.todo : p \in Path /\ IsPrefix(r.src, p)
       /\ rec.at = "removing" => r.src \in rec.todo
       /\ rec.at = "filling" => rec.path \in Path /\ IsPrefix(r.src, rec.path)
       /\ rec.at \in {"truncate", "put"} => r.option # "dry"

Flat == \A p, q \in Path : tree[p] # None /\ IsStrictPrefix(q, p) => tree[q] = Dir
OneName == \A p, q \in Path : tree[p] \in Inode /\ tree[p] = tree[q] => p = q
FreeIsEmpty == \A i \in Inode : Fresh(i) => content[i] = <<>>
OneFiller == \A o, s \in Op : op[o].at = "filling" /\ op[s].at = "filling" /\ op[o].handle = op[s].handle => o = s

Structure == FilesShapes /\ Records /\ Flat /\ OneName /\ FreeIsEmpty /\ OneFiller

\* An operation that is alone, and one whose company spares what it reads.
Alone(o) == Active(o) /\ op[o].company = "none"
Quiet(o) == Active(o) /\ \/ op[o].req.tool = "copy" /\ op[o].company # "any"
                         \/ op[o].req.tool = "move" /\ op[o].company = "none"

Placed(o) == op[o].at = "filling" => tree[Image(op[o].req, op[o].path)] = op[o].handle

Company ==
  \A o, s \in Op : Active(s) /\ s # o =>
    /\ ~Alone(o)
    /\ Quiet(o) => Spares(op[s].req, op[o].req) /\ Placed(s)

\* What a copy reads; what a move must not lose.
Sources(rec) == FilesAmong(rec, IF rec.req.tool = "copy" THEN {p \in Path : IsPrefix(rec.req.src, p)} ELSE Path)
Own(rec) == {p \in Sources(rec) : IsPrefix(rec.req.src, p)}

Same(rec, p) == Seen(p) = rec.start[p]
CopiedTo(rec, p) ==
  LET to == Image(rec.req, p)
  IN Seen(to) = rec.start[p] /\ \A s \in Op : op[s].at = "filling" => op[s].handle # tree[to]

\* What is copied, or skipped.
Saved(rec, p) == CopiedTo(rec, p) \/ Skips(rec, p)

\* A link was at the destination, and stays there until a rename.
OntoLink(rec) == rec.start[rec.req.dst].is = Link

\* What a quiet copy or move has done so far.
CopyFacts(rec) ==
  LET r == rec.req
  IN /\ rec.at \notin {"rm", "removing"} => \A p \in Sources(rec) : Same(rec, p)
     /\ rec.at \in {"rm", "removing"} =>
          \A p \in Sources(rec) : IF IsPrefix(r.src, p) THEN Saved(rec, p) ELSE Same(rec, p)
     /\ r.tool = "move" /\ rec.at \in {"copying", "filling", "rm", "removing"} => Crosses(r)
     /\ rec.at \in {"look", "access"} => (tree[r.dst] = Link => OntoLink(rec))
     /\ rec.at \notin {"look", "access"} => \A p \in Sources(rec) : ~IsPrefix(r.dst, p)
     /\ rec.at \in {"mkdirs", "rename", "copying", "filling"} =>
          \A p \in Path : IsPrefix(r.dst, p) /\ tree[p] = Link => p = r.dst /\ OntoLink(rec)
     /\ rec.at \in {"mkdirs", "rename"} /\ r.tool = "move" => tree[r.dst] \in {None, Link}
     /\ rec.at \in {"copying", "filling"} =>
          \A p \in Own(rec) :
            \/ Saved(rec, p)
            \/ \E q \in rec.todo : IsPrefix(q, p)
            \/ rec.at = "filling" /\ p = rec.path
     /\ rec.at = "filling" => /\ tree[Image(r, rec.path)] = rec.handle /\ content[rec.handle] = <<>>
                              /\ rec.path \in Sources(rec) => tree[rec.path] = rec.source

Copying == \A o \in Op : Quiet(o) => CopyFacts(op[o])

\* What an operation that is alone has done so far.
LoneFacts(o) ==
  LET rec == op[o]
      r == rec.req
      text == rec.start[r.dst].text
  IN /\ rec.at \in {"look", "access", "read"} \/ (rec.at = "open" /\ r.tool = "edit") => \A p \in Path : Same(rec, p)
     /\ rec.at \in {"mkdirs", "open"} /\ r.tool = "write" => Same(rec, r.dst)
     /\ rec.at \in {"write", "read", "truncate", "put"} => rec.handle = tree[r.dst]
     /\ rec.at = "write" => content[rec.handle] = IF r.option = "append" THEN text ELSE <<>>
     /\ rec.at \in {"truncate", "put"} => rec.draft = Edited(o, text, r.finds)
     /\ rec.at = "put" => content[rec.handle] = <<>>

Lone == \A o \in Op : Alone(o) => LoneFacts(o)

FilesInv == Structure /\ Company /\ Copying /\ Lone

-----------------------------------------------------------------------------
(* Paths *)

LEMMA PathIsSeq == \A p \in Path : p \in Seq(Name) /\ p # <<>> /\ Len(p) \in Nat \ {0}
<1> SUFFICES ASSUME NEW p \in Path PROVE p \in Seq(Name) /\ p # <<>> /\ Len(p) \in Nat \ {0}
  OBVIOUS
<1>1. p \in Seq(Name) /\ p # <<>>
  BY FileOpsAssumption DEF FileOpsAssumption
<1> QED
  BY <1>1, EmptySeq

LEMMA PathClosed == \A p \in Path : \A k \in 1..Len(p) : SubSeq(p, 1, k) \in Path
BY FileOpsAssumption DEF FileOpsAssumption

\* Prefixes, position by position.
LEMMA PrefixItems ==
  ASSUME NEW q \in Seq(Name), NEW p \in Seq(Name)
  PROVE  IsPrefix(q, p) <=> Len(q) <= Len(p) /\ \A i \in 1..Len(q) : q[i] = p[i]
<1>1. Len(q) \in Nat /\ Len(p) \in Nat /\ SubSeq(q, 1, Len(q)) = q
  BY LenProperties, SubSeqFull
<1>2. ASSUME Len(q) <= Len(p)
      PROVE  SubSeq(p, 1, Len(q)) \in Seq(Name) /\ Len(SubSeq(p, 1, Len(q))) = Len(q)
             /\ \A i \in 1..Len(q) : SubSeq(p, 1, Len(q))[i] = p[i]
  <2>1. \A i \in 1..Len(q) : p[i] \in Name
    BY <1>1, <1>2, ElementOfSeq
  <2> QED
    BY <1>1, <1>2, <2>1, SubSeqProperties, Z3
<1>3. ASSUME Len(q) <= Len(p), \A i \in 1..Len(q) : q[i] = p[i]
      PROVE  SubSeq(p, 1, Len(q)) = q
  BY <1>1, <1>2, <1>3, SeqEqual
<1> QED
  BY <1>1, <1>2, <1>3 DEF IsPrefix

LEMMA PrefixRefl == \A p \in Seq(Name) : IsPrefix(p, p)
BY PrefixItems, LenProperties

LEMMA PrefixTrans ==
  ASSUME NEW q \in Seq(Name), NEW p \in Seq(Name), NEW r \in Seq(Name), IsPrefix(q, p), IsPrefix(p, r)
  PROVE  IsPrefix(q, r)
BY PrefixItems, LenProperties

LEMMA PrefixAntisym ==
  ASSUME NEW q \in Seq(Name), NEW p \in Seq(Name), IsPrefix(q, p), Len(q) >= Len(p)
  PROVE  q = p
BY PrefixItems, LenProperties, SeqEqual

LEMMA PrefixesMeet ==
  ASSUME NEW q \in Seq(Name), NEW p \in Seq(Name), NEW r \in Seq(Name), IsPrefix(q, r), IsPrefix(p, r)
  PROVE  IsPrefix(q, p) \/ IsPrefix(p, q)
BY PrefixItems, LenProperties

\* The parent of a path, and what is above it.
LEMMA FrontIsPath ==
  ASSUME NEW p \in Path
  PROVE  /\ Parent(p) \in Seq(Name) /\ Len(Parent(p)) = Len(p) - 1
         /\ Parent(p) = <<>> \/ Parent(p) \in Path
         /\ \A q \in Seq(Name) : IsStrictPrefix(q, p) <=> IsPrefix(q, Parent(p))
<1>1. p \in Seq(Name) /\ Len(p) \in Nat \ {0}
  BY PathIsSeq
<1>2. Parent(p) = SubSeq(p, 1, Len(p) - 1)
  BY DEF Parent, Front
<1>3. \A i \in 1..(Len(p) - 1) : p[i] \in Name
  BY <1>1, ElementOfSeq
<1>4. /\ Parent(p) \in Seq(Name) /\ Len(Parent(p)) = Len(p) - 1
      /\ \A i \in 1..(Len(p) - 1) : Parent(p)[i] = p[i]
  <2>0. PICK n \in Nat : n = Len(p) - 1
    BY <1>1
  <2>1. n \in Int /\ 1 \in Int /\ n - 1 + 1 = n /\ (1 <= n \/ n = 0)
    OBVIOUS
  <2>2. \A i \in 1..n : p[i] \in Name
    BY <1>3, <2>0
  <2>3. /\ SubSeq(p, 1, n) \in Seq(Name) /\ Len(SubSeq(p, 1, n)) = IF 1 <= n THEN n - 1 + 1 ELSE 0
        /\ \A i \in 1..(n - 1 + 1) : SubSeq(p, 1, n)[i] = p[1 + i - 1]
    BY <2>1, <2>2, SubSeqProperties
  <2>4. \A i \in 1..n : 1 + i - 1 = i
    BY <2>1
  <2>5. Len(SubSeq(p, 1, n)) = n /\ \A i \in 1..n : SubSeq(p, 1, n)[i] = p[i]
    BY <2>1, <2>3, <2>4
  <2> QED
    BY <1>2, <2>0, <2>3, <2>5
<1>5. Parent(p) = <<>> \/ Parent(p) \in Path
  <2>1. CASE Len(p) = 1
    BY <1>4, <2>1, EmptySeq
  <2>2. CASE Len(p) > 1
    <3>1. Len(p) - 1 \in 1..Len(p)
      BY <1>1, <2>2
    <3> QED
      BY <1>2, <3>1, PathClosed
  <2>3. Len(p) = 1 \/ Len(p) > 1
    <3>1. PICK n \in Nat \ {0} : n = Len(p)
      BY <1>1
    <3> QED
      BY <3>1
  <2> QED
    BY <2>1, <2>2, <2>3
<1>6. ASSUME NEW q \in Seq(Name)
      PROVE  IsStrictPrefix(q, p) <=> IsPrefix(q, Parent(p))
  <2>1. Len(q) \in Nat
    BY LenProperties
  <2>2. IsPrefix(q, p) <=> Len(q) <= Len(p) /\ \A i \in 1..Len(q) : q[i] = p[i]
    BY <1>1, PrefixItems
  <2>3. IsPrefix(q, Parent(p)) <=> Len(q) <= Len(p) - 1 /\ \A i \in 1..Len(q) : q[i] = Parent(p)[i]
    BY <1>4, PrefixItems
  <2>4. IsStrictPrefix(q, p) => Len(q) <= Len(p) - 1
    BY <1>1, <2>1, <2>2, PrefixAntisym DEF IsStrictPrefix
  <2>5. Len(q) <= Len(p) - 1 => q # p
    BY <1>1
  <2> QED
    BY <1>1, <1>4, <2>1, <2>2, <2>3, <2>4, <2>5 DEF IsStrictPrefix
<1> QED
  BY <1>4, <1>5, <1>6

\* The entry of q on the way to p.
LEMMA NextOnTheWay ==
  ASSUME NEW q \in Path, NEW p \in Path, IsStrictPrefix(q, p)
  PROVE  \E c \in Path : IsStrictPrefix(q, c) /\ Len(c) = Len(q) + 1 /\ IsPrefix(c, p)
<1> DEFINE c == SubSeq(p, 1, Len(q) + 1)
<1>1. p \in Seq(Name) /\ Len(p) \in Nat \ {0} /\ q \in Seq(Name) /\ Len(q) \in Nat \ {0}
  BY PathIsSeq
<1>2. Len(q) + 1 <= Len(p) /\ \A i \in 1..Len(q) : q[i] = p[i]
  <2>1. IsPrefix(q, p) /\ q # p
    BY DEF IsStrictPrefix
  <2>2. Len(q) <= Len(p) /\ \A i \in 1..Len(q) : q[i] = p[i]
    BY <1>1, <2>1, PrefixItems
  <2> QED
    BY <1>1, <2>1, <2>2, PrefixAntisym
<1>3. Len(q) + 1 \in 1..Len(p)
  BY <1>1, <1>2
<1>4. c \in Path
  BY <1>3, PathClosed
<1>5. \A i \in 1..(Len(q) + 1) : p[i] \in Name
  BY <1>1, <1>2, ElementOfSeq
<1>6. c \in Seq(Name) /\ Len(c) = Len(q) + 1 /\ \A i \in 1..(Len(q) + 1) : c[i] = p[i]
  BY <1>1, <1>5, SubSeqProperties, Z3
<1> HIDE DEF c
<1>7. IsPrefix(q, c) /\ q # c
  BY <1>1, <1>2, <1>6, PrefixItems
<1>8. IsPrefix(c, p)
  BY <1>1, <1>2, <1>6, PrefixItems
<1> QED
  BY <1>4, <1>6, <1>7, <1>8 DEF IsStrictPrefix

\* What follows a prefix.
Rest(a, p) == SubSeq(p, Len(a) + 1, Len(p))

\* A path is its prefix, and the rest.
LEMMA RestFollows ==
  ASSUME NEW a \in Seq(Name), NEW p \in Seq(Name), IsPrefix(a, p)
  PROVE  Rest(a, p) \in Seq(Name) /\ a \o Rest(a, p) = p
<1>1. PICK k \in Nat, n \in Nat : k = Len(a) /\ n = Len(p)
  BY LenProperties
<1>2. k <= n /\ SubSeq(p, 1, k) = a
  BY <1>1, SubSeqFull DEF IsPrefix
<1>3. PICK j \in Int : j = k + 1
  OBVIOUS
<1>4. SubSeq(p, j, n) \in Seq(Name)
  <2>1. \A i \in j..n : p[i] \in Name
    <3>1. \A i \in j..n : i \in 1..Len(p)
      BY <1>1, <1>3
    <3> QED
      BY <3>1, ElementOfSeq
  <2> QED
    BY <2>1, SubSeqProperties
<1>5. SubSeq(p, 1, k) \o SubSeq(p, k + 1, n) = SubSeq(p, 1, n)
  <2>1. 1 \in 1..(Len(p) + 1) /\ k \in (1 - 1)..Len(p) /\ n \in k..Len(p)
    BY <1>1, <1>2
  <2> QED
    BY <2>1, ConcatAdjacentSubSeq
<1>6. SubSeq(p, 1, n) = p
  BY <1>1, SubSeqFull
<1>7. Rest(a, p) = SubSeq(p, k + 1, n) /\ Rest(a, p) = SubSeq(p, j, n)
  BY <1>1, <1>3 DEF Rest
<1> QED
  BY <1>2, <1>4, <1>5, <1>6, <1>7

LEMMA PrefixOfConcat ==
  ASSUME NEW a \in Seq(Name), NEW s \in Seq(Name)
  PROVE  a \o s \in Seq(Name) /\ IsPrefix(a, a \o s)
<1>1. /\ a \o s \in Seq(Name) /\ Len(a \o s) = Len(a) + Len(s)
      /\ \A i \in 1..(Len(a) + Len(s)) : (a \o s)[i] = IF i <= Len(a) THEN a[i] ELSE s[i - Len(a)]
  BY ConcatProperties
<1>2. Len(a) \in Nat /\ Len(s) \in Nat
  BY LenProperties
<1>3. Len(a) <= Len(a \o s)
  BY <1>1, <1>2
<1>4. \A i \in 1..Len(a) : a[i] = (a \o s)[i]
  <2>1. \A i \in 1..Len(a) : i \in 1..(Len(a) + Len(s)) /\ i <= Len(a)
    BY <1>2
  <2> QED
    BY <1>1, <2>1
<1> QED
  BY <1>1, <1>3, <1>4, PrefixItems

\* What is moved keeps its rest.
LEMMA MovedConcat ==
  ASSUME NEW a \in Seq(Name), NEW b \in Seq(Name), NEW s \in Seq(Name)
  PROVE  Moved(a, b, a \o s) = b \o s
<1>1. a \o s \in Seq(Name) /\ IsPrefix(a, a \o s)
  BY PrefixOfConcat
<1>2. Rest(a, a \o s) \in Seq(Name) /\ a \o Rest(a, a \o s) = a \o s
  BY <1>1, RestFollows
<1>3. Rest(a, a \o s) = s
  <2>1. \A S : \A x, y, z \in Seq(S) : x \o y = x \o z => y = z
    BY ConcatSimplifications
  <2> QED
    BY <1>2, <2>1
<1> QED
  BY <1>3 DEF Moved, Rest

\* What is moved lies below its new place, and can be moved back.
LEMMA MovedBelow ==
  ASSUME NEW a \in Seq(Name), NEW b \in Seq(Name), NEW p \in Seq(Name), IsPrefix(a, p)
  PROVE  /\ Moved(a, b, p) \in Seq(Name)
         /\ IsPrefix(b, Moved(a, b, p))
         /\ Moved(b, a, Moved(a, b, p)) = p
<1>1. PICK s \in Seq(Name) : p = a \o s
  BY RestFollows
<1>2. Moved(a, b, p) = b \o s /\ Moved(b, a, b \o s) = a \o s
  BY <1>1, MovedConcat
<1> QED
  BY <1>1, <1>2, PrefixOfConcat

LEMMA ConcatTwice ==
  \A s \in Seq(Name) : \A t \in Seq(Name) : \A x \in Seq(Name) : (x \o s) \o t = x \o (s \o t)
<1>1. ASSUME NEW x \in Seq(Name), NEW s \in Seq(Name), NEW t \in Seq(Name)
      PROVE  (x \o s) \o t = x \o (s \o t)
  BY ConcatAssociative
<1> QED
  BY <1>1, Zenon

\* Moving keeps the order of the paths.
LEMMA MovedMonotone ==
  ASSUME NEW a \in Seq(Name), NEW b \in Seq(Name), NEW p \in Seq(Name), NEW q \in Seq(Name),
         IsPrefix(a, q), IsPrefix(q, p)
  PROVE  IsPrefix(Moved(a, b, q), Moved(a, b, p))
<1>1. PICK s \in Seq(Name) : q = a \o s
  BY RestFollows
<1>2. PICK t \in Seq(Name) : p = q \o t
  BY RestFollows
<1>3. s \o t \in Seq(Name) /\ b \o s \in Seq(Name)
  BY PrefixOfConcat
<1>4. p = a \o (s \o t) /\ b \o (s \o t) = (b \o s) \o t
  <2>1. \A x \in Seq(Name) : (x \o s) \o t = x \o (s \o t)
    BY ConcatTwice, Zenon
  <2>2. (a \o s) \o t = a \o (s \o t) /\ (b \o s) \o t = b \o (s \o t)
    BY <2>1, Zenon
  <2> QED
    BY <1>1, <1>2, <2>2, Zenon
<1>5. Moved(a, b, q) = b \o s /\ Moved(a, b, p) = (b \o s) \o t
  <2>1. \A x \in Seq(Name) : Moved(a, b, a \o x) = b \o x
    BY MovedConcat
  <2> QED
    BY <1>1, <1>3, <1>4, <2>1
<1> QED
  BY <1>3, <1>5, PrefixOfConcat

\* The order of the paths.
Ordered ==
  /\ \A p \in Path : IsPrefix(p, p)
  /\ \A p, q, r \in Path : IsPrefix(p, q) /\ IsPrefix(q, r) => IsPrefix(p, r)
  /\ \A p, q \in Path : IsPrefix(p, q) /\ IsPrefix(q, p) => p = q
  /\ \A p, q, r \in Path : IsPrefix(p, r) /\ IsPrefix(q, r) => IsPrefix(p, q) \/ IsPrefix(q, p)

LEMMA PathsAreOrdered == Ordered
<1>1. \A p \in Path : p \in Seq(Name)
  BY PathIsSeq
<1>2. \A p, q \in Path : IsPrefix(p, q) /\ IsPrefix(q, p) => p = q
  <2> SUFFICES ASSUME NEW p \in Path, NEW q \in Path, IsPrefix(p, q), IsPrefix(q, p)
               PROVE  p = q
    OBVIOUS
  <2>1. Len(p) >= Len(q)
    BY <1>1, PrefixItems
  <2> QED
    BY <1>1, <2>1, PrefixAntisym
<1>3. \A p, q, r \in Path : IsPrefix(p, q) /\ IsPrefix(q, r) => IsPrefix(p, r)
  BY <1>1, PrefixTrans
<1>4. \A p, q, r \in Path : IsPrefix(p, r) /\ IsPrefix(q, r) => IsPrefix(p, q) \/ IsPrefix(q, p)
  BY <1>1, PrefixesMeet
<1> QED
  BY <1>1, <1>2, <1>3, <1>4, PrefixRefl DEF Ordered

\* The parent is the lowest of what is above, or the root of the share.
LEMMA ParentIsNext ==
  ASSUME NEW p \in Path
  PROVE  /\ Parent(p) = <<>> \/ Parent(p) \in Path
         /\ <<>> \notin Path /\ IsDir(<<>>) /\ \A q \in Path : ~IsPrefix(q, <<>>)
         /\ \A q \in Path : IsStrictPrefix(q, p) <=> Parent(p) \in Path /\ IsPrefix(q, Parent(p))
         /\ Len(p) > 1 => Parent(p) \in Path
<1>1. p \in Seq(Name) /\ p # <<>> /\ Len(p) \in Nat \ {0} /\ <<>> \notin Path
  BY PathIsSeq
<1>2. /\ Parent(p) \in Seq(Name) /\ Len(Parent(p)) = Len(p) - 1
      /\ Parent(p) = <<>> \/ Parent(p) \in Path
      /\ \A q \in Seq(Name) : IsStrictPrefix(q, p) <=> IsPrefix(q, Parent(p))
  BY FrontIsPath
<1>3. ASSUME NEW q \in Path, IsPrefix(q, <<>>)
      PROVE  FALSE
  <2>1. Len(q) \in Nat \ {0} /\ q \in Seq(Name) /\ <<>> \in Seq(Name)
    BY PathIsSeq, EmptySeq
  <2>2. Len(q) <= Len(<<>>) /\ Len(<<>>) = 0
    BY <1>3, <2>1, PrefixItems, EmptySeq
  <2> QED
    BY <2>1, <2>2
<1>4. \A q \in Path : q \in Seq(Name)
  BY PathIsSeq
<1>5. Len(p) > 1 => Parent(p) \in Path
  <2> SUFFICES ASSUME Len(p) > 1, Parent(p) = <<>>
               PROVE  FALSE
    BY <1>2
  <2>1. Len(<<>>) = 0
    BY EmptySeq
  <2>2. PICK n \in Nat : n = Len(p)
    BY <1>1
  <2>3. n - 1 = 0
    BY <1>2, <2>1, <2>2
  <2>4. n = 1
    BY <2>3
  <2> QED
    BY <2>2, <2>4
<1> QED
  BY <1>1, <1>2, <1>3, <1>4, <1>5 DEF IsDir

\* Where a copy or a move takes what is below its source.
Takes(r) ==
  /\ r.src \in Path /\ r.dst \in Path /\ ~IsPrefix(r.src, r.dst)
  /\ \A p \in Path : IsPrefix(r.src, p) =>
       Image(r, p) \in Path /\ IsPrefix(r.dst, Image(r, p)) /\ Moved(r.dst, r.src, Image(r, p)) = p
  /\ \A p, q \in Path : IsPrefix(r.src, q) /\ IsPrefix(q, p) => IsPrefix(Image(r, q), Image(r, p))
  /\ \A p \in Path : IsPrefix(r.dst, p) =>
       /\ Moved(r.dst, r.src, p) \in Path => /\ IsPrefix(r.src, Moved(r.dst, r.src, p))
                                             /\ Image(r, Moved(r.dst, r.src, p)) = p
       /\ \A q \in Path : IsPrefix(r.dst, q) /\ IsPrefix(q, p) =>
            /\ IsPrefix(Moved(r.dst, r.src, q), Moved(r.dst, r.src, p))
            /\ Moved(r.dst, r.src, p) \in Path => Moved(r.dst, r.src, q) \in Path

LEMMA PrefixInPath ==
  ASSUME NEW q \in Seq(Name), NEW p \in Path, IsPrefix(q, p), q # <<>>
  PROVE  q \in Path
<1>1. p \in Seq(Name) /\ Len(p) \in Nat \ {0}
  BY PathIsSeq
<1>2. Len(q) \in Nat \ {0} /\ SubSeq(q, 1, Len(q)) = q
  BY EmptySeq, SubSeqFull
<1>3. Len(q) <= Len(p) /\ SubSeq(p, 1, Len(q)) = q
  BY <1>1, <1>2, PrefixItems DEF IsPrefix
<1>4. Len(q) \in 1..Len(p)
  BY <1>1, <1>2, <1>3
<1> QED
  BY <1>3, <1>4, PathClosed

LEMMA RequestsAssumed ==
  ASSUME NEW r \in Request
  PROVE  /\ r.tool \in {"write", "edit", "create", "delete", "copy", "move"}
         /\ r.src \in Path /\ r.dst \in Path
         /\ r.tool \in {"copy", "move"} =>
              /\ ~IsPrefix(r.src, r.dst)
              /\ \A p \in Path : IsPrefix(r.src, p) => Image(r, p) \in Path
BY FileOpsAssumption DEF FileOpsAssumption

\* A copy or a move takes what is below its source to what is below its destination, one to one.
LEMMA ImageTakes ==
  ASSUME NEW r \in Request, r.tool \in {"copy", "move"}
  PROVE  Takes(r)
<1>1. /\ r.src \in Path /\ r.dst \in Path /\ ~IsPrefix(r.src, r.dst)
      /\ \A p \in Path : IsPrefix(r.src, p) => Image(r, p) \in Path
  BY RequestsAssumed
<1>2. \A p \in Path : p \in Seq(Name) /\ p # <<>>
  BY PathIsSeq
<1>3. ASSUME NEW p \in Path, IsPrefix(r.src, p)
      PROVE  IsPrefix(r.dst, Image(r, p)) /\ Moved(r.dst, r.src, Image(r, p)) = p
  BY <1>1, <1>2, <1>3, MovedBelow DEF Image
<1>4. ASSUME NEW p \in Path, NEW q \in Path, IsPrefix(r.src, q), IsPrefix(q, p)
      PROVE  IsPrefix(Image(r, q), Image(r, p))
  BY <1>1, <1>2, <1>4, MovedMonotone DEF Image
<1>5. ASSUME NEW p \in Path, IsPrefix(r.dst, p), Moved(r.dst, r.src, p) \in Path
      PROVE  IsPrefix(r.src, Moved(r.dst, r.src, p)) /\ Image(r, Moved(r.dst, r.src, p)) = p
  BY <1>1, <1>2, <1>5, MovedBelow DEF Image
<1>6. ASSUME NEW p \in Path, NEW q \in Path, IsPrefix(r.dst, q), IsPrefix(q, p)
      PROVE  /\ IsPrefix(Moved(r.dst, r.src, q), Moved(r.dst, r.src, p))
             /\ Moved(r.dst, r.src, p) \in Path => Moved(r.dst, r.src, q) \in Path
  <2>1. IsPrefix(Moved(r.dst, r.src, q), Moved(r.dst, r.src, p))
    BY <1>1, <1>2, <1>6, MovedMonotone
  <2>2. Moved(r.dst, r.src, q) \in Seq(Name) /\ IsPrefix(r.src, Moved(r.dst, r.src, q))
    BY <1>1, <1>2, <1>6, MovedBelow
  <2>3. Moved(r.dst, r.src, q) # <<>>
    <3> SUFFICES ASSUME Moved(r.dst, r.src, q) = <<>>
                 PROVE  FALSE
      OBVIOUS
    <3>1. r.src \in Seq(Name) /\ Len(r.src) \in Nat \ {0}
      BY <1>1, PathIsSeq
    <3>2. Len(r.src) <= Len(Moved(r.dst, r.src, q)) /\ Len(<<>>) = 0
      BY <2>2, <3>1, PrefixItems, EmptySeq
    <3> QED
      BY <3>1, <3>2
  <2> QED
    BY <2>1, <2>2, <2>3, PrefixInPath
<1> QED
  BY <1>1, <1>3, <1>4, <1>5, <1>6 DEF Takes

-----------------------------------------------------------------------------
\* The operation is over.
IsOver(o, answer) ==
  /\ DOMAIN op' = Op /\ \A s \in Op : DOMAIN op'[s] = Fields
  /\ \A s \in Op \ {o} : op'[s] = op[s]
  /\ op'[o].at = answer /\ op'[o].handle = NoInode /\ op'[o].source = NoInode

\* It goes on, with what it holds and what is left to do.
GoesOn(o, at, handle, source, todo) ==
  /\ DOMAIN op' = Op /\ \A s \in Op : DOMAIN op'[s] = Fields
  /\ \A s \in Op \ {o} : op'[s] = op[s]
  /\ op'[o].req = op[o].req /\ op'[o].company = op[o].company /\ op'[o].start = op[o].start
  /\ op'[o].at = at /\ op'[o].handle = handle /\ op'[o].source = source /\ op'[o].todo = todo

LEMMA IdleIsEmpty ==
  ASSUME NEW answer
  PROVE  LET rec == [Idle EXCEPT !.at = answer]
         IN DOMAIN rec = Fields /\ rec.at = answer /\ rec.handle = NoInode /\ rec.source = NoInode
BY DEF Idle, Fields

LEMMA EndsIsOver ==
  ASSUME FilesShapes, NEW o \in Op, NEW answer, op' = EndsWith(o, answer)
  PROVE  IsOver(o, answer)
<1> DEFINE rec == [Idle EXCEPT !.at = answer]
<1>1. op' = [op EXCEPT ![o] = rec]
  BY DEF EndsWith
<1>2. DOMAIN rec = Fields /\ rec.at = answer /\ rec.handle = NoInode /\ rec.source = NoInode
  BY IdleIsEmpty
<1> HIDE DEF rec
<1>3. op'[o] = rec /\ DOMAIN op' = Op /\ \A s \in Op \ {o} : op'[s] = op[s]
  BY <1>1 DEF FilesShapes
<1> QED
  BY <1>2, <1>3 DEF IsOver, FilesShapes

LEMMA GoesOnAt ==
  ASSUME FilesShapes, NEW o \in Op, NEW at, op' = [op EXCEPT ![o].at = at]
  PROVE  GoesOn(o, at, op[o].handle, op[o].source, op[o].todo)
BY DEF FilesShapes, GoesOn, Fields

LEMMA GoesOnAtTodo ==
  ASSUME FilesShapes, NEW o \in Op, NEW at, NEW todo, op' = [op EXCEPT ![o].at = at, ![o].todo = todo]
  PROVE  GoesOn(o, at, op[o].handle, op[o].source, todo)
BY DEF FilesShapes, GoesOn, Fields

LEMMA GoesOnTodo ==
  ASSUME FilesShapes, NEW o \in Op, NEW todo, op' = [op EXCEPT ![o].todo = todo]
  PROVE  GoesOn(o, op[o].at, op[o].handle, op[o].source, todo)
BY DEF FilesShapes, GoesOn, Fields

LEMMA GoesOnTodoOpened ==
  ASSUME FilesShapes, NEW o \in Op, NEW todo, NEW opened,
         op' = [op EXCEPT ![o].todo = todo, ![o].opened = opened]
  PROVE  GoesOn(o, op[o].at, op[o].handle, op[o].source, todo)
BY DEF FilesShapes, GoesOn, Fields

LEMMA GoesOnOpened ==
  ASSUME FilesShapes, NEW o \in Op, NEW opened, op' = [op EXCEPT ![o].opened = opened]
  PROVE  GoesOn(o, op[o].at, op[o].handle, op[o].source, op[o].todo)
BY DEF FilesShapes, GoesOn, Fields

LEMMA GoesOnAtTodoOpened ==
  ASSUME FilesShapes, NEW o \in Op, NEW at, NEW todo, NEW opened,
         op' = [op EXCEPT ![o].at = at, ![o].todo = todo, ![o].opened = opened]
  PROVE  GoesOn(o, at, op[o].handle, op[o].source, todo)
BY DEF FilesShapes, GoesOn, Fields

LEMMA GoesOnHandle ==
  ASSUME FilesShapes, NEW o \in Op, NEW at, NEW handle, op' = [op EXCEPT ![o].at = at, ![o].handle = handle]
  PROVE  GoesOn(o, at, handle, op[o].source, op[o].todo)
BY DEF FilesShapes, GoesOn, Fields

LEMMA GoesOnDraft ==
  ASSUME FilesShapes, NEW o \in Op, NEW at, NEW draft, op' = [op EXCEPT ![o].at = at, ![o].draft = draft]
  PROVE  GoesOn(o, at, op[o].handle, op[o].source, op[o].todo) /\ op'[o].draft = draft
BY DEF FilesShapes, GoesOn, Fields

LEMMA GoesOnFilled ==
  ASSUME FilesShapes, NEW o \in Op, NEW at, NEW path, NEW source, NEW handle,
         op' = [op EXCEPT ![o].at = at, ![o].path = path, ![o].source = source, ![o].handle = handle]
  PROVE  GoesOn(o, at, handle, source, op[o].todo)
BY DEF FilesShapes, GoesOn, Fields

-----------------------------------------------------------------------------
(* The tree *)

IsTree == tree \in [Path -> {None, Dir, Link} \cup Inode] /\ Flat /\ OneName

LEMMA KindsDiffer ==
  /\ None # Dir /\ None # Link /\ Dir # Link /\ File \notin {None, Dir, Link}
  /\ NoInode \notin Inode /\ None \notin Inode /\ Dir \notin Inode /\ Link \notin Inode
BY FileOpsAssumption DEF FileOpsAssumption

LEMMA StrictMeans == \A p, q \in Path : IsStrictPrefix(q, p) <=> IsPrefix(q, p) /\ q # p
BY DEF IsStrictPrefix

\* What is above an entry whose parent is a directory is a directory.
LEMMA AboveIsDir ==
  ASSUME IsTree, NEW p \in Path, IsDir(Parent(p)), NEW q \in Path, IsStrictPrefix(q, p)
  PROVE  tree[q] = Dir
<1>1. Parent(p) \in Path /\ IsPrefix(q, Parent(p)) /\ <<>> \notin Path
  BY ParentIsNext
<1>2. tree[Parent(p)] = Dir
  BY <1>1 DEF IsDir
<1> QED
  BY <1>1, <1>2, KindsDiffer, StrictMeans DEF IsTree, Flat

LEMMA DirAbove ==
  ASSUME IsTree, NEW p \in Path, tree[p] # None
  PROVE  IsDir(Parent(p))
<1>1. Parent(p) = <<>> \/ (Parent(p) \in Path /\ IsStrictPrefix(Parent(p), p))
  BY ParentIsNext, PathsAreOrdered DEF Ordered
<1> QED
  BY <1>1 DEF IsTree, Flat, IsDir

\* A tree stays one when a directory or a new file is made in a directory.
LEMMA TreeGains ==
  ASSUME IsTree, NEW q \in Path, tree[q] = None, IsDir(Parent(q)), NEW x,
         x = Dir \/ (x \in Inode /\ \A p \in Path : tree[p] # x),
         tree' = [tree EXCEPT ![q] = x]
  PROVE  IsTree'
<1>1. tree' \in [Path -> {None, Dir, Link} \cup Inode] /\ tree'[q] = x
      /\ \A p \in Path \ {q} : tree'[p] = tree[p]
  BY DEF IsTree
<1>2. Flat'
  <2> SUFFICES ASSUME NEW p \in Path, NEW a \in Path, tree'[p] # None, IsStrictPrefix(a, p)
               PROVE  tree'[a] = Dir
    BY DEF Flat
  <2>1. CASE p = q
    BY <1>1, <2>1, AboveIsDir, StrictMeans
  <2>2. CASE p # q
    BY <1>1, <2>2, KindsDiffer DEF IsTree, Flat
  <2> QED
    BY <2>1, <2>2
<1>3. OneName'
  BY <1>1, KindsDiffer DEF IsTree, OneName
<1> QED
  BY <1>1, <1>2, <1>3 DEF IsTree

\* A tree stays one when an entry with nothing below it goes.
LEMMA TreeLoses ==
  ASSUME IsTree, NEW q \in Path, \A p \in Path : IsStrictPrefix(q, p) => tree[p] = None,
         tree' = [tree EXCEPT ![q] = None]
  PROVE  IsTree'
<1>1. tree' \in [Path -> {None, Dir, Link} \cup Inode] /\ tree'[q] = None
      /\ \A p \in Path \ {q} : tree'[p] = tree[p]
  BY DEF IsTree
<1> QED
  BY <1>1, KindsDiffer DEF IsTree, Flat, OneName

\* What has no children has nothing below it.
LEMMA NothingBelow ==
  ASSUME IsTree, NEW q \in Path, tree[q] # Dir \/ Children(q) = {}
  PROVE  \A p \in Path : IsStrictPrefix(q, p) => tree[p] = None
<1> SUFFICES ASSUME NEW p \in Path, IsStrictPrefix(q, p), tree[p] # None
             PROVE  FALSE
  OBVIOUS
<1>1. tree[q] = Dir
  BY DEF IsTree, Flat
<1>2. PICK c \in Path : IsStrictPrefix(q, c) /\ Len(c) = Len(q) + 1 /\ IsPrefix(c, p)
  BY NextOnTheWay
<1>3. tree[c] # None
  BY <1>2, KindsDiffer, StrictMeans DEF IsTree, Flat
<1> QED
  BY <1>1, <1>2, <1>3 DEF Children, Below

\* What rename leaves at p.
Renamed(r) ==
  tree' = [p \in Path |->
    IF IsPrefix(r.dst, p) THEN IF Moved(r.dst, r.src, p) \in Path THEN tree[Moved(r.dst, r.src, p)] ELSE None
    ELSE IF IsPrefix(r.src, p) THEN None ELSE tree[p]]

\* A tree stays one when rename moves a part of it.
LEMMA TreeMoves ==
  ASSUME IsTree, NEW r \in Request, r.tool = "move", IsDir(Parent(r.dst)), Renamed(r)
  PROVE  IsTree'
<1> DEFINE From(p) == Moved(r.dst, r.src, p)
<1>1. /\ \A p \in Path : IsPrefix(r.dst, p) => tree'[p] = IF From(p) \in Path THEN tree[From(p)] ELSE None
      /\ \A p \in Path : ~IsPrefix(r.dst, p) => tree'[p] = IF IsPrefix(r.src, p) THEN None ELSE tree[p]
  BY DEF Renamed
<1>2. tree' \in [Path -> {None, Dir, Link} \cup Inode]
  BY DEF Renamed, IsTree
<1>3. Takes(r)
  BY ImageTakes
<1>4. r.src \in Path /\ r.dst \in Path /\ ~IsPrefix(r.src, r.dst)
  BY <1>3 DEF Takes
<1>5. \A p \in Path : IsPrefix(r.dst, p) /\ From(p) \in Path => IsPrefix(r.src, From(p)) /\ Image(r, From(p)) = p
  BY <1>3 DEF Takes
<1>6. \A p, q \in Path : IsPrefix(r.dst, q) /\ IsPrefix(q, p) /\ From(p) \in Path =>
        From(q) \in Path /\ IsPrefix(From(q), From(p))
  BY <1>3, PathsAreOrdered DEF Takes, Ordered
<1> HIDE DEF From
<1>7. Flat'
  <2> SUFFICES ASSUME NEW p \in Path, NEW q \in Path, tree'[p] # None, IsStrictPrefix(q, p)
               PROVE  tree'[q] = Dir
    BY DEF Flat
  <2>0. IsPrefix(q, p) /\ q # p
    BY StrictMeans
  <2>1. CASE IsPrefix(r.dst, q)
    <3>1. IsPrefix(r.dst, p)
      BY <1>4, <2>0, <2>1, PathsAreOrdered DEF Ordered
    <3>2. From(p) \in Path /\ tree[From(p)] # None
      BY <1>1, <3>1
    <3>3. From(q) \in Path /\ IsPrefix(From(q), From(p)) /\ From(q) # From(p)
      BY <1>5, <1>6, <2>0, <2>1, <3>1, <3>2
    <3>4. tree[From(q)] = Dir
      BY <3>2, <3>3, StrictMeans DEF IsTree, Flat
    <3> QED
      BY <1>1, <2>1, <3>3, <3>4
  <2>2. CASE ~IsPrefix(r.dst, q) /\ IsPrefix(r.dst, p)
    <3>1. IsStrictPrefix(q, r.dst)
      BY <1>4, <2>0, <2>2, PathsAreOrdered, StrictMeans DEF Ordered
    <3>2. tree[q] = Dir
      BY <1>4, <3>1, AboveIsDir
    <3>3. ~IsPrefix(r.src, q)
      BY <1>4, <3>1, PathsAreOrdered, StrictMeans DEF Ordered
    <3> QED
      BY <1>1, <2>2, <3>2, <3>3
  <2>3. CASE ~IsPrefix(r.dst, q) /\ ~IsPrefix(r.dst, p)
    <3>1. ~IsPrefix(r.src, p) /\ tree[p] # None
      BY <1>1, <2>3
    <3>2. ~IsPrefix(r.src, q)
      BY <1>4, <2>0, <3>1, PathsAreOrdered DEF Ordered
    <3> QED
      BY <1>1, <2>3, <3>1, <3>2 DEF IsTree, Flat
  <2> QED
    BY <2>1, <2>2, <2>3
<1>8. OneName'
  <2> SUFFICES ASSUME NEW p \in Path, NEW q \in Path, tree'[p] \in Inode, tree'[p] = tree'[q]
               PROVE  p = q
    BY DEF OneName
  <2>1. tree'[p] # None /\ tree'[q] # None
    BY KindsDiffer
  <2>2. \A x \in Path : tree'[x] # None /\ IsPrefix(r.dst, x) => From(x) \in Path /\ tree'[x] = tree[From(x)]
    BY <1>1
  <2>3. \A x \in Path : tree'[x] # None /\ ~IsPrefix(r.dst, x) => ~IsPrefix(r.src, x) /\ tree'[x] = tree[x]
    BY <1>1
  <2>4. \A x, y \in Path : tree[x] = tree'[p] /\ tree[y] = tree'[p] => x = y
    BY DEF IsTree, OneName
  <2>5. CASE IsPrefix(r.dst, p) /\ IsPrefix(r.dst, q)
    BY <1>5, <2>1, <2>2, <2>4, <2>5
  <2>6. CASE IsPrefix(r.dst, p) /\ ~IsPrefix(r.dst, q)
    BY <1>5, <2>1, <2>2, <2>3, <2>4, <2>6
  <2>7. CASE ~IsPrefix(r.dst, p) /\ IsPrefix(r.dst, q)
    BY <1>5, <2>1, <2>2, <2>3, <2>4, <2>7
  <2>8. CASE ~IsPrefix(r.dst, p) /\ ~IsPrefix(r.dst, q)
    BY <2>1, <2>3, <2>4, <2>8
  <2> QED
    BY <2>5, <2>6, <2>7, <2>8
<1> QED
  BY <1>2, <1>7, <1>8 DEF IsTree

-----------------------------------------------------------------------------
(* The structure: records, and what ends or goes on *)
\* The record of an operation fits what it does.
Fits(rec) ==
  LET r == rec.req
  IN /\ rec.handle \in IF rec.at \in Holding THEN Inode ELSE {NoInode}
     /\ rec.source \in IF rec.at = "filling" THEN Inode ELSE {NoInode}
     /\ rec.at \in Stage => r \in Request /\ Does(r.tool, rec.at) /\ rec.company \in {"none", "peaceful", "any"}
     /\ rec.at \in {"copying", "filling", "removing"} => \A p \in rec.todo : p \in Path /\ IsPrefix(r.src, p)
     /\ rec.at = "removing" => r.src \in rec.todo
     /\ rec.at = "filling" => rec.path \in Path /\ IsPrefix(r.src, rec.path)
     /\ rec.at \in {"truncate", "put"} => r.option # "dry"

LEMMA RecordsFit == Records <=> \A o \in Op : Fits(op[o])
BY DEF Records, Fits, Active

LEMMA RecordsFitNext == Records' <=> \A o \in Op : Fits(op'[o])
BY DEF Records, Fits, Active

LEMMA AnswersAreLast ==
  /\ Answer \cap Stage = {} /\ Answer \cap Holding = {} /\ "filling" \notin Answer /\ "removing" \notin Answer
  /\ Answer \cap {"copying", "truncate", "put"} = {} /\ "idle" \notin Stage /\ Holding \subseteq Stage
BY DEF Answer, Refusal, Stage, Holding

LEMMA StructureIsTree == Structure => IsTree
BY DEF Structure, FilesShapes, IsTree

\* Inodes that are let go of are empty.
LEMMA KeepsFreesNothing ==
  ASSUME NEW texts, Keeps(texts)
  PROVE  FreeIsEmpty' /\ DOMAIN content' = Inode
BY DEF Keeps, FreeIsEmpty, Fresh

\* The structure outlives an operation that ends.
LEMMA OverStructure ==
  ASSUME Structure, NEW o \in Op, NEW answer \in Answer, IsOver(o, answer), NEW texts, Keeps(texts), IsTree'
  PROVE  Structure'
<1>1. FreeIsEmpty' /\ DOMAIN content' = Inode
  BY KeepsFreesNothing
<1>2. FilesShapes'
  BY <1>1 DEF Structure, FilesShapes, IsOver, IsTree
<1>3. Records'
  <2>1. Fits(op'[o])
    BY AnswersAreLast DEF IsOver, Fits
  <2> QED
    BY <2>1, RecordsFit, RecordsFitNext DEF Structure, IsOver
<1>4. OneFiller'
  BY AnswersAreLast DEF Structure, IsOver, OneFiller
<1> QED
  BY <1>1, <1>2, <1>3, <1>4 DEF Structure, IsTree

\* The structure outlives a step that goes on.
LEMMA OnStructure ==
  ASSUME Structure, NEW o \in Op, NEW at \in Stage, NEW handle, NEW source, NEW todo,
         GoesOn(o, at, handle, source, todo), Fits(op'[o]), IsTree', FreeIsEmpty', DOMAIN content' = Inode,
         at = "filling" => \A s \in Op \ {o} : op[s].at = "filling" => op[s].handle # handle
  PROVE  Structure'
<1>1. FilesShapes'
  BY DEF Structure, FilesShapes, GoesOn, IsTree
<1>2. Records'
  BY RecordsFit, RecordsFitNext DEF Structure, GoesOn
<1>3. OneFiller'
  BY DEF Structure, GoesOn, OneFiller
<1> QED
  BY <1>1, <1>2, <1>3 DEF Structure, IsTree

\* Nothing is let go of.
LEMMA FreeStays ==
  ASSUME Structure, content' = content, \A p \in Path : tree[p] \in Inode => tree'[p] = tree[p],
         \A o \in Op : UsedBy(op[o]) \subseteq UsedBy(op'[o]) \cup {NoInode}
  PROVE  FreeIsEmpty' /\ DOMAIN content' = Inode
<1>1. \A i \in Inode : (Fresh(i))' => Fresh(i)
  BY KindsDiffer DEF Fresh
<1> QED
  BY <1>1 DEF Structure, FilesShapes, FreeIsEmpty

\* An operation goes on with the same files open, and the tree gains an entry at most.
LEMMA StepStructure ==
  ASSUME Structure, NEW o \in Op, NEW at \in Stage \ {"filling"}, NEW todo,
         GoesOn(o, at, op[o].handle, op[o].source, todo), Fits(op'[o]), UNCHANGED <<tree, content>>
  PROVE  Structure'
<1>1. \A s \in Op : UsedBy(op[s]) \subseteq UsedBy(op'[s]) \cup {NoInode}
  BY DEF GoesOn, UsedBy
<1>2. FreeIsEmpty' /\ DOMAIN content' = Inode
  BY <1>1, FreeStays
<1>3. IsTree'
  BY StructureIsTree DEF IsTree, Flat, OneName
<1> QED
  BY <1>2, <1>3, OnStructure

-----------------------------------------------------------------------------
(* What the steps do *)

\* The operation is over, and the tree is as it was.
EndsSame(o) == \E answer \in Answer : IsOver(o, answer) /\ tree' = tree /\ Keeps(content)

\* It goes on, and the files are as they were.
Turns(o, at, handle, todo) == GoesOn(o, at, handle, op[o].source, todo) /\ UNCHANGED <<tree, content>>

\* It makes one directory on the way to p.
Gains(o, p) ==
  /\ op' = op /\ content' = content
  /\ \E q \in Path : IsPrefix(q, p) /\ tree[q] = None /\ IsDir(Parent(q)) /\ tree' = [tree EXCEPT ![q] = Dir]

\* Each action, by what it does to the operation, to the tree and to the texts.
LEMMA EndsDoes ==
  ASSUME FilesShapes, NEW o \in Op, NEW answer \in Answer, Ends(o, answer)
  PROVE  IsOver(o, answer) /\ tree' = tree /\ Keeps(content) /\ EndsSame(o)
BY EndsIsOver DEF Ends, EndsSame

LEMMA FailsDoes ==
  ASSUME FilesShapes, NEW o \in Op, Fails(o)
  PROVE  EndsSame(o) /\ IsOver(o, Failure(o))
<1>1. Failure(o) \in Answer
  BY DEF Failure, Answer
<1> QED
  BY <1>1, EndsDoes DEF Fails

LEMMA MakesOneDoes ==
  ASSUME FilesShapes, NEW o \in Op, NEW p, MakesOne(o, p)
  PROVE  Fails(o) \/ Gains(o, p)
BY DEF MakesOne, Gains, Upwards

LEMMA MakeDirsDoes ==
  ASSUME FilesShapes, NEW o \in Op, MakeDirs(o)
  PROVE  LET r == op[o].req
             dir == IF r.tool = "create" THEN r.dst ELSE Parent(r.dst)
         IN /\ op[o].at = "mkdirs"
            /\ \/ Fails(o)
               \/ Gains(o, dir)
               \/ r.tool = "create" /\ Ends(o, "ok")
               \/ /\ r.tool # "create" /\ IsDir(dir)
                  /\ Turns(o, AfterDirs[r.tool], op[o].handle, IF r.tool = "copy" THEN {r.src} ELSE {})
<1> DEFINE r == op[o].req
           dir == IF r.tool = "create" THEN r.dst ELSE Parent(r.dst)
<1>1. op[o].at = "mkdirs"
  BY DEF MakeDirs
<1>2. CASE \E p \in Upwards(dir) : tree[p] = None
  BY <1>1, <1>2, MakesOneDoes DEF MakeDirs
<1>3. CASE ~(\E p \in Upwards(dir) : tree[p] = None) /\ (~IsDir(dir) \/ r.tool = "create")
  BY <1>1, <1>3 DEF MakeDirs
<1>4. CASE ~(\E p \in Upwards(dir) : tree[p] = None) /\ IsDir(dir) /\ r.tool # "create"
  <2>1. op' = [op EXCEPT ![o].at = AfterDirs[r.tool], ![o].todo = IF r.tool = "copy" THEN {r.src} ELSE {}]
        /\ UNCHANGED <<tree, content>>
    BY <1>4 DEF MakeDirs
  <2>2. GoesOn(o, AfterDirs[r.tool], op[o].handle, op[o].source, IF r.tool = "copy" THEN {r.src} ELSE {})
    BY <2>1, GoesOnAtTodo
  <2> QED
    BY <1>1, <1>4, <2>1, <2>2 DEF Turns
<1> QED
  BY <1>2, <1>3, <1>4

LEMMA OpenToWriteDoes ==
  ASSUME FilesShapes, NEW o \in Op, OpenToWrite(o)
  PROVE  LET p == op[o].req.dst
         IN /\ op[o].at = "open" /\ op[o].req.tool = "write"
            /\ \/ Fails(o)
               \/ /\ IsFile(p) /\ tree' = tree
                  /\ GoesOn(o, "write", tree[p], op[o].source, op[o].todo)
                  /\ content' = IF op[o].req.option = "append" THEN content ELSE [content EXCEPT ![tree[p]] = <<>>]
               \/ \E i \in Inode : GoesOn(o, "write", i, op[o].source, op[o].todo)
                                   /\ Fresh(i) /\ ~IsFile(p) /\ IsDir(Parent(p)) /\ tree[p] \notin {Dir, Link}
                                   /\ tree' = [tree EXCEPT ![p] = i] /\ content' = content
<1> DEFINE p == op[o].req.dst
<1>1. op[o].at = "open" /\ op[o].req.tool = "write"
  BY DEF OpenToWrite
<1>2. CASE ~IsDir(Parent(p)) \/ tree[p] \in {Dir, Link}
  BY <1>1, <1>2 DEF OpenToWrite
<1>3. CASE IsDir(Parent(p)) /\ tree[p] \notin {Dir, Link} /\ IsFile(p)
  <2>1. op' = [op EXCEPT ![o].at = "write", ![o].handle = tree[p]] /\ tree' = tree
        /\ content' = IF op[o].req.option = "append" THEN content ELSE [content EXCEPT ![tree[p]] = <<>>]
    BY <1>3 DEF OpenToWrite
  <2> QED
    BY <1>1, <1>3, <2>1, GoesOnHandle
<1>4. CASE IsDir(Parent(p)) /\ tree[p] \notin {Dir, Link} /\ ~IsFile(p)
  <2>1. PICK i \in Inode : op' = [op EXCEPT ![o].at = "write", ![o].handle = i] /\ Fresh(i)
                           /\ tree' = [tree EXCEPT ![p] = i] /\ content' = content
    BY <1>4 DEF OpenToWrite
  <2> QED
    BY <1>1, <1>4, <2>1, GoesOnHandle
<1> QED
  BY <1>2, <1>3, <1>4

LEMMA OpenToEditDoes ==
  ASSUME FilesShapes, NEW o \in Op, OpenToEdit(o)
  PROVE  LET p == op[o].req.dst
         IN /\ op[o].at = "open" /\ op[o].req.tool = "edit"
            /\ Fails(o) \/ (IsFile(p) /\ Turns(o, "read", tree[p], op[o].todo))
BY GoesOnHandle DEF OpenToEdit, Turns

LEMMA ReadToEditDoes ==
  ASSUME FilesShapes, NEW o \in Op, ReadToEdit(o)
  PROVE  LET text == Edited(o, content[op[o].handle], op[o].req.finds)
         IN /\ op[o].at = "read"
            /\ \/ Ends(o, "noMatch") \/ Ends(o, "tooLarge")
               \/ op[o].req.option = "dry" /\ Ends(o, "ok")
               \/ op[o].req.option # "dry" /\ Turns(o, "truncate", op[o].handle, op[o].todo) /\ op'[o].draft = text
<1> DEFINE text == Edited(o, content[op[o].handle], op[o].req.finds)
<1> HIDE DEF text
<1>1. /\ op[o].at = "read"
      /\ IF text = None THEN Ends(o, "noMatch")
         ELSE IF op[o].req.option = "dry" THEN Ends(o, "ok")
         ELSE \/ op' = [op EXCEPT ![o].at = "truncate", ![o].draft = text] /\ UNCHANGED <<tree, content>>
              \/ Ends(o, "tooLarge")
  BY DEF ReadToEdit, text
<1>2. ASSUME op' = [op EXCEPT ![o].at = "truncate", ![o].draft = text]
      PROVE  GoesOn(o, "truncate", op[o].handle, op[o].source, op[o].todo) /\ op'[o].draft = text
  BY <1>2, GoesOnDraft
<1> QED
  BY <1>1, <1>2 DEF Turns, text

LEMMA TruncateDoes ==
  ASSUME FilesShapes, NEW o \in Op, Truncate(o)
  PROVE  /\ op[o].at = "truncate" /\ GoesOn(o, "put", op[o].handle, op[o].source, op[o].todo)
         /\ op'[o].draft = op[o].draft
         /\ tree' = tree /\ content' = [content EXCEPT ![op[o].handle] = <<>>]
<1>1. op[o].at = "truncate" /\ op' = [op EXCEPT ![o].at = "put"] /\ tree' = tree
      /\ content' = [content EXCEPT ![op[o].handle] = <<>>]
  BY DEF Truncate
<1>2. op'[o].draft = op[o].draft
  BY <1>1 DEF FilesShapes, Fields
<1> QED
  BY <1>1, <1>2, GoesOnAt

LEMMA LookDoes ==
  ASSUME FilesShapes, NEW o \in Op, Look(o)
  PROVE  LET r == op[o].req
         IN /\ op[o].at = "look"
            /\ \/ Fails(o) \/ Ends(o, "isLink") \/ Ends(o, "confirm")
               \/ r.tool = "copy" /\ Turns(o, "access", op[o].handle, op[o].todo)
               \/ r.tool # "copy" /\ Turns(o, "rm", op[o].handle, op[o].todo)
BY GoesOnAt DEF Look, Goes, Turns

LEMMA StartRemovingDoes ==
  ASSUME FilesShapes, NEW o \in Op, StartRemoving(o)
  PROVE  LET r == op[o].req
         IN op[o].at = "rm" /\ (Fails(o) \/ Turns(o, "removing", op[o].handle, {r.src}))
BY GoesOnAtTodoOpened DEF StartRemoving, Turns

\* It removes what is at p.
Loses(o, p) == tree' = [tree EXCEPT ![p] = None] /\ Keeps(content)

LEMMA RemoveNextDoes ==
  ASSUME FilesShapes, NEW o \in Op, RemoveNext(o)
  PROVE  /\ op[o].at = "removing"
         /\ \E p \in op[o].todo :
              /\ Below(p) \cap op[o].todo = {}
              /\ \/ Children(p) = {} /\ op[o].todo = {p} /\ IsOver(o, "ok") /\ Loses(o, p)
                 \/ /\ Children(p) = {} /\ op[o].todo # {p} /\ Loses(o, p)
                    /\ GoesOn(o, op[o].at, op[o].handle, op[o].source, op[o].todo \ {p})
                 \/ Fails(o)
                 \/ Turns(o, op[o].at, op[o].handle, op[o].todo \cup Children(p))
<1>1. op[o].at = "removing"
  BY DEF RemoveNext
<1>2. PICK p \in op[o].todo :
       /\ Below(p) \cap op[o].todo = {}
       /\ IF Children(p) = {}
          THEN /\ op' = IF op[o].todo = {p} THEN EndsWith(o, "ok") ELSE [op EXCEPT ![o].todo = op[o].todo \ {p}]
               /\ tree' = [tree EXCEPT ![p] = None]
               /\ Keeps(content)
          ELSE IF p \in op[o].opened THEN Fails(o)
          ELSE /\ op' = [op EXCEPT ![o].todo = op[o].todo \cup Children(p), ![o].opened = op[o].opened \cup {p}]
               /\ UNCHANGED <<tree, content>>
  BY DEF RemoveNext, FilesShapes, Fields
<1>3. CASE Children(p) = {} /\ op[o].todo = {p}
  BY <1>1, <1>2, <1>3, EndsIsOver DEF Loses
<1>4. CASE Children(p) = {} /\ op[o].todo # {p}
  BY <1>1, <1>2, <1>4, GoesOnTodo DEF Loses
<1>5. CASE Children(p) # {} /\ p \in op[o].opened
  BY <1>1, <1>2, <1>5
<1>6. CASE Children(p) # {} /\ p \notin op[o].opened
  <2>1. GoesOn(o, op[o].at, op[o].handle, op[o].source, op[o].todo \cup Children(p))
    BY <1>2, <1>6, GoesOnTodoOpened
  <2> QED
    BY <1>1, <1>2, <1>6, <2>1 DEF Turns
<1> QED
  BY <1>3, <1>4, <1>5, <1>6

LEMMA WriteDoes ==
  ASSUME FilesShapes, NEW o \in Op, Write(o)
  PROVE  LET i == op[o].handle
         IN /\ op[o].at = "write" /\ IsOver(o, "ok") /\ tree' = tree
            /\ Keeps([content EXCEPT ![i] = IF op[o].req.option = "append" THEN content[i] \o <<o>>
                                            ELSE Over(<<o>>, content[i])])
<1> DEFINE i == op[o].handle
           texts == [content EXCEPT ![i] = IF op[o].req.option = "append" THEN @ \o <<o>> ELSE Over(<<o>>, @)]
           meant == [content EXCEPT ![i] = IF op[o].req.option = "append" THEN content[i] \o <<o>>
                                           ELSE Over(<<o>>, content[i])]
<1>1. texts = meant
  OBVIOUS
<1>2. op[o].at = "write" /\ op' = EndsWith(o, "ok") /\ tree' = tree /\ Keeps(texts)
  BY DEF Write
<1> HIDE DEF texts
<1> QED
  BY <1>1, <1>2, EndsIsOver

LEMMA PutDoes ==
  ASSUME FilesShapes, NEW o \in Op, Put(o)
  PROVE  LET i == op[o].handle
         IN /\ op[o].at = "put" /\ IsOver(o, "ok") /\ tree' = tree
            /\ Keeps([content EXCEPT ![i] = Over(op[o].draft, content[i])])
<1> DEFINE i == op[o].handle
           texts == [content EXCEPT ![i] = Over(op[o].draft, @)]
           meant == [content EXCEPT ![i] = Over(op[o].draft, content[i])]
<1>1. texts = meant
  OBVIOUS
<1>2. op[o].at = "put" /\ op' = EndsWith(o, "ok") /\ tree' = tree /\ Keeps(texts)
  BY DEF Put
<1> HIDE DEF texts
<1> QED
  BY <1>1, <1>2, EndsIsOver

LEMMA AccessDoes ==
  ASSUME FilesShapes, NEW o \in Op, Access(o)
  PROVE  LET r == op[o].req
         IN /\ op[o].at = "access"
            /\ \/ tree[r.dst] # None /\ Ends(o, "exists")
               \/ tree[r.dst] \in {None, Link} /\ Turns(o, "mkdirs", op[o].handle, op[o].todo)
BY GoesOnAt DEF Access, Goes, Turns

\* It creates the copy of the file p, to fill it.
Copies(o, p) ==
  LET to == Image(op[o].req, p)
  IN /\ tree[p] \notin {None, Dir, Link} /\ tree[to] = None /\ IsDir(Parent(to)) /\ content' = content
     /\ \E i \in Inode : /\ Fresh(i) /\ tree' = [tree EXCEPT ![to] = i]
                         /\ GoesOn(o, "filling", i, tree[p], op[o].todo \ {p}) /\ op'[o].path = p

LEMMA CopyDirDoes ==
  ASSUME FilesShapes, NEW o \in Op, NEW p, CopyDir(o, p)
  PROVE  \/ Fails(o)
         \/ Gains(o, Image(op[o].req, p))
         \/ Turns(o, op[o].at, op[o].handle, op[o].todo)
         \/ Turns(o, op[o].at, op[o].handle, (op[o].todo \ {p}) \cup Children(p))
<1> DEFINE to == Image(op[o].req, p)
<1> HIDE DEF to
<1>1. IF p \in op[o].opened
      THEN op' = [op EXCEPT ![o].todo = (op[o].todo \ {p}) \cup Children(p)] /\ UNCHANGED <<tree, content>>
      ELSE IF tree[to] = None THEN MakesOne(o, to)
      ELSE IF IsDir(to) THEN op' = [op EXCEPT ![o].opened = op[o].opened \cup {p}] /\ UNCHANGED <<tree, content>>
      ELSE Fails(o)
  BY DEF CopyDir, to, FilesShapes, Fields
<1>2. CASE p \in op[o].opened
  BY <1>1, <1>2, GoesOnTodo DEF Turns
<1>3. CASE p \notin op[o].opened /\ tree[to] = None
  BY <1>1, <1>3, MakesOneDoes DEF to
<1>4. CASE p \notin op[o].opened /\ tree[to] # None /\ IsDir(to)
  BY <1>1, <1>4, GoesOnOpened DEF Turns
<1> QED
  BY <1>1, <1>2, <1>3, <1>4

LEMMA CopyFileDoes ==
  ASSUME FilesShapes, NEW o \in Op, NEW p, tree[p] \notin {None, Dir, Link}, CopyFile(o, p)
  PROVE  \/ Fails(o)
         \/ tree[Image(op[o].req, p)] = Link /\ Turns(o, op[o].at, op[o].handle, op[o].todo \ {p})
         \/ Copies(o, p)
<1> DEFINE to == Image(op[o].req, p)
<1> HIDE DEF to
<1>1. IF tree[to] = Link THEN op' = [op EXCEPT ![o].todo = op[o].todo \ {p}] /\ UNCHANGED <<tree, content>>
      ELSE IF ~IsDir(Parent(to)) \/ tree[to] # None THEN Fails(o)
      ELSE IF IsFile(to) THEN TRUE
      ELSE \E i \in Inode :
             /\ Fresh(i) /\ tree' = [tree EXCEPT ![to] = i] /\ content' = content
             /\ op' = [op EXCEPT ![o].at = "filling", ![o].path = p, ![o].source = tree[p], ![o].handle = i,
                                 ![o].todo = op[o].todo \ {p}]
  BY DEF CopyFile, to, FilesShapes, Fields, Excludes
<1>2. CASE tree[to] = Link
  BY <1>1, <1>2, GoesOnTodo DEF Turns, to
<1>3. CASE tree[to] # Link /\ (~IsDir(Parent(to)) \/ tree[to] # None)
  BY <1>1, <1>3
<1>4. CASE tree[to] # Link /\ IsDir(Parent(to)) /\ tree[to] = None
  <2>1. ~IsFile(to)
    BY <1>4, KindsDiffer DEF IsFile
  <2>2. PICK i \in Inode :
             /\ Fresh(i) /\ tree' = [tree EXCEPT ![to] = i] /\ content' = content
             /\ op' = [op EXCEPT ![o].at = "filling", ![o].path = p, ![o].source = tree[p], ![o].handle = i,
                                 ![o].todo = op[o].todo \ {p}]
    BY <1>1, <1>4, <2>1
  <2>3. GoesOn(o, "filling", i, tree[p], op[o].todo \ {p}) /\ op'[o].path = p
    <3> DEFINE source == tree[p]
               left == op[o].todo \ {p}
    <3>1. op' = [op EXCEPT ![o].at = "filling", ![o].path = p, ![o].source = source, ![o].handle = i,
                           ![o].todo = left]
      BY <2>2
    <3> HIDE DEF source, left
    <3>2. GoesOn(o, "filling", i, source, left) /\ op'[o].path = p
      BY <3>1 DEF FilesShapes, GoesOn, Fields
    <3> QED
      BY <3>2 DEF source, left
  <2> QED
    BY <1>4, <2>2, <2>3 DEF Copies, to
<1> QED
  BY <1>2, <1>3, <1>4

LEMMA CopyNextDoes ==
  ASSUME FilesShapes, NEW o \in Op, CopyNext(o)
  PROVE  /\ op[o].at = "copying"
         /\ \E p \in op[o].todo :
              \/ Fails(o)
              \/ Gains(o, Image(op[o].req, p))
              \/ Turns(o, op[o].at, op[o].handle, op[o].todo)
              \/ tree[p] = Dir /\ Turns(o, op[o].at, op[o].handle, (op[o].todo \ {p}) \cup Children(p))
              \/ tree[p] = Link /\ Turns(o, op[o].at, op[o].handle, op[o].todo \ {p})
              \/ /\ tree[Image(op[o].req, p)] = Link /\ tree[p] \notin {None, Dir, Link}
                 /\ Turns(o, op[o].at, op[o].handle, op[o].todo \ {p})
              \/ Copies(o, p)
<1>1. op[o].at = "copying"
  BY DEF CopyNext
<1>2. PICK p \in op[o].todo :
       IF tree[p] = Dir THEN CopyDir(o, p)
       ELSE IF tree[p] = None \/ p \in op[o].opened THEN Fails(o)
       ELSE IF tree[p] = Link THEN op' = [op EXCEPT ![o].todo = op[o].todo \ {p}] /\ UNCHANGED <<tree, content>>
       ELSE CopyFile(o, p)
  BY DEF CopyNext, FilesShapes, Fields
<1>3. CASE tree[p] = Dir
  BY <1>1, <1>2, <1>3, CopyDirDoes
<1>4. CASE tree[p] = Link /\ p \notin op[o].opened
  BY <1>1, <1>2, <1>4, KindsDiffer, GoesOnTodo DEF Turns
<1>5. CASE tree[p] # Dir /\ (tree[p] = None \/ p \in op[o].opened)
  BY <1>1, <1>2, <1>5
<1>6. CASE tree[p] \notin {None, Dir, Link} /\ p \notin op[o].opened
  BY <1>1, <1>2, <1>6, CopyFileDoes
<1> QED
  BY <1>3, <1>4, <1>5, <1>6

LEMMA FillDoes ==
  ASSUME FilesShapes, NEW o \in Op, Fill(o)
  PROVE  LET i == op[o].handle
         IN /\ op[o].at = "filling" /\ GoesOn(o, "copying", NoInode, NoInode, op[o].todo) /\ tree' = tree
            /\ Keeps([content EXCEPT ![i] = Over(content[op[o].source], content[i])])
<1> DEFINE i == op[o].handle
           texts == [content EXCEPT ![i] = Over(content[op[o].source], @)]
           meant == [content EXCEPT ![i] = Over(content[op[o].source], content[i])]
<1>1. texts = meant
  OBVIOUS
<1>2. /\ op[o].at = "filling" /\ tree' = tree /\ Keeps(texts)
      /\ op' = [op EXCEPT ![o].at = "copying", ![o].path = <<>>, ![o].source = NoInode, ![o].handle = NoInode]
  BY DEF Fill
<1> HIDE DEF texts
<1>3. GoesOn(o, "copying", NoInode, NoInode, op[o].todo)
  BY <1>2, GoesOnFilled
<1> QED
  BY <1>1, <1>2, <1>3

LEMMA FillFailsDoes ==
  ASSUME FilesShapes, NEW o \in Op, FillFails(o)
  PROVE  LET to == Image(op[o].req, op[o].path)
         IN /\ op[o].at = "filling" /\ IsOver(o, Failure(o)) /\ Failure(o) \in Answer
            /\ \/ tree' = tree /\ Keeps(content)
               \/ ~IsDir(to) /\ Loses(o, to)
<1>1. Failure(o) \in Answer
  BY DEF Failure, Answer
<1> QED
  BY <1>1, EndsIsOver DEF FillFails, Loses

LEMMA CopiedDoes ==
  ASSUME FilesShapes, NEW o \in Op, Copied(o)
  PROVE  /\ op[o].at = "copying" /\ op[o].todo = {}
         /\ \/ op[o].req.tool = "copy" /\ Ends(o, "ok")
            \/ op[o].req.tool # "copy" /\ Turns(o, "rm", op[o].handle, op[o].todo)
BY GoesOnAt DEF Copied, Goes, Turns

LEMMA RenameDoes ==
  ASSUME FilesShapes, NEW o \in Op, Rename(o)
  PROVE  LET r == op[o].req
         IN /\ op[o].at = "rename"
            /\ \/ Fails(o)
               \/ Crosses(r) /\ Turns(o, "copying", op[o].handle, {r.src})
               \/ /\ IsDir(Parent(r.src)) /\ IsDir(Parent(r.dst)) /\ tree[r.src] # None
                  /\ IsOver(o, "ok") /\ Renamed(r) /\ Keeps(content)
<1> DEFINE r == op[o].req
<1>1. op[o].at = "rename"
  BY DEF Rename
<1>2. CASE ~IsDir(Parent(r.src)) \/ ~IsDir(Parent(r.dst))
  BY <1>1, <1>2 DEF Rename
<1>3. CASE IsDir(Parent(r.src)) /\ IsDir(Parent(r.dst)) /\ Crosses(r)
  <2>1. op' = [op EXCEPT ![o].at = "copying", ![o].todo = {r.src}] /\ UNCHANGED <<tree, content>>
    BY <1>3 DEF Rename
  <2> QED
    BY <1>1, <1>3, <2>1, GoesOnAtTodo DEF Turns
<1>4. CASE IsDir(Parent(r.src)) /\ IsDir(Parent(r.dst)) /\ ~Crosses(r)
  <2>1. CASE tree[r.src] = None \/ ~Replaceable(r.src, r.dst)
    BY <1>1, <1>4, <2>1 DEF Rename
  <2>2. CASE tree[r.src] # None /\ Replaceable(r.src, r.dst)
    <3>1. op' = EndsWith(o, "ok") /\ Keeps(content)
      BY <1>4, <2>2 DEF Rename
    <3>2. Renamed(r)
      BY <1>4, <2>2 DEF Rename, Renamed
    <3> QED
      BY <1>1, <1>4, <2>2, <3>1, <3>2, EndsIsOver
  <2> QED
    BY <2>1, <2>2
<1> QED
  BY <1>2, <1>3, <1>4

-----------------------------------------------------------------------------
(* Each action keeps the structure *)
-----------------------------------------------------------------------------
(* The structure *)

LEMMA ActiveFits ==
  ASSUME Structure, NEW o \in Op
  PROVE  Fits(op[o])
BY RecordsFit DEF Structure

LEMMA StructureShapes == Structure => FilesShapes
BY DEF Structure

LEMMA TreeSame == IsTree /\ tree' = tree => IsTree'
BY DEF IsTree, Flat, OneName

LEMMA EndsStructure ==
  ASSUME Structure, NEW o \in Op, EndsSame(o)
  PROVE  Structure'
BY OverStructure, StructureIsTree, TreeSame DEF EndsSame

LEMMA FailsStructure ==
  ASSUME Structure, NEW o \in Op, Fails(o)
  PROVE  Structure'
BY EndsStructure, FailsDoes, StructureShapes

LEMMA AnswerStructure ==
  ASSUME Structure, NEW o \in Op, NEW answer \in Answer, Ends(o, answer)
  PROVE  Structure'
BY EndsStructure, EndsDoes, StructureShapes

LEMMA GainsStructure ==
  ASSUME Structure, NEW o \in Op, NEW p, Gains(o, p)
  PROVE  Structure'
<1>1. PICK q \in Path : tree[q] = None /\ IsDir(Parent(q)) /\ tree' = [tree EXCEPT ![q] = Dir]
  BY DEF Gains
<1>2. IsTree'
  BY <1>1, StructureIsTree, TreeGains
<1>3. op' = op /\ content' = content
  BY DEF Gains
<1>4. \A x \in Path : tree[x] \in Inode => tree'[x] = tree[x]
  BY <1>1, KindsDiffer, StructureIsTree DEF IsTree
<1>5. FreeIsEmpty' /\ DOMAIN content' = Inode
  BY <1>3, <1>4, FreeStays
<1>6. FilesShapes' /\ Records' /\ OneFiller'
  BY <1>2, <1>3, <1>5 DEF Structure, FilesShapes, Records, OneFiller, IsTree, Active
<1> QED
  BY <1>2, <1>5, <1>6 DEF Structure, IsTree

LEMMA FitsOn ==
  ASSUME Structure, NEW o \in Op, Active(o), NEW at \in Stage, NEW handle, NEW source, NEW todo,
         GoesOn(o, at, handle, source, todo), Does(op[o].req.tool, at),
         handle \in IF at \in Holding THEN Inode ELSE {NoInode},
         source \in IF at = "filling" THEN Inode ELSE {NoInode},
         at \in {"copying", "filling", "removing"} => \A p \in todo : p \in Path /\ IsPrefix(op[o].req.src, p),
         at = "removing" => op[o].req.src \in todo,
         at = "filling" => op'[o].path \in Path /\ IsPrefix(op[o].req.src, op'[o].path),
         at \in {"truncate", "put"} => op[o].req.option # "dry"
  PROVE  Fits(op'[o])
<1>1. op[o].req \in Request /\ op[o].company \in {"none", "peaceful", "any"}
  BY ActiveFits DEF Active, Fits
<1>2. op'[o].at = at /\ op'[o].handle = handle /\ op'[o].source = source /\ op'[o].todo = todo
      /\ op'[o].req = op[o].req /\ op'[o].company = op[o].company
  BY DEF GoesOn
<1> QED
  BY <1>1, <1>2 DEF Fits

\* A step that changes no file keeps the structure.
LEMMA TurnsStructure ==
  ASSUME Structure, NEW o \in Op, Active(o), op[o].at # "filling", NEW at \in Stage \ {"filling"}, NEW todo,
         Turns(o, at, op[o].handle, todo), Does(op[o].req.tool, at), at \in Holding <=> op[o].at \in Holding,
         at \in {"copying", "removing"} => \A p \in todo : p \in Path /\ IsPrefix(op[o].req.src, p),
         at = "removing" => op[o].req.src \in todo,
         at \in {"truncate", "put"} => op[o].req.option # "dry"
  PROVE  Structure'
<1>1. GoesOn(o, at, op[o].handle, op[o].source, todo) /\ UNCHANGED <<tree, content>>
  BY DEF Turns
<1>2. /\ op[o].handle \in IF at \in Holding THEN Inode ELSE {NoInode}
      /\ op[o].source \in IF at = "filling" THEN Inode ELSE {NoInode}
  BY ActiveFits DEF Fits
<1>3. Fits(op'[o])
  BY <1>1, <1>2, FitsOn
<1> QED
  BY <1>1, <1>3, StepStructure

LEMMA SrcIsPath ==
  ASSUME Structure, NEW o \in Op, Active(o)
  PROVE  op[o].req \in Request /\ op[o].req.src \in Path /\ op[o].req.dst \in Path
         /\ IsPrefix(op[o].req.src, op[o].req.src)
BY ActiveFits, RequestsAssumed, PathsAreOrdered DEF Active, Fits, Ordered

LEMMA MakeDirsStructure ==
  ASSUME Structure, NEW o \in Op, Active(o), MakeDirs(o)
  PROVE  Structure'
<1> DEFINE r == op[o].req
           dir == IF r.tool = "create" THEN r.dst ELSE Parent(r.dst)
           todo == IF r.tool = "copy" THEN {r.src} ELSE {}
<1>1. /\ op[o].at = "mkdirs"
      /\ \/ Fails(o)
         \/ Gains(o, dir)
         \/ r.tool = "create" /\ Ends(o, "ok")
         \/ r.tool # "create" /\ Turns(o, AfterDirs[r.tool], op[o].handle, todo)
  BY MakeDirsDoes, StructureShapes
<1>2. CASE r.tool # "create" /\ Turns(o, AfterDirs[r.tool], op[o].handle, todo)
  <2>1. r.tool \in {"write", "copy", "move"}
    BY <1>1, <1>2, ActiveFits DEF Active, Fits, Does
  <2>2. /\ AfterDirs[r.tool] \in Stage \ {"filling"} /\ Does(r.tool, AfterDirs[r.tool])
        /\ AfterDirs[r.tool] \notin Holding /\ op[o].at \notin Holding /\ op[o].at # "filling"
        /\ AfterDirs[r.tool] # "removing" /\ (AfterDirs[r.tool] = "copying" => r.tool = "copy")
    BY <1>1, <2>1 DEF AfterDirs, Stage, Does, Holding
  <2>3. \A p \in todo : p \in Path /\ IsPrefix(r.src, p)
    BY SrcIsPath
  <2> DEFINE at == AfterDirs[r.tool]
  <2>4. at \in Stage \ {"filling"} /\ Does(r.tool, at) /\ (at \in Holding <=> op[o].at \in Holding)
        /\ op[o].at # "filling" /\ at # "removing" /\ at \notin {"truncate", "put"}
    BY <2>2 DEF Holding
  <2>5. Turns(o, at, op[o].handle, todo)
    BY <1>2
  <2> HIDE DEF todo, at
  <2> QED
    BY <2>3, <2>4, <2>5, TurnsStructure
<1>3. "ok" \in Answer
  BY DEF Answer
<1> QED
  BY <1>1, <1>2, <1>3, FailsStructure, GainsStructure, AnswerStructure

LEMMA OpensStructure ==
  ASSUME Structure, NEW o \in Op, Active(o), op[o].at \notin Holding, NEW at \in {"write", "read"}, NEW i \in Inode,
         GoesOn(o, at, i, op[o].source, op[o].todo), Does(op[o].req.tool, at), IsTree',
         FreeIsEmpty', DOMAIN content' = Inode
  PROVE  Structure'
<1>1. op[o].source = NoInode /\ at \in Stage
  BY ActiveFits DEF Fits, Holding, Stage
<1>2. Fits(op'[o])
  BY <1>1, FitsOn DEF Holding
<1> QED
  BY <1>1, <1>2, OnStructure

LEMMA OpenToWriteStructure ==
  ASSUME Structure, NEW o \in Op, Active(o), OpenToWrite(o)
  PROVE  Structure'
<1> DEFINE p == op[o].req.dst
<1>0. p \in Path /\ FilesShapes
  BY SrcIsPath, StructureShapes
<1>1. /\ op[o].at = "open" /\ op[o].req.tool = "write"
      /\ \/ Fails(o)
         \/ /\ IsFile(p) /\ tree' = tree
            /\ GoesOn(o, "write", tree[p], op[o].source, op[o].todo)
            /\ content' = IF op[o].req.option = "append" THEN content ELSE [content EXCEPT ![tree[p]] = <<>>]
         \/ \E i \in Inode : GoesOn(o, "write", i, op[o].source, op[o].todo)
                             /\ Fresh(i) /\ ~IsFile(p) /\ IsDir(Parent(p)) /\ tree[p] \notin {Dir, Link}
                             /\ tree' = [tree EXCEPT ![p] = i] /\ content' = content
  BY <1>0, OpenToWriteDoes
<1>2. Does(op[o].req.tool, "write") /\ op[o].at \notin Holding /\ op[o].handle = NoInode /\ op[o].source = NoInode
  BY <1>1, ActiveFits DEF Does, Holding, Fits
<1>3. ASSUME NEW handle, GoesOn(o, "write", handle, op[o].source, op[o].todo)
      PROVE  \A s \in Op : UsedBy(op[s]) \subseteq UsedBy(op'[s]) \cup {NoInode}
  BY <1>2, <1>3 DEF GoesOn, UsedBy
<1>4. CASE /\ IsFile(p) /\ tree' = tree
           /\ GoesOn(o, "write", tree[p], op[o].source, op[o].todo)
           /\ content' = IF op[o].req.option = "append" THEN content ELSE [content EXCEPT ![tree[p]] = <<>>]
  <2>1. IsTree'
    BY <1>4, StructureIsTree, TreeSame
  <2>2. \A s \in Op : UsedBy(op[s]) \subseteq UsedBy(op'[s]) \cup {NoInode}
    BY <1>3, <1>4
  <2>3. \A i \in Inode : (Fresh(i))' => Fresh(i)
    BY <1>4, <2>2, KindsDiffer DEF Fresh
  <2>4. DOMAIN content' = Inode /\ \A i \in Inode : content[i] = <<>> => content'[i] = <<>>
    BY <1>0, <1>4 DEF FilesShapes
  <2>5. FreeIsEmpty'
    BY <2>3, <2>4 DEF Structure, FreeIsEmpty
  <2>6. tree[p] \in Inode
    BY <1>4 DEF IsFile
  <2> QED
    BY <1>2, <1>4, <2>1, <2>4, <2>5, <2>6, OpensStructure
<1>5. CASE \E i \in Inode : GoesOn(o, "write", i, op[o].source, op[o].todo)
                            /\ Fresh(i) /\ ~IsFile(p) /\ IsDir(Parent(p)) /\ tree[p] \notin {Dir, Link}
                            /\ tree' = [tree EXCEPT ![p] = i] /\ content' = content
  <2>1. PICK i \in Inode : GoesOn(o, "write", i, op[o].source, op[o].todo)
                           /\ Fresh(i) /\ ~IsFile(p) /\ IsDir(Parent(p)) /\ tree[p] \notin {Dir, Link}
                           /\ tree' = [tree EXCEPT ![p] = i] /\ content' = content
    BY <1>5
  <2>2. tree[p] = None
    BY <1>0, <2>1 DEF FilesShapes, IsFile
  <2>3. \A x \in Path : tree[x] # i
    BY <2>1 DEF Fresh
  <2>4. IsTree'
    BY <1>0, <2>1, <2>2, <2>3, StructureIsTree, TreeGains
  <2>5. \A x \in Path : tree[x] \in Inode => tree'[x] = tree[x]
    BY <1>0, <2>1, <2>2, KindsDiffer DEF FilesShapes
  <2>6. FreeIsEmpty' /\ DOMAIN content' = Inode
    BY <1>3, <2>1, <2>5, FreeStays
  <2> QED
    BY <1>2, <2>1, <2>4, <2>6, OpensStructure
<1> HIDE DEF p
<1> QED
  BY <1>1, <1>4, <1>5, FailsStructure

LEMMA OpenToEditStructure ==
  ASSUME Structure, NEW o \in Op, Active(o), OpenToEdit(o)
  PROVE  Structure'
<1> DEFINE p == op[o].req.dst
<1>1. /\ op[o].at = "open" /\ op[o].req.tool = "edit"
      /\ Fails(o) \/ (IsFile(p) /\ Turns(o, "read", tree[p], op[o].todo))
  BY OpenToEditDoes, StructureShapes
<1>2. CASE IsFile(p) /\ Turns(o, "read", tree[p], op[o].todo)
  <2>1. GoesOn(o, "read", tree[p], op[o].source, op[o].todo) /\ UNCHANGED <<tree, content>> /\ tree[p] \in Inode
    BY <1>2 DEF Turns, IsFile
  <2>2. Does(op[o].req.tool, "read") /\ op[o].at \notin Holding /\ op[o].handle = NoInode /\ op[o].source = NoInode
    BY <1>1, ActiveFits DEF Does, Holding, Fits
  <2>3. \A s \in Op : UsedBy(op[s]) \subseteq UsedBy(op'[s]) \cup {NoInode}
    BY <2>1, <2>2 DEF GoesOn, UsedBy
  <2>4. FreeIsEmpty' /\ DOMAIN content' = Inode /\ IsTree'
    BY <2>1, <2>3, FreeStays, StructureIsTree, TreeSame
  <2> QED
    BY <2>1, <2>2, <2>4, OpensStructure
<1> QED
  BY <1>1, <1>2, FailsStructure

LEMMA ReadToEditStructure ==
  ASSUME Structure, NEW o \in Op, Active(o), ReadToEdit(o)
  PROVE  Structure'
<1>1. /\ op[o].at = "read"
      /\ \/ Ends(o, "noMatch") \/ Ends(o, "tooLarge") \/ Ends(o, "ok")
         \/ op[o].req.option # "dry" /\ Turns(o, "truncate", op[o].handle, op[o].todo)
  BY ReadToEditDoes, StructureShapes
<1>2. CASE op[o].req.option # "dry" /\ Turns(o, "truncate", op[o].handle, op[o].todo)
  <2>1. Does(op[o].req.tool, "truncate") /\ "truncate" \in Stage \ {"filling"}
        /\ "truncate" \in Holding /\ op[o].at \in Holding /\ op[o].at # "filling"
    BY <1>1, ActiveFits DEF Active, Fits, Does, Stage, Holding
  <2> QED
    BY <1>2, <2>1, TurnsStructure
<1>3. {"noMatch", "tooLarge", "ok"} \subseteq Answer
  BY DEF Answer, Refusal
<1> QED
  BY <1>1, <1>2, <1>3, AnswerStructure

LEMMA TruncateStructure ==
  ASSUME Structure, NEW o \in Op, Active(o), Truncate(o)
  PROVE  Structure'
<1>1. /\ op[o].at = "truncate" /\ GoesOn(o, "put", op[o].handle, op[o].source, op[o].todo)
      /\ tree' = tree /\ content' = [content EXCEPT ![op[o].handle] = <<>>]
  BY TruncateDoes, StructureShapes
<1>2. Does(op[o].req.tool, "put") /\ op[o].handle \in Inode /\ op[o].source = NoInode /\ op[o].req.option # "dry"
  BY <1>1, ActiveFits DEF Active, Fits, Does, Stage, Holding
<1>3. Fits(op'[o])
  BY <1>1, <1>2, FitsOn DEF Holding, Stage
<1>4. IsTree'
  BY <1>1, StructureIsTree, TreeSame
<1>5. \A s \in Op : UsedBy(op[s]) \subseteq UsedBy(op'[s]) \cup {NoInode}
  BY <1>1 DEF GoesOn, UsedBy
<1>6. \A i \in Inode : (Fresh(i))' => Fresh(i)
  BY <1>1, <1>5, KindsDiffer DEF Fresh
<1>7. DOMAIN content' = Inode /\ \A i \in Inode : content[i] = <<>> => content'[i] = <<>>
  BY <1>1 DEF Structure, FilesShapes
<1>8. FreeIsEmpty'
  BY <1>6, <1>7 DEF Structure, FreeIsEmpty
<1> QED
  BY <1>1, <1>3, <1>4, <1>7, <1>8, OnStructure DEF Stage

LEMMA WriteStructure ==
  ASSUME Structure, NEW o \in Op, Write(o) \/ Put(o)
  PROVE  Structure'
<1>1. IsOver(o, "ok") /\ tree' = tree /\ \E texts : Keeps(texts)
  BY WriteDoes, PutDoes, StructureShapes
<1>2. PICK texts : Keeps(texts)
  BY <1>1
<1>3. "ok" \in Answer
  BY DEF Answer
<1> QED
  BY <1>1, <1>2, <1>3, OverStructure, StructureIsTree, TreeSame

LEMMA LookStructure ==
  ASSUME Structure, NEW o \in Op, Active(o), Look(o)
  PROVE  Structure'
<1>1. /\ op[o].at = "look"
      /\ \/ Fails(o) \/ Ends(o, "isLink") \/ Ends(o, "confirm")
         \/ op[o].req.tool = "copy" /\ Turns(o, "access", op[o].handle, op[o].todo)
         \/ op[o].req.tool # "copy" /\ Turns(o, "rm", op[o].handle, op[o].todo)
  BY LookDoes, StructureShapes
<1>2. Does(op[o].req.tool, "look")
  BY <1>1, ActiveFits DEF Active, Fits
<1>3. op[o].at \notin Holding /\ op[o].at # "filling" /\ {"access", "rm"} \subseteq Stage \ {"filling"}
      /\ "access" \notin Holding /\ "rm" \notin Holding /\ {"isLink", "confirm"} \subseteq Answer
  BY <1>1 DEF Holding, Stage, Answer, Refusal
<1>4. CASE op[o].req.tool = "copy" /\ Turns(o, "access", op[o].handle, op[o].todo)
  <2>1. Does(op[o].req.tool, "access")
    BY <1>4 DEF Does
  <2> QED
    BY <1>3, <1>4, <2>1, TurnsStructure
<1>5. CASE op[o].req.tool # "copy" /\ Turns(o, "rm", op[o].handle, op[o].todo)
  <2>1. Does(op[o].req.tool, "rm")
    BY <1>2, <1>5 DEF Does
  <2> QED
    BY <1>3, <1>5, <2>1, TurnsStructure
<1> QED
  BY <1>1, <1>3, <1>4, <1>5, FailsStructure, AnswerStructure

LEMMA StartRemovingStructure ==
  ASSUME Structure, NEW o \in Op, Active(o), StartRemoving(o)
  PROVE  Structure'
<1>1. op[o].at = "rm" /\ (Fails(o) \/ Turns(o, "removing", op[o].handle, {op[o].req.src}))
  BY StartRemovingDoes, StructureShapes
<1>2. CASE Turns(o, "removing", op[o].handle, {op[o].req.src})
  <2>1. /\ op[o].at \notin Holding /\ op[o].at # "filling"
        /\ "removing" \in Stage \ {"filling"} /\ "removing" \notin Holding
        /\ Does(op[o].req.tool, "removing")
    BY <1>1, ActiveFits DEF Active, Fits, Does, Holding, Stage
  <2>2. \A p \in {op[o].req.src} : p \in Path /\ IsPrefix(op[o].req.src, p)
    BY SrcIsPath
  <2> QED
    BY <1>2, <2>1, <2>2, TurnsStructure
<1> QED
  BY <1>1, <1>2, FailsStructure

LEMMA ChildrenBelow ==
  ASSUME NEW p \in Path, NEW q \in Path, IsPrefix(q, p)
  PROVE  \A c \in Children(p) : c \in Path /\ IsPrefix(q, c)
BY PathsAreOrdered, StrictMeans DEF Children, Below, Ordered

LEMMA AccessStructure ==
  ASSUME Structure, NEW o \in Op, Active(o), Access(o)
  PROVE  Structure'
<1>1. /\ op[o].at = "access"
      /\ \/ Ends(o, "exists")
         \/ Turns(o, "mkdirs", op[o].handle, op[o].todo)
  BY AccessDoes, StructureShapes
<1>2. CASE Turns(o, "mkdirs", op[o].handle, op[o].todo)
  <2>1. /\ op[o].at \notin Holding /\ op[o].at # "filling"
        /\ "mkdirs" \in Stage \ {"filling"} /\ "mkdirs" \notin Holding
        /\ Does(op[o].req.tool, "mkdirs")
    BY <1>1, ActiveFits DEF Active, Fits, Does, Holding, Stage
  <2> QED
    BY <1>2, <2>1, TurnsStructure
<1>3. "exists" \in Answer
  BY DEF Answer, Refusal
<1> QED
  BY <1>1, <1>2, <1>3, AnswerStructure

LEMMA CopiedStructure ==
  ASSUME Structure, NEW o \in Op, Active(o), Copied(o)
  PROVE  Structure'
<1>1. /\ op[o].at = "copying"
      /\ \/ Ends(o, "ok")
         \/ op[o].req.tool # "copy" /\ Turns(o, "rm", op[o].handle, op[o].todo)
  BY CopiedDoes, StructureShapes
<1>2. CASE op[o].req.tool # "copy" /\ Turns(o, "rm", op[o].handle, op[o].todo)
  <2>1. /\ op[o].at \notin Holding /\ op[o].at # "filling"
        /\ "rm" \in Stage \ {"filling"} /\ "rm" \notin Holding
        /\ Does(op[o].req.tool, "rm")
    BY <1>1, <1>2, ActiveFits DEF Active, Fits, Does, Holding, Stage
  <2> QED
    BY <1>2, <2>1, TurnsStructure
<1>3. "ok" \in Answer
  BY DEF Answer
<1> QED
  BY <1>1, <1>2, <1>3, AnswerStructure

\* What is removed has nothing below it.
LEMMA RemoveNextStructure ==
  ASSUME Structure, NEW o \in Op, Active(o), RemoveNext(o)
  PROVE  Structure'
<1> DEFINE r == op[o].req
<1>1. op[o].at = "removing" /\ FilesShapes
  BY RemoveNextDoes, StructureShapes
<1>2. PICK p \in op[o].todo :
        /\ Below(p) \cap op[o].todo = {}
        /\ \/ Children(p) = {} /\ op[o].todo = {p} /\ IsOver(o, "ok") /\ Loses(o, p)
           \/ /\ Children(p) = {} /\ op[o].todo # {p} /\ Loses(o, p)
              /\ GoesOn(o, op[o].at, op[o].handle, op[o].source, op[o].todo \ {p})
           \/ Fails(o)
           \/ Turns(o, op[o].at, op[o].handle, op[o].todo \cup Children(p))
  BY <1>1, RemoveNextDoes
<1>3. /\ \A q \in op[o].todo : q \in Path /\ IsPrefix(r.src, q)
      /\ r.src \in op[o].todo /\ op[o].handle = NoInode /\ op[o].source = NoInode /\ Does(r.tool, op[o].at)
  BY <1>1, ActiveFits DEF Fits, Holding, Active
<1>4. p \in Path /\ r.src \in Path
  BY <1>2, <1>3
<1>5. /\ op[o].at \in Stage \ {"filling"} /\ op[o].at \notin Holding /\ op[o].at # "copying" /\ "ok" \in Answer
  BY <1>1 DEF Stage, Holding, Answer
<1>6. ASSUME Children(p) = {}, Loses(o, p)
      PROVE  IsTree' /\ Keeps(content)
  BY <1>4, <1>6, NothingBelow, TreeLoses, StructureIsTree DEF Loses
<1>7. CASE Children(p) = {} /\ op[o].todo = {p} /\ IsOver(o, "ok") /\ Loses(o, p)
  BY <1>5, <1>6, <1>7, OverStructure
<1>8. CASE /\ Children(p) = {} /\ op[o].todo # {p} /\ Loses(o, p)
           /\ GoesOn(o, op[o].at, op[o].handle, op[o].source, op[o].todo \ {p})
  <2> DEFINE todo == op[o].todo \ {p}
  <2>1. r.src \in todo
    <3>1. PICK q \in op[o].todo : q # p
      BY <1>2, <1>8
    <3>2. p # r.src
      BY <1>2, <1>3, <3>1, StrictMeans DEF Below
    <3> QED
      BY <1>3, <3>2
  <2>2. \A q \in todo : q \in Path /\ IsPrefix(r.src, q)
    BY <1>3
  <2>3. GoesOn(o, op[o].at, op[o].handle, op[o].source, todo)
    BY <1>8
  <2> HIDE DEF todo
  <2>4. Fits(op'[o])
    BY <1>1, <1>3, <1>5, <2>1, <2>2, <2>3, FitsOn
  <2>5. FreeIsEmpty' /\ DOMAIN content' = Inode /\ IsTree'
    BY <1>6, <1>8, KeepsFreesNothing
  <2> QED
    BY <1>5, <2>3, <2>4, <2>5, OnStructure
<1>9. CASE Turns(o, op[o].at, op[o].handle, op[o].todo \cup Children(p))
  <2> DEFINE todo == op[o].todo \cup Children(p)
  <2>1. r.src \in todo /\ \A q \in todo : q \in Path /\ IsPrefix(r.src, q)
    BY <1>3, <1>4, ChildrenBelow
  <2>2. Turns(o, op[o].at, op[o].handle, todo)
    BY <1>9
  <2> HIDE DEF todo
  <2> QED
    BY <1>1, <1>3, <1>5, <2>1, <2>2, TurnsStructure
<1> QED
  BY <1>2, <1>7, <1>8, <1>9, FailsStructure

\* A copy of a file begins: the file is new.
LEMMA CopiesStructure ==
  ASSUME Structure, NEW o \in Op, Active(o), op[o].at = "copying", NEW p \in op[o].todo, Copies(o, p)
  PROVE  Structure'
<1> DEFINE r == op[o].req
           to == Image(r, p)
           left == op[o].todo \ {p}
<1>1. PICK i \in Inode : /\ Fresh(i) /\ tree' = [tree EXCEPT ![to] = i]
                         /\ GoesOn(o, "filling", i, tree[p], left) /\ op'[o].path = p
  BY DEF Copies
<1>2. tree[p] \notin {None, Dir, Link} /\ tree[to] = None /\ IsDir(Parent(to)) /\ content' = content
  BY DEF Copies
<1>3. \A q \in op[o].todo : q \in Path /\ IsPrefix(r.src, q)
  BY ActiveFits DEF Fits, Active
<1>4. r \in Request /\ r.tool \in {"copy", "move"} /\ op[o].handle = NoInode /\ op[o].source = NoInode
  BY ActiveFits DEF Active, Fits, Does, Holding
<1>5. to \in Path /\ p \in Path
  BY <1>3, <1>4, RequestsAssumed
<1>6. \A x \in Path : tree[x] # i
  BY <1>1 DEF Fresh
<1>7. tree[p] \in Inode
  BY <1>2, <1>5, StructureShapes DEF FilesShapes
<1> HIDE DEF to
<1>8. IsTree'
  BY <1>1, <1>2, <1>5, <1>6, StructureIsTree, TreeGains
<1>9. \A x \in Path : tree[x] \in Inode => tree'[x] = tree[x]
  BY <1>1, <1>2, <1>5, KindsDiffer, StructureIsTree DEF IsTree
<1>10. \A s \in Op : UsedBy(op[s]) \subseteq UsedBy(op'[s]) \cup {NoInode}
  BY <1>1, <1>4 DEF GoesOn, UsedBy
<1>11. FreeIsEmpty' /\ DOMAIN content' = Inode
  BY <1>2, <1>9, <1>10, FreeStays
<1>12. \A s \in Op : op[s].handle # i
  BY <1>1 DEF Fresh, UsedBy
<1>13. \A q \in left : q \in Path /\ IsPrefix(r.src, q)
  BY <1>3
<1> HIDE DEF left
<1>14. Fits(op'[o])
  <2>1. Does(op[o].req.tool, "filling") /\ "filling" \in Stage /\ "filling" \in Holding
    BY <1>4 DEF Does, Stage, Holding
  <2> QED
    BY <1>1, <1>3, <1>5, <1>7, <1>13, <2>1, FitsOn
<1> QED
  BY <1>1, <1>8, <1>11, <1>12, <1>14, OnStructure DEF Stage

LEMMA CopyNextStructure ==
  ASSUME Structure, NEW o \in Op, Active(o), CopyNext(o)
  PROVE  Structure'
<1> DEFINE r == op[o].req
<1>1. op[o].at = "copying"
  BY CopyNextDoes, StructureShapes
<1>2. PICK p \in op[o].todo :
              \/ Fails(o)
              \/ Gains(o, Image(op[o].req, p))
              \/ Turns(o, op[o].at, op[o].handle, op[o].todo)
              \/ Turns(o, op[o].at, op[o].handle, (op[o].todo \ {p}) \cup Children(p))
              \/ Turns(o, op[o].at, op[o].handle, op[o].todo \ {p})
              \/ Copies(o, p)
  BY CopyNextDoes, StructureShapes
<1>3. \A q \in op[o].todo : q \in Path /\ IsPrefix(r.src, q)
  BY <1>1, ActiveFits DEF Fits, Active
<1>4. /\ op[o].at \notin Holding /\ op[o].at \in Stage \ {"filling"} /\ op[o].at \notin {"removing", "truncate", "put"}
      /\ Does(r.tool, op[o].at)
  BY <1>1, ActiveFits DEF Active, Fits, Holding, Stage
<1>5. ASSUME NEW todo, Turns(o, op[o].at, op[o].handle, todo), \A q \in todo : q \in Path /\ IsPrefix(r.src, q)
      PROVE  Structure'
  BY <1>4, <1>5, TurnsStructure
<1>6. \A q \in (op[o].todo \ {p}) \cup Children(p) : q \in Path /\ IsPrefix(r.src, q)
  <2>1. r.src \in Path
    BY SrcIsPath
  <2> QED
    BY <1>2, <1>3, <2>1, ChildrenBelow
<1> QED
  BY <1>1, <1>2, <1>3, <1>5, <1>6, FailsStructure, GainsStructure, CopiesStructure

LEMMA FillStructure ==
  ASSUME Structure, NEW o \in Op, Active(o), Fill(o)
  PROVE  Structure'
<1>1. /\ op[o].at = "filling" /\ GoesOn(o, "copying", NoInode, NoInode, op[o].todo) /\ tree' = tree
      /\ \E texts : Keeps(texts)
  BY FillDoes, StructureShapes
<1>2. FreeIsEmpty' /\ DOMAIN content' = Inode /\ IsTree'
  BY <1>1, KeepsFreesNothing, StructureIsTree, TreeSame
<1>3. Fits(op'[o])
  <2>1. /\ Does(op[o].req.tool, "copying") /\ "copying" \in Stage /\ "copying" \notin Holding
        /\ \A p \in op[o].todo : p \in Path /\ IsPrefix(op[o].req.src, p)
    BY <1>1, ActiveFits DEF Active, Fits, Does, Stage, Holding
  <2> QED
    BY <1>1, <2>1, FitsOn
<1> QED
  BY <1>1, <1>2, <1>3, OnStructure DEF Stage

LEMMA FillFailsStructure ==
  ASSUME Structure, NEW o \in Op, Active(o), FillFails(o)
  PROVE  Structure'
<1> DEFINE to == Image(op[o].req, op[o].path)
<1>1. op[o].at = "filling" /\ IsOver(o, Failure(o)) /\ Failure(o) \in Answer
      /\ ((tree' = tree /\ Keeps(content)) \/ (~IsDir(to) /\ Loses(o, to)))
  BY FillFailsDoes, StructureShapes
<1>2. to \in Path
  <2>1. op[o].req \in Request /\ op[o].req.tool \in {"copy", "move"} /\ op[o].path \in Path
        /\ IsPrefix(op[o].req.src, op[o].path)
    BY <1>1, ActiveFits DEF Active, Fits, Does
  <2> QED
    BY <2>1, RequestsAssumed
<1>3. CASE tree' = tree /\ Keeps(content)
  BY <1>1, <1>3, EndsStructure DEF EndsSame
<1>4. CASE ~IsDir(to) /\ Loses(o, to)
  <2>1. tree[to] # Dir /\ tree' = [tree EXCEPT ![to] = None] /\ Keeps(content)
    BY <1>4 DEF IsDir, Loses
  <2>2. IsTree'
    BY <1>2, <2>1, StructureIsTree, NothingBelow, TreeLoses
  <2> QED
    BY <1>1, <2>1, <2>2, OverStructure
<1> QED
  BY <1>1, <1>3, <1>4

LEMMA RenameStructure ==
  ASSUME Structure, NEW o \in Op, Active(o), Rename(o)
  PROVE  Structure'
<1> DEFINE r == op[o].req
<1>1. /\ op[o].at = "rename"
      /\ \/ Fails(o)
         \/ Turns(o, "copying", op[o].handle, {r.src})
         \/ /\ IsDir(Parent(r.src)) /\ IsDir(Parent(r.dst)) /\ tree[r.src] # None
            /\ IsOver(o, "ok") /\ Renamed(r) /\ Keeps(content)
  BY RenameDoes, StructureShapes
<1>2. r.tool = "move" /\ r \in Request
  BY <1>1, ActiveFits DEF Active, Fits, Does
<1>3. CASE Turns(o, "copying", op[o].handle, {r.src})
  <2>1. /\ op[o].at \notin Holding /\ op[o].at # "filling"
        /\ "copying" \in Stage \ {"filling"} /\ "copying" \notin Holding
        /\ Does(r.tool, "copying")
    BY <1>1, <1>2 DEF Does, Holding, Stage
  <2>2. \A p \in {r.src} : p \in Path /\ IsPrefix(r.src, p)
    BY SrcIsPath
  <2> QED
    BY <1>3, <2>1, <2>2, TurnsStructure
<1>4. CASE /\ IsDir(Parent(r.src)) /\ IsDir(Parent(r.dst)) /\ tree[r.src] # None
           /\ IsOver(o, "ok") /\ Renamed(r) /\ Keeps(content)
  BY <1>2, <1>4, StructureIsTree, TreeMoves, OverStructure DEF Answer
<1> QED
  BY <1>1, <1>3, <1>4, FailsStructure

\* Every step of an operation keeps the structure.
LEMMA RunsStructure ==
  ASSUME Structure, NEW o \in Op, Active(o), Runs(o) \/ FillFails(o) \/ Breaks(o) \/ Dies(o)
  PROVE  Structure'
<1>1. Breaks(o) => Structure'
  BY FailsStructure DEF Breaks
<1>2. Dies(o) => Structure'
  BY AnswerStructure DEF Dies, Answer
<1> QED
  BY <1>1, <1>2, MakeDirsStructure, OpenToWriteStructure, WriteStructure, OpenToEditStructure, ReadToEditStructure,
     TruncateStructure, LookStructure, StartRemovingStructure, RemoveNextStructure, AccessStructure,
     CopyNextStructure, FillStructure, CopiedStructure, RenameStructure, FillFailsStructure
  DEF Runs

-----------------------------------------------------------------------------
(* Beginning, and the types *)
CompanyOf(o, r) ==
  IF \A q \in Op : ~Active(q) THEN "none"
  ELSE IF \A q \in Op : Active(q) => op[q].company # "any" /\ Spares(op[q].req, r) THEN "peaceful"
  ELSE "any"

\* o begins beside the others, which go on as they were.
Joins(o, r) ==
  /\ UNCHANGED <<tree, content>>
  /\ DOMAIN op' = Op /\ \A s \in Op : DOMAIN op'[s] = Fields
  /\ op'[o].at = FirstStage(r.tool) /\ op'[o].req = r /\ op'[o].handle = NoInode /\ op'[o].source = NoInode
  /\ op'[o].company = CompanyOf(o, r) /\ op'[o].start = [p \in Path |-> Seen(p)]
  /\ \A q \in Op \ {o} :
       /\ op'[q].at = op[q].at /\ op'[q].req = op[q].req /\ op'[q].handle = op[q].handle
       /\ op'[q].source = op[q].source /\ op'[q].todo = op[q].todo /\ op'[q].path = op[q].path
       /\ op'[q].draft = op[q].draft /\ op'[q].start = op[q].start
       /\ ~Active(q) => op'[q] = op[q]
       /\ Active(q) =>
            op'[q].company = IF op[q].company # "any" /\ Spares(r, op[q].req) THEN "peaceful" ELSE "any"

\* An operation is rejected, or joins the others.
LEMMA BeginDoes ==
  ASSUME FilesShapes, NEW o \in Op, NEW r \in Request, Begin(o, r)
  PROVE  ~Active(o) /\ (Ends(o, "rejected") \/ Joins(o, r))
<1>1. ~Active(o)
  BY DEF Begin, Active, Stage
<1>2. ASSUME op' = Joined(o, r), UNCHANGED <<tree, content>>
      PROVE  Joins(o, r)
  <2> DEFINE others == {q \in Op : Active(q)}
             company == IF others = {} THEN "none"
                        ELSE IF \A q \in others : op[q].company # "any" /\ Spares(op[q].req, r) THEN "peaceful"
                        ELSE "any"
             seen == [p \in Path |-> Seen(p)]
             mine == [Idle EXCEPT !.at = FirstStage(r.tool), !.req = r, !.company = company, !.start = seen]
  <2>1. op' = [q \in Op |->
                 IF q = o THEN mine
                 ELSE IF q \in others
                 THEN [op[q] EXCEPT !.company =
                         IF op[q].company # "any" /\ Spares(r, op[q].req) THEN "peaceful" ELSE "any"]
                 ELSE op[q]]
    BY <1>2 DEF Joined, FilesShapes, Fields
  <2>2. company = CompanyOf(o, r)
    BY DEF CompanyOf
  <2> HIDE DEF company, seen
  <2>3. /\ DOMAIN mine = Fields /\ mine.at = FirstStage(r.tool) /\ mine.req = r /\ mine.handle = NoInode
        /\ mine.source = NoInode /\ mine.company = company /\ mine.start = seen
    BY DEF Idle, Fields
  <2> HIDE DEF mine
  <2>4. DOMAIN op' = Op /\ op'[o] = mine
    BY <2>1
  <2>5. ASSUME NEW q \in Op \ {o}
        PROVE  /\ DOMAIN op'[q] = Fields
               /\ op'[q].at = op[q].at /\ op'[q].req = op[q].req /\ op'[q].handle = op[q].handle
               /\ op'[q].source = op[q].source /\ op'[q].todo = op[q].todo /\ op'[q].path = op[q].path
               /\ op'[q].draft = op[q].draft /\ op'[q].start = op[q].start
               /\ ~Active(q) => op'[q] = op[q]
               /\ Active(q) =>
                    op'[q].company = IF op[q].company # "any" /\ Spares(r, op[q].req) THEN "peaceful" ELSE "any"
    <3> DEFINE c == IF op[q].company # "any" /\ Spares(r, op[q].req) THEN "peaceful" ELSE "any"
    <3>1. op'[q] = IF Active(q) THEN [op[q] EXCEPT !.company = c] ELSE op[q]
      BY <2>1
    <3> HIDE DEF c
    <3>2. DOMAIN op[q] = Fields
      BY DEF FilesShapes
    <3>3. CASE Active(q)
      BY <3>1, <3>2, <3>3 DEF Fields, c
    <3>4. CASE ~Active(q)
      BY <3>1, <3>2, <3>4
    <3> QED
      BY <3>3, <3>4
  <2> QED
    BY <1>2, <2>2, <2>3, <2>4, <2>5 DEF Joins, seen
<1>3. Begin(o, r) => Ends(o, "rejected") \/ (op' = Joined(o, r) /\ UNCHANGED <<tree, content>>)
  BY DEF Begin
<1> QED
  BY <1>1, <1>2, <1>3

LEMMA RestHoldsNothing ==
  ASSUME Structure, NEW o \in Op, ~Active(o)
  PROVE  op[o].handle = NoInode /\ op[o].source = NoInode
<1>1. op[o].at \notin Holding /\ op[o].at # "filling"
  BY DEF Active, Stage, Holding
<1> QED
  BY <1>1, ActiveFits DEF Fits

LEMMA BeginStructure ==
  ASSUME Structure, NEW o \in Op, NEW r \in Request, Begin(o, r)
  PROVE  Structure'
<1>1. Ends(o, "rejected") \/ Joins(o, r)
  BY BeginDoes, StructureShapes
<1>2. CASE Ends(o, "rejected")
  BY <1>2, AnswerStructure DEF Answer, Refusal
<1>3. CASE Joins(o, r)
  <2>1. FirstStage(r.tool) \in Stage /\ Does(r.tool, FirstStage(r.tool)) /\ FirstStage(r.tool) \notin Holding
        /\ FirstStage(r.tool) \notin {"copying", "filling", "removing", "truncate", "put"}
    BY RequestsAssumed DEF FirstStage, Stage, Does, Holding
  <2>2. \A q \in Op \ {o} : op'[q].at = op[q].at /\ op'[q].handle = op[q].handle /\ op'[q].source = op[q].source
    BY <1>3 DEF Joins
  <2>3. op'[o].at = FirstStage(r.tool) /\ op'[o].handle = NoInode /\ op'[o].source = NoInode /\ op'[o].req = r
        /\ op'[o].company \in {"none", "peaceful", "any"}
    BY <1>3 DEF Joins, CompanyOf
  <2>4. Fits(op'[o])
    BY <2>1, <2>3 DEF Fits
  <2>5. ASSUME NEW q \in Op \ {o}
        PROVE  Fits(op'[q])
    <3>1. CASE Active(q)
      <4>1. /\ op'[q].at = op[q].at /\ op'[q].req = op[q].req /\ op'[q].handle = op[q].handle
            /\ op'[q].source = op[q].source /\ op'[q].todo = op[q].todo /\ op'[q].path = op[q].path
            /\ op'[q].company \in {"none", "peaceful", "any"}
        BY <1>3, <3>1 DEF Joins
      <4> QED
        BY <4>1, ActiveFits DEF Fits
    <3>2. CASE ~Active(q)
      BY <1>3, <3>2, ActiveFits DEF Joins
    <3> QED
      BY <3>1, <3>2
  <2>6. Records'
    BY <2>4, <2>5, RecordsFitNext
  <2>7. UNCHANGED <<tree, content>> /\ DOMAIN op' = Op /\ \A s \in Op : DOMAIN op'[s] = Fields
    BY <1>3 DEF Joins
  <2>8. IsTree'
    BY <2>7, StructureIsTree, TreeSame
  <2>9. ~Active(o)
    BY BeginDoes, StructureShapes
  <2>10. op[o].handle = NoInode /\ op[o].source = NoInode
    BY <2>9, RestHoldsNothing
  <2>11. \A s \in Op : UsedBy(op[s]) \subseteq UsedBy(op'[s]) \cup {NoInode}
    BY <2>2, <2>10 DEF UsedBy
  <2>12. FreeIsEmpty' /\ DOMAIN content' = Inode
    BY <2>7, <2>11, FreeStays
  <2>13. FilesShapes'
    BY <2>1, <2>2, <2>3, <2>7, <2>8, <2>12 DEF Structure, FilesShapes, IsTree
  <2>14. OneFiller'
    BY <2>1, <2>2, <2>3 DEF Structure, OneFiller
  <2> QED
    BY <2>6, <2>8, <2>12, <2>13, <2>14 DEF Structure, IsTree
<1> QED
  BY <1>1, <1>2, <1>3

LEMMA RunsAreActive ==
  ASSUME NEW o \in Op, Runs(o) \/ FillFails(o) \/ Breaks(o) \/ Dies(o)
  PROVE  Active(o)
BY DEF Runs, FillFails, Breaks, Dies, Active, Stage, MakeDirs, OpenToWrite, Write, OpenToEdit, ReadToEdit, Truncate,
       Put, Look, StartRemoving, RemoveNext, Access, CopyNext, Fill, Copied, Rename

LEMMA TreesAssumed ==
  ASSUME NEW t \in InitialTree
  PROVE  /\ \A p, q \in Path : t[p] # None /\ IsStrictPrefix(q, p) => t[q] = Dir
         /\ \E n \in [FilesOf(t) -> Inode] : \A p, q \in FilesOf(t) : n[p] = n[q] => p = q
BY FileOpsAssumption DEF FileOpsAssumption

\* The files of a share are a tree at first.
LEMMA InitStructure == FilesInit => Structure
<1> SUFFICES ASSUME FilesInit
             PROVE  Structure
  OBVIOUS
<1>1. PICK t \in InitialTree :
       LET Files == FilesOf(t)
           inode == CHOOSE n \in [Files -> Inode] : \A p, q \in Files : n[p] = n[q] => p = q
       IN /\ tree = [p \in Path |-> IF p \in Files THEN inode[p] ELSE t[p]]
          /\ content = [i \in Inode |-> IF \E p \in Files : inode[p] = i
                                        THEN t[CHOOSE p \in Files : inode[p] = i] ELSE <<>>]
  BY DEF FilesInit
<1> DEFINE Files == FilesOf(t)
           inode == CHOOSE n \in [Files -> Inode] : \A p, q \in Files : n[p] = n[q] => p = q
<1>2. inode \in [Files -> Inode] /\ \A p, q \in Files : inode[p] = inode[q] => p = q
  BY TreesAssumed
<1>3. /\ tree = [p \in Path |-> IF p \in Files THEN inode[p] ELSE t[p]]
      /\ DOMAIN content = Inode
      /\ \A i \in Inode : (\A p \in Files : inode[p] # i) => content[i] = <<>>
  BY <1>1
<1> HIDE DEF inode
<1>4. Files = {p \in Path : t[p] \notin {None, Dir, Link}}
  BY DEF FilesOf
<1> HIDE DEF Files
<1>5. IsTree
  <2>1. tree \in [Path -> {None, Dir, Link} \cup Inode]
    BY <1>2, <1>3, <1>4
  <2>2. Flat
    <3> SUFFICES ASSUME NEW p \in Path, NEW q \in Path, tree[p] # None, IsStrictPrefix(q, p)
                 PROVE  tree[q] = Dir
      BY DEF Flat
    <3>1. t[p] # None
      BY <1>3, <1>4
    <3>2. t[q] = Dir
      BY <3>1, TreesAssumed
    <3> QED
      BY <1>3, <1>4, <3>2
  <2>3. OneName
    BY <1>2, <1>3, <1>4, KindsDiffer DEF OneName
  <2> QED
    BY <2>1, <2>2, <2>3 DEF IsTree
<1>6. op = [o \in Op |-> Idle]
  BY DEF FilesInit
<1>7. DOMAIN Idle = Fields /\ Idle.at = "idle" /\ Idle.handle = NoInode /\ Idle.source = NoInode
  BY DEF Idle, Fields
<1>8. FilesShapes
  BY <1>3, <1>5, <1>6, <1>7 DEF FilesShapes, IsTree
<1>9. Records
  <2>1. Fits(Idle)
    BY <1>7 DEF Fits, Holding, Stage
  <2> QED
    BY <1>6, <2>1, RecordsFit
<1>10. OneFiller
  BY <1>6, <1>7 DEF OneFiller
<1>11. FreeIsEmpty
  <2> SUFFICES ASSUME NEW i \in Inode, \A p \in Path : tree[p] # i
               PROVE  content[i] = <<>>
    BY DEF FreeIsEmpty, Fresh
  <2> QED
    BY <1>3, <1>4
<1> QED
  BY <1>5, <1>8, <1>9, <1>10, <1>11 DEF Structure, IsTree

\* The structure is inductive by itself.
LEMMA StructureStep == Structure /\ [FilesNext]_fileVars => Structure'
<1> SUFFICES ASSUME Structure, [FilesNext]_fileVars
             PROVE  Structure'
  OBVIOUS
<1>1. CASE UNCHANGED fileVars
  BY <1>1 DEF fileVars, Structure, FilesShapes, Records, Flat, OneName, FreeIsEmpty, OneFiller, Active, Fresh
<1>2. CASE FilesNext
  <2>1. PICK o \in Op : (\E r \in Request : Begin(o, r)) \/ Runs(o) \/ FillFails(o) \/ Breaks(o) \/ Dies(o)
    BY <1>2 DEF FilesNext
  <2> QED
    BY <2>1, BeginStructure, RunsStructure, RunsAreActive
<1> QED
  BY <1>1, <1>2

LEMMA StructureIsTyped == Structure /\ apart \in BOOLEAN => FilesTypeOK
<1> SUFFICES ASSUME Structure, apart \in BOOLEAN
             PROVE  FilesTypeOK
  OBVIOUS
<1>1. \A p \in Path : tree[p] # None => IsDir(Parent(p))
  BY StructureIsTree, DirAbove
<1>2. \A o \in Op : ~Active(o) => UsedBy(op[o]) = {NoInode}
  BY RestHoldsNothing DEF UsedBy
<1> QED
  BY <1>1, <1>2 DEF FilesTypeOK, Structure, FilesShapes, OneName, FreeIsEmpty, IsFile

\* Type correctness: the tree of a share stays a tree, no two paths share a file, a free inode is empty and nothing is
\* held after the end, whatever overlaps, fails or dies, through every action of fs-write.ts and fs-edit.ts.
THEOREM FilesTypeCorrect == FilesSpec => []FilesTypeOK
<1> DEFINE I == Structure /\ apart \in BOOLEAN
<1>1. FilesInit => I
  BY InitStructure DEF FilesInit
<1>2. I /\ [FilesNext]_fileVars => I'
  <2>1. \A o \in Op : MakeDirs(o) \/ OpenToWrite(o) \/ Write(o) \/ OpenToEdit(o) \/ ReadToEdit(o) => apart' = apart
    BY DEF MakeDirs, OpenToWrite, Write, OpenToEdit, ReadToEdit
  <2>2. \A o \in Op : Truncate(o) \/ Put(o) \/ Look(o) \/ StartRemoving(o) \/ RemoveNext(o) => apart' = apart
    BY DEF Truncate, Put, Look, StartRemoving, RemoveNext
  <2>3. \A o \in Op : Access(o) \/ CopyNext(o) \/ Fill(o) \/ Copied(o) \/ Rename(o) => apart' = apart
    BY DEF Access, CopyNext, Fill, Copied, Rename
  <2>4. \A o \in Op : FillFails(o) \/ Breaks(o) \/ Dies(o) \/ (\E r \in Request : Begin(o, r)) => apart' = apart
    BY DEF FillFails, Breaks, Dies, Begin
  <2>5. [FilesNext]_fileVars => apart' = apart
    BY <2>1, <2>2, <2>3, <2>4 DEF FilesNext, fileVars, Runs
  <2> QED
    BY <2>5, StructureStep
<1>3. I => FilesTypeOK
  BY StructureIsTyped
<1> QED
  BY <1>1, <1>2, <1>3, PTL DEF FilesSpec

-----------------------------------------------------------------------------
(* Steps that take away nothing but an unfinished copy *)

Target(o) == Image(op[o].req, op[o].path)

Gentle(o) ==
  /\ \A p \in Path :
       \/ tree'[p] = tree[p]
       \/ tree[p] = None /\ tree'[p] # Link
       \/ op[o].at = "filling" /\ p = Target(o) /\ tree'[p] = None
  /\ \A p \in Path : tree[p] \in Inode /\ tree'[p] = tree[p] =>
       content'[tree[p]] = content[tree[p]] \/ (op[o].at = "filling" /\ tree[p] = op[o].handle)
  /\ \A s \in Op \ {o} : op'[s] = op[s] /\ (op[s].at = "filling" => content'[op[s].handle] = content[op[s].handle])
  /\ op'[o].at = "filling" => \A p \in Path : tree[p] \in Inode => tree[p] # op'[o].handle

\* Steps that change no file are gentle.
LEMMA CalmIsGentle ==
  ASSUME Structure, NEW o \in Op, tree' = tree, content' = content \/ Keeps(content),
         \A s \in Op \ {o} : op'[s] = op[s], op'[o].at # "filling"
  PROVE  Gentle(o)
<1>1. \A p \in Path : tree[p] \in Inode => content'[tree[p]] = content[tree[p]]
  BY DEF Keeps
<1>2. \A s \in Op \ {o} : op[s].at = "filling" => content'[op[s].handle] = content[op[s].handle]
  <2> SUFFICES ASSUME NEW s \in Op \ {o}, op[s].at = "filling"
               PROVE  content'[op[s].handle] = content[op[s].handle]
    OBVIOUS
  <2>1. op[s].handle \in Inode
    BY ActiveFits DEF Fits, Holding
  <2> QED
    BY <2>1 DEF Keeps, UsedBy
<1> QED
  BY <1>1, <1>2 DEF Gentle

LEMMA FailsIsGentle ==
  ASSUME Structure, NEW o \in Op, EndsSame(o)
  PROVE  Gentle(o)
BY CalmIsGentle, AnswersAreLast DEF EndsSame, IsOver

LEMMA AnswerIsGentle ==
  ASSUME Structure, NEW o \in Op, NEW answer \in Answer, Ends(o, answer)
  PROVE  Gentle(o)
BY FailsIsGentle, EndsDoes, StructureShapes

LEMMA TurnsIsGentle ==
  ASSUME Structure, NEW o \in Op, NEW at, NEW handle, NEW todo, Turns(o, at, handle, todo), at # "filling"
  PROVE  Gentle(o)
BY CalmIsGentle DEF Turns, GoesOn

LEMMA GainsIsGentle ==
  ASSUME Structure, NEW o \in Op, op[o].at # "filling", NEW p, Gains(o, p)
  PROVE  Gentle(o)
<1>1. PICK q \in Path : tree[q] = None /\ tree' = [tree EXCEPT ![q] = Dir] /\ op' = op /\ content' = content
  BY DEF Gains
<1>2. \A x \in Path : tree'[x] = IF x = q THEN Dir ELSE tree[x]
  BY <1>1, StructureIsTree DEF IsTree
<1> QED
  BY <1>1, <1>2, KindsDiffer DEF Gentle

LEMMA CopiesIsGentle ==
  ASSUME Structure, NEW o \in Op, op[o].at = "copying", NEW p \in op[o].todo, Copies(o, p)
  PROVE  Gentle(o)
<1> DEFINE to == Image(op[o].req, p)
<1>1. PICK i \in Inode : Fresh(i) /\ tree' = [tree EXCEPT ![to] = i] /\ tree[to] = None /\ content' = content
                         /\ GoesOn(o, "filling", i, tree[p], op[o].todo \ {p})
  BY DEF Copies
<1> HIDE DEF to
<1>2. \A x \in Path : tree'[x] = IF x = to THEN i ELSE tree[x]
  BY <1>1, StructureIsTree DEF IsTree
<1>3. \A x \in Path : tree[x] # i
  BY <1>1 DEF Fresh
<1>4. op'[o].handle = i /\ \A s \in Op \ {o} : op'[s] = op[s]
  BY <1>1 DEF GoesOn
<1> QED
  BY <1>1, <1>2, <1>3, <1>4, KindsDiffer DEF Gentle

\* To fill a copy changes nothing but the copy.
LEMMA FillIsGentle ==
  ASSUME Structure, NEW o \in Op, Fill(o)
  PROVE  Gentle(o)
<1> DEFINE i == op[o].handle
           texts == [content EXCEPT ![i] = Over(content[op[o].source], content[i])]
<1>1. /\ op[o].at = "filling" /\ GoesOn(o, "copying", NoInode, NoInode, op[o].todo) /\ tree' = tree
      /\ Keeps(texts)
  BY FillDoes, StructureShapes
<1>2. \A j \in Inode : j # i => texts[j] = content[j]
  BY DEF Structure, FilesShapes
<1> HIDE DEF texts
<1>3. \A p \in Path : tree[p] \in Inode => content'[tree[p]] = texts[tree[p]]
  BY <1>1 DEF Keeps
<1>4. ASSUME NEW s \in Op \ {o}, op[s].at = "filling"
      PROVE  content'[op[s].handle] = content[op[s].handle]
  <2>1. op[s].handle \in Inode /\ op[s].handle # i
    BY <1>1, <1>4, ActiveFits DEF Fits, Holding, Structure, OneFiller
  <2>2. op'[s] = op[s]
    BY <1>1 DEF GoesOn
  <2> QED
    BY <1>1, <1>2, <2>1, <2>2 DEF Keeps, UsedBy
<1> QED
  BY <1>1, <1>2, <1>3, <1>4 DEF Gentle, GoesOn

LEMMA FillFailsIsGentle ==
  ASSUME Structure, NEW o \in Op, FillFails(o)
  PROVE  Gentle(o)
<1>1. op[o].at = "filling" /\ IsOver(o, Failure(o)) /\ Failure(o) \in Answer
      /\ ((tree' = tree /\ Keeps(content)) \/ Loses(o, Target(o)))
  BY FillFailsDoes, StructureShapes DEF Target
<1>2. CASE tree' = tree /\ Keeps(content)
  BY <1>1, <1>2, FailsIsGentle DEF EndsSame
<1>3. CASE Loses(o, Target(o))
  <2>1. \A x \in Path : tree'[x] = IF x = Target(o) THEN None ELSE tree[x]
    BY <1>3, StructureIsTree DEF IsTree, Loses
  <2>2. Keeps(content)
    BY <1>3 DEF Loses
  <2>3. \A p \in Path : tree[p] \in Inode /\ tree'[p] = tree[p] => content'[tree[p]] = content[tree[p]]
    BY <2>2 DEF Keeps
  <2>4. ASSUME NEW s \in Op \ {o}, op[s].at = "filling"
        PROVE  content'[op[s].handle] = content[op[s].handle]
    <3>1. op[s].handle \in Inode /\ op'[s] = op[s]
      BY <1>1, <2>4, ActiveFits DEF Fits, Holding, IsOver
    <3> QED
      BY <2>2, <3>1 DEF Keeps, UsedBy
  <2> QED
    BY <1>1, <2>1, <2>3, <2>4, AnswersAreLast DEF Gentle, IsOver
<1> QED
  BY <1>1, <1>2, <1>3

LEMMA CopyNextIsGentle ==
  ASSUME Structure, NEW o \in Op, CopyNext(o)
  PROVE  Gentle(o)
<1>1. op[o].at = "copying" /\ op[o].at # "filling"
  BY CopyNextDoes, StructureShapes
<1>2. PICK p \in op[o].todo :
              \/ Fails(o)
              \/ Gains(o, Image(op[o].req, p))
              \/ \E todo : Turns(o, op[o].at, op[o].handle, todo)
              \/ Copies(o, p)
  BY CopyNextDoes, StructureShapes
<1> QED
  BY <1>1, <1>2, FailsDoes, StructureShapes, FailsIsGentle, GainsIsGentle, TurnsIsGentle, CopiesIsGentle

LEMMA MakeDirsIsGentle ==
  ASSUME Structure, NEW o \in Op, Active(o), MakeDirs(o)
  PROVE  Gentle(o)
<1>1. op[o].at = "mkdirs"
  BY MakeDirsDoes, StructureShapes
<1>2. \/ Fails(o)
      \/ \E p : Gains(o, p)
      \/ Ends(o, "ok")
      \/ op[o].req.tool # "create" /\ \E todo : Turns(o, AfterDirs[op[o].req.tool], op[o].handle, todo)
  BY MakeDirsDoes, StructureShapes
<1>3. op[o].req.tool # "create" => AfterDirs[op[o].req.tool] # "filling"
  <2>1. op[o].req.tool \in {"create", "write", "copy", "move"}
    BY <1>1, ActiveFits DEF Active, Fits, Does
  <2> QED
    BY <2>1 DEF AfterDirs
<1> QED
  BY <1>1, <1>2, <1>3, FailsDoes, StructureShapes, FailsIsGentle, GainsIsGentle, TurnsIsGentle, AnswerIsGentle
  DEF Answer

\* All that a copy does, what create_directory and an edit that changes nothing do, and what a
\* move does until it takes away what it has copied.
LEMMA StepIsGentle ==
  ASSUME Structure, NEW o \in Op, Runs(o) \/ FillFails(o) \/ Breaks(o) \/ Dies(o),
         \/ op[o].req.tool \in {"create", "copy"}
         \/ op[o].req.tool = "edit" /\ op[o].req.option = "dry"
         \/ op[o].req.tool = "move" /\ op[o].at \in {"access", "mkdirs", "copying", "filling"}
  PROVE  Gentle(o)
<1>1. Active(o) /\ Does(op[o].req.tool, op[o].at) /\ FilesShapes
  BY RunsAreActive, ActiveFits, StructureShapes DEF Active, Fits
<1>2. Fails(o) => Gentle(o)
  BY <1>1, FailsDoes, FailsIsGentle
<1>3. Breaks(o) \/ Dies(o) => Gentle(o)
  BY <1>2, AnswerIsGentle DEF Breaks, Dies, Answer
<1>4. OpenToEdit(o) => Gentle(o)
  BY <1>1, <1>2, OpenToEditDoes, TurnsIsGentle
<1>5. ReadToEdit(o) => Gentle(o)
  BY <1>1, ReadToEditDoes, TurnsIsGentle, AnswerIsGentle DEF Answer, Refusal
<1>6. Look(o) => Gentle(o)
  BY <1>1, <1>2, LookDoes, TurnsIsGentle, AnswerIsGentle DEF Answer, Refusal
<1>7. Access(o) => Gentle(o)
  BY <1>1, AccessDoes, TurnsIsGentle, AnswerIsGentle DEF Answer, Refusal
<1>8. Copied(o) => Gentle(o)
  BY <1>1, CopiedDoes, TurnsIsGentle, AnswerIsGentle DEF Answer
<1>10. ~Truncate(o) /\ ~Put(o)
  BY <1>1, ActiveFits DEF Fits, Does, Truncate, Put
<1>9. ~OpenToWrite(o) /\ ~Write(o) /\ ~StartRemoving(o) /\ ~RemoveNext(o) /\ ~Rename(o)
  BY <1>1 DEF Does, OpenToWrite, Write, StartRemoving, RemoveNext, Rename
<1> QED
  BY <1>1, <1>3, <1>4, <1>5, <1>6, <1>7, <1>8, <1>9, <1>10, CopyNextIsGentle, MakeDirsIsGentle, FillIsGentle,
     FillFailsIsGentle DEF Runs

-----------------------------------------------------------------------------
(* Copies *)

CopiedNext(rec, p) ==
  LET to == Image(rec.req, p)
  IN SeenAfter(to) = rec.start[p] /\ \A s \in Op : op'[s].at = "filling" => op'[s].handle # tree'[to]

SavedNext(rec, p) == CopiedNext(rec, p) \/ Skips(rec, p)

CopyFactsNext(rec) ==
  LET r == rec.req
  IN /\ rec.at \notin {"rm", "removing"} => \A p \in Sources(rec) : SeenAfter(p) = rec.start[p]
     /\ rec.at \in {"rm", "removing"} =>
          \A p \in Sources(rec) : IF IsPrefix(r.src, p) THEN SavedNext(rec, p) ELSE SeenAfter(p) = rec.start[p]
     /\ r.tool = "move" /\ rec.at \in {"copying", "filling", "rm", "removing"} => Crosses(r)
     /\ rec.at \in {"look", "access"} => (tree'[r.dst] = Link => OntoLink(rec))
     /\ rec.at \notin {"look", "access"} => \A p \in Sources(rec) : ~IsPrefix(r.dst, p)
     /\ rec.at \in {"mkdirs", "rename", "copying", "filling"} =>
          \A p \in Path : IsPrefix(r.dst, p) /\ tree'[p] = Link => p = r.dst /\ OntoLink(rec)
     /\ rec.at \in {"mkdirs", "rename"} /\ r.tool = "move" => tree'[r.dst] \in {None, Link}
     /\ rec.at \in {"copying", "filling"} =>
          \A p \in Own(rec) :
            \/ SavedNext(rec, p)
            \/ \E q \in rec.todo : IsPrefix(q, p)
            \/ rec.at = "filling" /\ p = rec.path
     /\ rec.at = "filling" => /\ tree'[Image(r, rec.path)] = rec.handle /\ content'[rec.handle] = <<>>
                              /\ rec.path \in Sources(rec) => tree'[rec.path] = rec.source

\* Which directories are on file systems of their own does not change.
LEMMA ApartStays ==
  ASSUME NEW o \in Op, (\E r \in Request : Begin(o, r)) \/ Runs(o) \/ FillFails(o) \/ Breaks(o) \/ Dies(o)
  PROVE  apart' = apart
BY DEF Begin, Runs, FillFails, Breaks, Dies, MakeDirs, OpenToWrite, Write, OpenToEdit, ReadToEdit, Truncate,
       Put, Look, StartRemoving, RemoveNext, Access, CopyNext, Fill, Copied, Rename

\* The facts of a copy, in the next state.
LEMMA CopyFactsPrimed ==
  ASSUME apart' = apart
  PROVE  \A o \in Op : (CopyFacts(op[o]))' <=> CopyFactsNext(op'[o])
BY DEF CopyFacts, CopyFactsNext, Same, Seen, SeenAfter, IsFile, CopiedTo, CopiedNext, Saved, SavedNext, Sources, Own,
       FilesAmong, Upwards, Image, Moved, Skips, Crosses, OntoLink

LEMMA FileIsFile ==
  ASSUME Structure, NEW p \in Path, Seen(p).is = File
  PROVE  tree[p] \in Inode
<1>1. CASE tree[p] \notin Inode
  <2>1. tree[p] \in {None, Dir, Link} /\ Seen(p) = NoFile(tree[p])
    BY <1>1 DEF Structure, FilesShapes, Seen, IsFile
  <2> QED
    BY <2>1, KindsDiffer DEF NoFile
<1> QED
  BY <1>1

LEMMA SeenStays ==
  ASSUME NEW p \in Path, tree'[p] = tree[p], tree[p] \in Inode => content'[tree[p]] = content[tree[p]]
  PROVE  SeenAfter(p) = Seen(p)
BY DEF Seen, SeenAfter, IsFile

\* A gentle step leaves a file, unless it is the unfinished copy.
LEMMA GentleKeeps ==
  ASSUME Structure, NEW o \in Op, Gentle(o), NEW p \in Path, tree[p] \in Inode,
         op[o].at = "filling" => p # Target(o) /\ tree[p] # op[o].handle
  PROVE  tree'[p] = tree[p] /\ SeenAfter(p) = Seen(p)
<1>1. tree'[p] = tree[p]
  BY KindsDiffer DEF Gentle
<1> QED
  BY <1>1, SeenStays DEF Gentle

\* Where an operation is that fills a copy.
LEMMA FillerHas ==
  ASSUME Structure, NEW o \in Op, op[o].at = "filling"
  PROVE  /\ Active(o) /\ op[o].req \in Request /\ op[o].req.tool \in {"copy", "move"} /\ Takes(op[o].req)
         /\ op[o].path \in Path /\ IsPrefix(op[o].req.src, op[o].path)
         /\ Target(o) \in Path /\ IsPrefix(op[o].req.dst, Target(o))
         /\ op[o].handle \in Inode
<1>1. /\ Active(o) /\ op[o].req \in Request /\ op[o].req.tool \in {"copy", "move"}
      /\ op[o].path \in Path /\ IsPrefix(op[o].req.src, op[o].path) /\ op[o].handle \in Inode
  BY ActiveFits DEF Fits, Active, Stage, Holding, Does
<1>2. Takes(op[o].req)
  BY <1>1, ImageTakes
<1> QED
  BY <1>1, <1>2 DEF Takes, Target

\* A copy that is complete stays so.
LEMMA CopiedStays ==
  ASSUME Structure, NEW rec, NEW p, Image(rec.req, p) \in Path, rec.start[p].is = File, CopiedTo(rec, p),
         NEW o \in Op, Gentle(o), op[o].at = "filling" => tree[Target(o)] = op[o].handle
  PROVE  CopiedNext(rec, p)
<1> DEFINE to == Image(rec.req, p)
<1>1. Seen(to) = rec.start[p] /\ \A s \in Op : op[s].at = "filling" => op[s].handle # tree[to]
  BY DEF CopiedTo
<1>2. to \in Path
  OBVIOUS
<1> HIDE DEF to
<1>3. tree[to] \in Inode
  BY <1>1, <1>2, FileIsFile
<1>4. tree'[to] = tree[to] /\ SeenAfter(to) = Seen(to)
  BY <1>1, <1>2, <1>3, GentleKeeps
<1>5. \A s \in Op : op'[s].at = "filling" => op'[s].handle # tree'[to]
  BY <1>1, <1>2, <1>3, <1>4 DEF Gentle
<1> QED
  BY <1>1, <1>4, <1>5 DEF CopiedNext, to

\* All steps of an operation that spares what another reads are gentle.
LEMMA SparingIsGentle ==
  ASSUME Structure, NEW s \in Op, Runs(s) \/ FillFails(s) \/ Breaks(s) \/ Dies(s), NEW r, Spares(op[s].req, r)
  PROVE  Gentle(s)
BY StepIsGentle DEF Spares

\* One that spares what a copy reads writes beside it.
LEMMA SparingWritesBeside ==
  ASSUME Structure, NEW s \in Op, op[s].at = "filling", NEW r \in Request, Spares(op[s].req, r),
         NEW p \in Path, IsPrefix(r.src, p)
  PROVE  p # Target(s)
<1>1. op[s].req.tool \in {"copy", "move"} /\ Target(s) \in Path /\ IsPrefix(op[s].req.dst, Target(s))
      /\ op[s].req.dst \in Path
  BY FillerHas DEF Takes
<1>2. ~Meets(op[s].req.dst, r.src)
  BY <1>1 DEF Spares
<1>3. r.src \in Path
  BY RequestsAssumed
<1> QED
  BY <1>1, <1>2, <1>3, PathsAreOrdered DEF Meets, Ordered

LEMMA SourcesAre ==
  ASSUME NEW rec
  PROVE  /\ \A p \in Sources(rec) : p \in Path /\ rec.start[p].is = File
         /\ rec.req.tool = "copy" => \A p \in Sources(rec) : IsPrefix(rec.req.src, p)
         /\ \A p \in Own(rec) : p \in Sources(rec) /\ IsPrefix(rec.req.src, p)
         /\ \A p \in Sources(rec) : IsPrefix(rec.req.src, p) => p \in Own(rec)
BY DEF Sources, Own, FilesAmong

\* A copy's facts outlive the gentle steps of the others.
LEMMA OtherKeepsCopy ==
  ASSUME Structure, NEW o \in Op, NEW s \in Op \ {o}, Active(o), op[o].req.tool = "copy", CopyFacts(op[o]),
         Spares(op[s].req, op[o].req), Placed(s), Gentle(s)
  PROVE  CopyFactsNext(op[o])
<1> DEFINE rec == op[o]
           r == rec.req
<1>1. r \in Request /\ r.src \in Path /\ r.dst \in Path /\ Takes(r) /\ Does("copy", rec.at)
  BY SrcIsPath, ImageTakes, ActiveFits DEF Active, Fits
<1>2. op[s].at = "filling" => tree[Target(s)] = op[s].handle
  BY DEF Placed, Target
<1>3. ASSUME NEW p \in Sources(rec), Same(rec, p)
      PROVE  tree'[p] = tree[p] /\ SeenAfter(p) = rec.start[p]
  <2>1. p \in Path /\ IsPrefix(r.src, p) /\ rec.start[p].is = File /\ Seen(p) = rec.start[p]
    BY <1>3, SourcesAre DEF Same
  <2>2. tree[p] \in Inode
    BY <2>1, FileIsFile
  <2>3. op[s].at = "filling" => p # Target(s)
    BY <1>1, <2>1, SparingWritesBeside
  <2>4. op[s].at = "filling" => tree[p] # op[s].handle
    BY <1>2, <2>1, <2>2, <2>3, FillerHas DEF Structure, OneName
  <2> QED
    BY <2>1, <2>2, <2>3, <2>4, GentleKeeps
<1>4. ASSUME NEW p \in Own(rec), Saved(rec, p)
      PROVE  SavedNext(rec, p)
  <2>1. Image(r, p) \in Path /\ rec.start[p].is = File
    BY <1>1, SourcesAre DEF Takes
  <2> QED
    BY <1>2, <1>4, <2>1, CopiedStays DEF Saved, SavedNext
<1>5. \A p \in Path : tree[p] # Link => tree'[p] # Link
  BY KindsDiffer DEF Gentle
<1>6. rec.at \notin {"rm", "removing", "rename"}
  BY <1>1 DEF Does
<1>9. r.tool # "move" /\ r.dst \in Path
  BY <1>1
<1>7. CASE rec.at = "filling"
  <2>1. tree[Image(r, rec.path)] = rec.handle /\ content[rec.handle] = <<>>
        /\ (rec.path \in Sources(rec) => tree[rec.path] = rec.source)
    BY <1>7 DEF CopyFacts
  <2>2. Image(r, rec.path) \in Path /\ rec.handle \in Inode
    BY <1>7, FillerHas DEF Target
  <2>3. op[s].at = "filling" => op[s].handle # rec.handle
    BY <1>7 DEF Structure, OneFiller
  <2>4. tree'[Image(r, rec.path)] = rec.handle
    BY <1>2, <2>1, <2>2, <2>3, GentleKeeps
  <2>5. content'[rec.handle] = <<>>
    BY <1>7, <2>1 DEF Gentle
  <2>6. rec.path \in Sources(rec) => tree'[rec.path] = rec.source
    BY <1>3, <1>6, <2>1 DEF CopyFacts
  <2> QED
    BY <2>4, <2>5, <2>6, <1>3, <1>4, <1>5, <1>6, <1>7, <1>9 DEF CopyFacts, CopyFactsNext
<1>8. CASE rec.at # "filling"
  BY <1>3, <1>4, <1>5, <1>6, <1>8, <1>9 DEF CopyFacts, CopyFactsNext
<1> QED
  BY <1>7, <1>8

-----------------------------------------------------------------------------
(* The company of an operation *)

\* An ending, or a step that goes on.
LEMMA RunsContinue ==
  ASSUME Structure, NEW o \in Op, Runs(o) \/ FillFails(o) \/ Breaks(o) \/ Dies(o)
  PROVE  /\ \A s \in Op \ {o} : op'[s] = op[s]
         /\ \/ \E answer \in Answer : IsOver(o, answer)
            \/ op'[o].req = op[o].req /\ op'[o].company = op[o].company /\ op'[o].start = op[o].start
<1> DEFINE Ended == \E answer \in Answer : IsOver(o, answer)
           GoneOn == op' = op \/ \E at, handle, source, todo : GoesOn(o, at, handle, source, todo)
<1>1. Ended \/ GoneOn => /\ \A s \in Op \ {o} : op'[s] = op[s]
                         /\ \/ Ended
                            \/ op'[o].req = op[o].req /\ op'[o].company = op[o].company /\ op'[o].start = op[o].start
  BY DEF IsOver, GoesOn
<1>2. \A answer \in Answer : Ends(o, answer) => Ended
  BY EndsDoes, StructureShapes
<1>3. Fails(o) => Ended
  BY FailsDoes, StructureShapes DEF EndsSame
<1>4. Breaks(o) \/ Dies(o) => Ended
  BY <1>2, <1>3 DEF Breaks, Dies, Answer
<1>5. \A at, handle, todo : Turns(o, at, handle, todo) => GoneOn
  BY DEF Turns
<1>6. \A p : Gains(o, p) => GoneOn
  BY DEF Gains
<1>7. \A p : Copies(o, p) => GoneOn
  BY DEF Copies
<1> HIDE DEF Ended, GoneOn
<1>8. MakeDirs(o) => Ended \/ GoneOn
  BY <1>2, <1>3, <1>5, <1>6, MakeDirsDoes, StructureShapes DEF Answer
<1>9. OpenToWrite(o) => Ended \/ GoneOn
  BY <1>3, OpenToWriteDoes, StructureShapes DEF GoneOn
<1>10. Write(o) \/ Put(o) => Ended
  BY WriteDoes, PutDoes, StructureShapes DEF Ended, Answer
<1>11. OpenToEdit(o) => Ended \/ GoneOn
  BY <1>3, <1>5, OpenToEditDoes, StructureShapes
<1>12. ReadToEdit(o) => Ended \/ GoneOn
  BY <1>2, <1>5, ReadToEditDoes, StructureShapes DEF Answer, Refusal
<1>13. Truncate(o) => GoneOn
  BY TruncateDoes, StructureShapes DEF GoneOn
<1>14. Look(o) => Ended \/ GoneOn
  BY <1>2, <1>3, <1>5, LookDoes, StructureShapes DEF Answer, Refusal
<1>15. StartRemoving(o) => Ended \/ GoneOn
  BY <1>3, <1>5, StartRemovingDoes, StructureShapes
<1>16. RemoveNext(o) => Ended \/ GoneOn
  BY <1>3, <1>5, RemoveNextDoes, StructureShapes DEF Ended, GoneOn, Answer
<1>17. Access(o) => Ended \/ GoneOn
  BY <1>2, <1>5, AccessDoes, StructureShapes DEF Answer, Refusal
<1>18. CopyNext(o) => Ended \/ GoneOn
  BY <1>3, <1>5, <1>6, <1>7, CopyNextDoes, StructureShapes
<1>19. Fill(o) => GoneOn
  BY FillDoes, StructureShapes DEF GoneOn
<1>20. FillFails(o) => Ended
  BY FillFailsDoes, StructureShapes DEF Ended
<1>21. Copied(o) => Ended \/ GoneOn
  BY <1>2, <1>5, CopiedDoes, StructureShapes DEF Answer
<1>22. Rename(o) => Ended \/ GoneOn
  BY <1>3, <1>5, RenameDoes, StructureShapes DEF Ended, Answer
<1>23. Ended \/ GoneOn
  BY <1>4, <1>8, <1>9, <1>10, <1>11, <1>12, <1>13, <1>14, <1>15, <1>16, <1>17, <1>18, <1>19, <1>20, <1>21, <1>22
  DEF Runs
<1> QED
  BY <1>1, <1>23 DEF Ended

\* Steps of an operation under way.
Acts(o) == Runs(o) \/ FillFails(o) \/ Breaks(o) \/ Dies(o)

\* A copy that is begun is at its path.
LEMMA NewFillerIsPlaced ==
  ASSUME Structure, NEW o \in Op, Acts(o), op'[o].at = "filling"
  PROVE  (Placed(o))'
<1> SUFFICES tree'[Image(op'[o].req, op'[o].path)] = op'[o].handle
  BY DEF Placed, Image, Moved
<1>1. FilesShapes /\ Active(o)
  BY StructureShapes, RunsAreActive DEF Acts
<1>2. ~Ends(o, "lost") /\ ~Fails(o) /\ \A answer \in Answer : ~Ends(o, answer) /\ ~IsOver(o, answer)
  <2>1. \A answer \in Answer : ~IsOver(o, answer)
    BY AnswersAreLast DEF IsOver
  <2>2. \A answer \in Answer : ~Ends(o, answer)
    BY <1>1, <2>1, EndsDoes
  <2>3. ~Fails(o)
    BY <1>1, <2>1, FailsDoes DEF EndsSame
  <2> QED
    BY <2>1, <2>2, <2>3 DEF Answer
<1>3. \A p : Gains(o, p) => op[o].at = "filling"
  BY DEF Gains
<1>4. \A at, handle, todo : Turns(o, at, handle, todo) => at = "filling"
  BY DEF Turns, GoesOn
<1>5. op[o].at = "mkdirs" /\ op[o].req.tool # "create" => AfterDirs[op[o].req.tool] # "filling"
  <2> SUFFICES ASSUME op[o].at = "mkdirs", op[o].req.tool # "create"
               PROVE  AfterDirs[op[o].req.tool] # "filling"
    OBVIOUS
  <2>1. op[o].req.tool \in {"write", "copy", "move"}
    BY <1>1, ActiveFits DEF Active, Fits, Does
  <2> QED
    BY <2>1 DEF AfterDirs
<1>6. ~MakeDirs(o)
  <2> DEFINE next == AfterDirs[op[o].req.tool]
             todo == IF op[o].req.tool = "copy" THEN {op[o].req.src} ELSE {}
  <2>1. MakeDirs(o) => /\ op[o].at = "mkdirs"
                       /\ \/ Fails(o) \/ Ends(o, "ok") \/ \E p : Gains(o, p)
                          \/ op[o].req.tool # "create" /\ Turns(o, next, op[o].handle, todo)
    BY <1>1, MakeDirsDoes
  <2>2. op[o].at = "mkdirs" /\ op[o].req.tool # "create" => next # "filling"
    BY <1>5
  <2> HIDE DEF next, todo
  <2> QED
    BY <1>2, <1>3, <1>4, <2>1, <2>2 DEF Answer
<1>7. ~OpenToWrite(o) /\ ~Write(o) /\ ~OpenToEdit(o) /\ ~Truncate(o) /\ ~Put(o)
  BY <1>1, <1>2, <1>4, OpenToWriteDoes, WriteDoes, OpenToEditDoes, TruncateDoes, PutDoes DEF GoesOn, Answer
<1>8. ~ReadToEdit(o) /\ ~Look(o) /\ ~StartRemoving(o)
  BY <1>1, <1>2, <1>4, ReadToEditDoes, LookDoes, StartRemovingDoes DEF Answer, Refusal
<1>9. ~RemoveNext(o) /\ ~Access(o) /\ ~Copied(o) /\ ~Fill(o)
  BY <1>1, <1>2, <1>4, RemoveNextDoes, AccessDoes, CopiedDoes, FillDoes DEF Answer, Refusal, GoesOn
<1>10. ~Rename(o) /\ ~FillFails(o) /\ ~Breaks(o) /\ ~Dies(o)
  BY <1>1, <1>2, <1>4, RenameDoes, FillFailsDoes DEF Answer, Breaks, Dies
<1>11. CopyNext(o)
  BY <1>6, <1>7, <1>8, <1>9, <1>10 DEF Acts, Runs
<1>12. PICK p \in op[o].todo : Copies(o, p)
  <2>1. op[o].at = "copying"
    BY <1>1, <1>11, CopyNextDoes
  <2> QED
    BY <1>1, <1>2, <1>3, <1>4, <1>11, <2>1, CopyNextDoes
<1>13. op[o].req \in Request /\ op[o].req.tool \in {"copy", "move"} /\ p \in Path /\ IsPrefix(op[o].req.src, p)
  <2>1. op[o].at = "copying"
    BY <1>1, <1>11, CopyNextDoes
  <2> QED
    BY <1>1, <2>1, ActiveFits DEF Active, Fits, Does
<1>14. Image(op[o].req, p) \in Path
  BY <1>13, RequestsAssumed
<1> DEFINE to == Image(op[o].req, p)
<1>15. PICK i \in Inode : /\ tree' = [tree EXCEPT ![to] = i]
                          /\ op'[o].handle = i /\ op'[o].req = op[o].req /\ op'[o].path = p
  BY <1>12 DEF Copies, GoesOn
<1>16. Image(op'[o].req, op'[o].path) = to /\ to \in Path
  BY <1>14, <1>15
<1> HIDE DEF to
<1> QED
  BY <1>1, <1>15, <1>16 DEF FilesShapes

\* Who is active after a step of t was so before, and has its request and its company.
LEMMA ActsKeepRequests ==
  ASSUME Structure, NEW t \in Op, Acts(t), NEW o \in Op, Active(o)'
  PROVE  Active(o) /\ op'[o].req = op[o].req /\ op'[o].company = op[o].company
<1>1. Active(t)
  BY RunsAreActive DEF Acts
<1>2. op'[o].at \in Stage
  BY DEF Active
<1>3. CASE o # t
  BY <1>2, <1>3, RunsContinue DEF Acts, Active
<1>4. CASE o = t
  BY <1>1, <1>2, <1>4, RunsContinue, AnswersAreLast DEF Acts, IsOver
<1> QED
  BY <1>3, <1>4

\* The gentle steps leave what others are filling.
LEMMA GentleKeepsPlaced ==
  ASSUME Structure, NEW t \in Op, Gentle(t), Placed(t), NEW s \in Op \ {t}, op'[s] = op[s], Placed(s)
  PROVE  (Placed(s))'
<1> SUFFICES ASSUME op[s].at = "filling"
             PROVE  tree'[Target(s)] = op[s].handle
  BY DEF Placed, Target, Image, Moved
<1>1. tree[Target(s)] = op[s].handle /\ Target(s) \in Path /\ op[s].handle \in Inode
  BY FillerHas DEF Placed, Target
<1>2. op[t].at = "filling" => tree[Target(t)] = op[t].handle /\ op[t].handle # op[s].handle
  BY DEF Placed, Target, Structure, OneFiller
<1> QED
  BY <1>1, <1>2, GentleKeeps

\* Company outlives the steps of an operation.
LEMMA CompanyActs ==
  ASSUME Structure, Company, Copying, NEW t \in Op, Acts(t)
  PROVE  Company'
<1> SUFFICES ASSUME NEW o \in Op, NEW s \in Op, Active(s)', s # o
             PROVE  /\ ~(Alone(o))'
                    /\ (Quiet(o))' => Spares(op'[s].req, op'[o].req) /\ (Placed(s))'
  BY DEF Company, Spares, Meets
<1>1. Active(s) /\ op'[s].req = op[s].req /\ Active(t)
  BY ActsKeepRequests, RunsAreActive DEF Acts
<1>2. Active(o)' => Active(o) /\ op'[o].req = op[o].req /\ op'[o].company = op[o].company
  BY ActsKeepRequests
<1>3. ~(Alone(o))'
  BY <1>1, <1>2 DEF Alone, Company
<1>4. ASSUME (Quiet(o))'
      PROVE  Spares(op'[s].req, op'[o].req) /\ (Placed(s))'
  <2>1. Active(o) /\ op'[o].req = op[o].req /\ Quiet(o)
    BY <1>2, <1>4 DEF Quiet
  <2>2. Spares(op[s].req, op[o].req) /\ Placed(s)
    BY <1>1, <2>1 DEF Company
  <2>3. CASE s = t
    <3>1. op'[t].at = "filling" => (Placed(t))'
      BY NewFillerIsPlaced
    <3> QED
      BY <2>1, <2>2, <1>1, <2>3, <3>1 DEF Placed
  <2>4. CASE s # t
    <3>1. op'[s] = op[s]
      BY <2>4, RunsContinue DEF Acts
    <3>2. CASE t # o
      <4>1. Spares(op[t].req, op[o].req) /\ Placed(t)
        BY <1>1, <2>1, <3>2 DEF Company
      <4>2. Gentle(t)
        BY <4>1, SparingIsGentle DEF Acts
      <4> QED
        BY <1>1, <2>1, <2>2, <2>4, <3>1, <4>1, <4>2, GentleKeepsPlaced
    <3>3. CASE t = o
      <4>1. op[t].req.tool = "copy"
        BY <1>1, <2>1, <3>3 DEF Quiet, Alone, Company
      <4>2. Placed(t)
        BY <2>1, <3>3 DEF Copying, CopyFacts, Placed
      <4>3. Gentle(t)
        BY <4>1, StepIsGentle DEF Acts
      <4> QED
        BY <1>1, <2>1, <2>2, <2>4, <3>1, <4>2, <4>3, GentleKeepsPlaced
    <3> QED
      BY <3>2, <3>3
  <2> QED
    BY <1>1, <2>1, <2>2, <2>3, <2>4
<1> QED
  BY <1>3, <1>4

LEMMA CompanySame ==
  ASSUME Company, UNCHANGED tree, \A o \in Op : op'[o] = op[o] \/ op'[o].at \notin Stage
  PROVE  Company'
<1> SUFFICES ASSUME NEW o \in Op, NEW s \in Op, Active(s)', s # o
             PROVE  /\ ~(Alone(o))'
                    /\ (Quiet(o))' => Spares(op'[s].req, op'[o].req) /\ (Placed(s))'
  BY DEF Company, Spares, Meets
<1>1. Active(s) /\ op'[s] = op[s]
  BY DEF Active
<1>2. Active(o)' => op'[o] = op[o]
  BY DEF Active
<1>3. (Alone(o))' => Alone(o)
  BY <1>2 DEF Alone, Active
<1>4. (Quiet(o))' => Quiet(o) /\ op'[o] = op[o]
  BY <1>2 DEF Quiet, Active
<1>5. Placed(s) => (Placed(s))'
  BY <1>1 DEF Placed, Image, Moved
<1> QED
  BY <1>1, <1>3, <1>4, <1>5 DEF Company

\* Company outlives a beginning: who joins is told of, and tells, the others.
LEMMA CompanyBegin ==
  ASSUME Structure, Company, Copying, NEW t \in Op, NEW r \in Request, Begin(t, r)
  PROVE  Company'
<1>1. Ends(t, "rejected") \/ Joins(t, r)
  BY BeginDoes, StructureShapes
<1>2. CASE Ends(t, "rejected")
  <2>1. tree' = tree /\ IsOver(t, "rejected")
    BY <1>2, EndsDoes, StructureShapes DEF Answer, Refusal
  <2> QED
    BY <2>1, CompanySame DEF IsOver, Stage
<1>3. CASE Joins(t, r)
  <2> SUFFICES ASSUME NEW o \in Op, NEW s \in Op, Active(s)', s # o
               PROVE  /\ ~(Alone(o))'
                      /\ (Quiet(o))' => Spares(op'[s].req, op'[o].req) /\ (Placed(s))'
    BY DEF Company, Spares, Meets
  <2>1. /\ op'[t].req = r /\ op'[t].company = CompanyOf(t, r) /\ op'[t].at # "filling"
        /\ tree' = tree
    BY <1>3, RequestsAssumed DEF Joins, FirstStage
  <2>2. \A q \in Op \ {t} : (Active(q))' <=> Active(q)
    BY <1>3 DEF Joins, Active
  <2>3. \A q \in Op \ {t} : op'[q].req = op[q].req /\ ((Placed(q))' <=> Placed(q))
    BY <1>3 DEF Joins, Placed, Image, Moved
  <2>4. \A q \in Op \ {t} : Active(q) =>
          op'[q].company = IF op[q].company # "any" /\ Spares(r, op[q].req) THEN "peaceful" ELSE "any"
    BY <1>3 DEF Joins
  <2>5. CASE s = t
    <3>1. Active(o)' => op'[o].company # "none" /\ (op'[o].company # "any" => Spares(r, op[o].req))
      BY <2>2, <2>4, <2>5
    <3>2. (Placed(s))'
      BY <2>1, <2>5 DEF Placed
    <3> QED
      BY <2>1, <2>3, <2>5, <3>1, <3>2 DEF Alone, Quiet
  <2>6. CASE o = t
    <3>1. Active(s)
      BY <2>2, <2>6
    <3>2. op'[t].company # "none" /\ (op'[t].company # "any" => op[s].company # "any" /\ Spares(op[s].req, r))
      BY <2>1, <3>1 DEF CompanyOf
    <3>3. ASSUME op'[t].company # "any"
          PROVE  Placed(s)
      <4> SUFFICES ASSUME op[s].at = "filling"
                   PROVE  Placed(s)
        BY DEF Placed
      <4>1. op[s].req.tool = "copy"
        BY <3>2, <3>3, FillerHas DEF Spares
      <4> QED
        BY <3>1, <3>2, <3>3, <4>1 DEF Quiet, Copying, CopyFacts, Placed
    <3> QED
      BY <2>1, <2>3, <2>6, <3>2, <3>3 DEF Alone, Quiet
  <2>7. CASE o # t /\ s # t
    <3>1. Active(s)
      BY <2>2, <2>7
    <3>2. Active(o)' => Active(o) /\ op'[o].company # "none" /\ (op'[o].company # "any" => op[o].company # "any")
      BY <2>2, <2>4, <2>7
    <3>3. (Quiet(o))' => Quiet(o)
      BY <2>3, <2>7, <3>2 DEF Quiet
    <3> QED
      BY <2>3, <2>7, <3>1, <3>2, <3>3 DEF Alone, Company
  <2> QED
    BY <2>5, <2>6, <2>7
<1> QED
  BY <1>1, <1>2, <1>3

-----------------------------------------------------------------------------
(* The steps of a copy, and of a move that is alone *)

LEMMA SourcesStay ==
  ASSUME NEW rec, NEW next, next.req = rec.req, next.start = rec.start
  PROVE  /\ Sources(next) = Sources(rec) /\ Own(next) = Own(rec)
         /\ OntoLink(next) <=> OntoLink(rec)
         /\ \A p : Skips(next, p) <=> Skips(rec, p)
BY DEF Sources, Own, FilesAmong, OntoLink, Skips

\* A gentle step of its own leaves what it has to copy, and what it has copied.
LEMMA OwnGentle ==
  ASSUME Structure, NEW o \in Op, Quiet(o), CopyFacts(op[o]), Gentle(o),
         NEW next, next.req = op[o].req, next.start = op[o].start
  PROVE  /\ Sources(next) = Sources(op[o]) /\ Own(next) = Own(op[o])
         /\ \A p \in Sources(op[o]) : Same(op[o], p) => SeenAfter(p) = next.start[p] /\ tree'[p] = tree[p]
         /\ OntoLink(next) <=> OntoLink(op[o])
         /\ \A p \in Own(op[o]) : Saved(op[o], p) => SavedNext(next, p)
         /\ \A p \in Path : tree[p] # Link => tree'[p] # Link
<1> DEFINE rec == op[o]
           r == rec.req
<1>1. r \in Request /\ r.tool \in {"copy", "move"} /\ Takes(r)
  BY ActiveFits, ImageTakes DEF Quiet, Active, Fits
<1>2. op[o].at = "filling" => /\ tree[Target(o)] = op[o].handle /\ Target(o) \in Path
                              /\ IsPrefix(r.dst, Target(o)) /\ op[o].handle \in Inode
                              /\ \A p \in Sources(rec) : ~IsPrefix(r.dst, p)
  BY FillerHas DEF CopyFacts, Target
<1>3. ASSUME NEW p \in Sources(rec), Same(rec, p)
      PROVE  SeenAfter(p) = next.start[p] /\ tree'[p] = tree[p]
  <2>1. p \in Path /\ Seen(p) = rec.start[p] /\ rec.start[p].is = File
    BY <1>3, SourcesAre DEF Same
  <2>2. tree[p] \in Inode
    BY <2>1, FileIsFile
  <2>3. op[o].at = "filling" => p # Target(o) /\ tree[p] # op[o].handle
    BY <1>2, <1>3, <2>1, <2>2 DEF Structure, OneName
  <2> QED
    BY <2>1, <2>2, <2>3, GentleKeeps
<1>4. ASSUME NEW p \in Own(rec), CopiedTo(rec, p)
      PROVE  CopiedNext(next, p)
  <2>1. Image(r, p) \in Path /\ rec.start[p].is = File
    BY <1>1, SourcesAre DEF Takes
  <2>2. CopiedNext(rec, p)
    BY <1>2, <1>4, <2>1, CopiedStays
  <2> QED
    BY <2>2 DEF CopiedNext
<1>5. \A p \in Path : tree[p] # Link => tree'[p] # Link
  BY KindsDiffer DEF Gentle
<1> QED
  BY <1>3, <1>4, <1>5, SourcesStay DEF Saved, SavedNext

\* What goes on keeps its request and what was there at the start.
LEMMA GoingOn ==
  ASSUME NEW o, NEW at, NEW handle, NEW source, NEW todo, GoesOn(o, at, handle, source, todo)
  PROVE  op'[o].req = op[o].req /\ op'[o].start = op[o].start /\ op'[o].at = at /\ op'[o].todo = todo
         /\ op'[o].handle = handle /\ op'[o].source = source
BY DEF GoesOn

LEMMA QuietHas ==
  ASSUME Structure, NEW o \in Op, Quiet(o)
  PROVE  /\ op[o].req \in Request /\ op[o].req.tool \in {"copy", "move"} /\ Takes(op[o].req)
         /\ Active(o) /\ Does(op[o].req.tool, op[o].at) /\ op[o].req.src \in Path /\ op[o].req.dst \in Path
         /\ \A p \in Upwards(op[o].req.dst) : p \in Path
BY ActiveFits, ImageTakes, RequestsAssumed DEF Quiet, Active, Fits, Upwards

LEMMA LookCopies ==
  ASSUME Structure, NEW o \in Op, Quiet(o), CopyFacts(op[o]), Look(o), op'[o].at \in Stage
  PROVE  CopyFactsNext(op'[o])
<1>1. op[o].at = "look" /\ FilesShapes
  BY LookDoes, StructureShapes
<1>2. op[o].req.tool = "copy"
  BY <1>1, QuietHas DEF Does
<1>3. Turns(o, "access", op[o].handle, op[o].todo)
  <2>1. \A answer \in Answer : ~Ends(o, answer)
    BY <1>1, EndsDoes, AnswersAreLast DEF IsOver
  <2>2. ~Fails(o)
    BY <1>1, FailsDoes, AnswersAreLast DEF EndsSame, IsOver
  <2> QED
    BY <1>1, <1>2, <2>1, <2>2, LookDoes DEF Answer, Refusal
<1>4. Gentle(o) /\ op'[o].req = op[o].req /\ op'[o].start = op[o].start /\ op'[o].at = "access"
  BY <1>3, TurnsIsGentle, GoingOn DEF Turns
<1>5. /\ \A p \in Sources(op'[o]) : SeenAfter(p) = op'[o].start[p]
      /\ tree'[op'[o].req.dst] = Link => OntoLink(op'[o])
  BY <1>1, <1>4, OwnGentle, QuietHas DEF CopyFacts
<1> QED
  BY <1>4, <1>5 DEF CopyFactsNext

\* Nothing at the destination, or a link, is nothing below it.
LEMMA AccessCopies ==
  ASSUME Structure, NEW o \in Op, Quiet(o), CopyFacts(op[o]), Access(o), op'[o].at \in Stage
  PROVE  CopyFactsNext(op'[o])
<1> DEFINE r == op[o].req
<1>1. op[o].at = "access" /\ FilesShapes
  BY AccessDoes, StructureShapes
<1>2. tree[r.dst] \in {None, Link} /\ Turns(o, "mkdirs", op[o].handle, op[o].todo)
  <2>1. \A answer \in Answer : ~Ends(o, answer)
    BY <1>1, EndsDoes, AnswersAreLast DEF IsOver
  <2> QED
    BY <1>1, <2>1, AccessDoes DEF Answer, Refusal
<1>3. /\ Gentle(o) /\ op'[o].req = op[o].req /\ op'[o].start = op[o].start /\ op'[o].at = "mkdirs"
      /\ tree' = tree
  BY <1>2, TurnsIsGentle, GoingOn DEF Turns
<1>4. tree[r.dst] = Link => OntoLink(op'[o])
  BY <1>1, <1>3, SourcesStay DEF CopyFacts
<1>5. \A p \in Path : IsPrefix(r.dst, p) => tree[p] = None \/ (p = r.dst /\ tree[p] = Link)
  BY <1>2, QuietHas, StrictMeans, KindsDiffer DEF Structure, Flat
<1>6. \A p \in Sources(op[o]) : Same(op[o], p)
  BY <1>1 DEF CopyFacts
<1>7. \A p \in Sources(op[o]) : ~IsPrefix(r.dst, p)
  BY <1>5, <1>6, SourcesAre, FileIsFile, KindsDiffer DEF Same
<1>8. \A p \in Sources(op'[o]) : SeenAfter(p) = op'[o].start[p] /\ ~IsPrefix(op'[o].req.dst, p)
  BY <1>3, <1>6, <1>7, OwnGentle
<1> QED
  BY <1>2, <1>3, <1>4, <1>5, <1>8, KindsDiffer DEF CopyFactsNext

LEMMA MakeDirsCopies ==
  ASSUME Structure, NEW o \in Op, Quiet(o), CopyFacts(op[o]), MakeDirs(o), op'[o].at \in Stage
  PROVE  CopyFactsNext(op'[o])
<1> DEFINE r == op[o].req
           next == AfterDirs[r.tool]
           todo == IF r.tool = "copy" THEN {r.src} ELSE {}
<1>1. op[o].at = "mkdirs" /\ FilesShapes
  BY MakeDirsDoes, StructureShapes
<1>2. r.tool \in {"copy", "move"} /\ r.dst \in Path /\ Active(o)
  BY QuietHas
<1>3. Gains(o, Parent(r.dst)) \/ Turns(o, next, op[o].handle, todo)
  <2>1. ~Fails(o)
    BY <1>1, FailsDoes, AnswersAreLast DEF EndsSame, IsOver
  <2> QED
    BY <1>1, <1>2, <2>1, MakeDirsDoes
<1>4. Gentle(o)
  BY <1>2, MakeDirsIsGentle
<1>5. /\ \A p \in Sources(op[o]) : Same(op[o], p) /\ ~IsPrefix(r.dst, p)
      /\ \A p \in Path : IsPrefix(r.dst, p) /\ tree[p] = Link => p = r.dst /\ OntoLink(op[o])
      /\ r.tool = "move" => tree[r.dst] \in {None, Link}
  BY <1>1 DEF CopyFacts
<1>6. CASE Gains(o, Parent(r.dst))
  <2>1. op' = op
    BY <1>6 DEF Gains
  <2>2. tree'[r.dst] = tree[r.dst]
    <3>1. PICK q \in Path : IsPrefix(q, Parent(r.dst)) /\ tree' = [tree EXCEPT ![q] = Dir]
      BY <1>6 DEF Gains
    <3>2. q # r.dst
      BY <1>2, <3>1, ParentIsNext, StrictMeans
    <3> QED
      BY <1>1, <1>2, <3>1, <3>2 DEF FilesShapes
  <2>3. \A p \in Sources(op'[o]) : SeenAfter(p) = op'[o].start[p] /\ ~IsPrefix(op'[o].req.dst, p)
    BY <1>4, <1>5, <2>1, OwnGentle
  <2>4. \A p \in Path : IsPrefix(r.dst, p) /\ tree'[p] = Link => p = r.dst /\ OntoLink(op'[o])
    BY <2>1, <1>4, <1>5, KindsDiffer DEF Gentle
  <2> QED
    BY <1>1, <1>5, <2>1, <2>2, <2>3, <2>4 DEF CopyFactsNext
<1>7. CASE Turns(o, next, op[o].handle, todo)
  <2>1. /\ op'[o].req = op[o].req /\ op'[o].start = op[o].start /\ op'[o].at = next /\ op'[o].todo = todo
        /\ tree' = tree
    BY <1>7, GoingOn DEF Turns
  <2>2. \A p \in Sources(op'[o]) : SeenAfter(p) = op'[o].start[p] /\ ~IsPrefix(op'[o].req.dst, p)
    BY <1>4, <1>5, <2>1, OwnGentle
  <2>3. next = IF r.tool = "copy" THEN "copying" ELSE "rename"
    BY <1>2 DEF AfterDirs
  <2>4. next = "copying" => \A p \in Own(op'[o]) : \E q \in op'[o].todo : IsPrefix(q, p)
    BY <2>1, <2>3, SourcesAre
  <2>5. next \in {"copying", "rename"} /\ (next = "copying" => r.tool = "copy")
    BY <1>2, <2>3
  <2>6. \A p \in Path : IsPrefix(r.dst, p) /\ tree'[p] = Link => p = r.dst /\ OntoLink(op'[o])
    BY <1>5, <2>1, SourcesStay
  <2> HIDE DEF next, todo
  <2> QED
    BY <1>5, <2>1, <2>2, <2>4, <2>5, <2>6 DEF CopyFactsNext
<1> QED
  BY <1>3, <1>6, <1>7

LEMMA RenameCopies ==
  ASSUME Structure, NEW o \in Op, Quiet(o), CopyFacts(op[o]), Rename(o), op'[o].at \in Stage
  PROVE  CopyFactsNext(op'[o])
<1> DEFINE r == op[o].req
<1>1. op[o].at = "rename" /\ FilesShapes
  BY RenameDoes, StructureShapes
<1>2. Crosses(r) /\ Turns(o, "copying", op[o].handle, {r.src})
  <2>1. ~Fails(o)
    BY <1>1, FailsDoes, AnswersAreLast DEF EndsSame, IsOver
  <2>2. ~IsOver(o, "ok")
    BY AnswersAreLast DEF IsOver, Answer
  <2> QED
    BY <1>1, <2>1, <2>2, RenameDoes
<1>3. /\ Gentle(o) /\ op'[o].req = op[o].req /\ op'[o].start = op[o].start /\ op'[o].at = "copying"
      /\ op'[o].todo = {r.src} /\ tree' = tree
  <2>1. Gentle(o)
    BY <1>2, TurnsIsGentle
  <2>2. GoesOn(o, "copying", op[o].handle, op[o].source, {r.src}) /\ tree' = tree
    BY <1>2 DEF Turns
  <2> QED
    BY <2>1, <2>2, GoingOn
<1>4. /\ \A p \in Sources(op[o]) : Same(op[o], p) /\ ~IsPrefix(r.dst, p)
      /\ \A p \in Path : IsPrefix(r.dst, p) /\ tree'[p] = Link => p = r.dst /\ OntoLink(op'[o])
  BY <1>1, <1>3, SourcesStay DEF CopyFacts
<1>5. \A p \in Sources(op'[o]) : SeenAfter(p) = op'[o].start[p] /\ ~IsPrefix(op'[o].req.dst, p)
  BY <1>3, <1>4, OwnGentle
<1>6. \A p \in Own(op'[o]) : \E q \in op'[o].todo : IsPrefix(q, p)
  BY <1>3, SourcesAre
<1> QED
  BY <1>2, <1>3, <1>4, <1>5, <1>6 DEF CopyFactsNext

\* A step from copying to copying: what is left to do covers what is not copied.
LEMMA KeepsCopying ==
  ASSUME Structure, NEW o \in Op, Quiet(o), CopyFacts(op[o]), op[o].at = "copying", Gentle(o),
         op'[o].req = op[o].req, op'[o].start = op[o].start, op'[o].at = "copying",
         \A p \in Own(op[o]), q \in op[o].todo :
           IsPrefix(q, p) /\ tree[p] \in Inode => Skips(op[o], p) \/ \E x \in op'[o].todo : IsPrefix(x, p)
  PROVE  CopyFactsNext(op'[o])
<1> DEFINE r == op[o].req
<1>1. /\ \A p \in Sources(op[o]) : Same(op[o], p) /\ ~IsPrefix(r.dst, p)
      /\ \A p \in Path : IsPrefix(r.dst, p) /\ tree[p] = Link => p = r.dst /\ OntoLink(op[o])
      /\ r.tool = "move" => Crosses(r)
      /\ \A p \in Own(op[o]) : Saved(op[o], p) \/ \E q \in op[o].todo : IsPrefix(q, p)
  BY DEF CopyFacts
<1>2. Sources(op'[o]) = Sources(op[o]) /\ Own(op'[o]) = Own(op[o])
  BY SourcesStay
<1>3. \A p \in Sources(op'[o]) : SeenAfter(p) = op'[o].start[p] /\ ~IsPrefix(op'[o].req.dst, p)
  BY <1>1, <1>2, OwnGentle
<1>4. \A p \in Path : IsPrefix(r.dst, p) /\ tree'[p] = Link => p = r.dst /\ OntoLink(op'[o])
  BY <1>1, OwnGentle
<1>5. \A p \in Own(op[o]) : tree[p] \in Inode
  BY <1>1, SourcesAre, FileIsFile DEF Same
<1>6. ASSUME NEW p \in Own(op'[o])
      PROVE  SavedNext(op'[o], p) \/ \E q \in op'[o].todo : IsPrefix(q, p)
  BY <1>1, <1>2, <1>5, OwnGentle, SourcesStay DEF SavedNext
<1> QED
  BY <1>1, <1>3, <1>4, <1>6 DEF CopyFactsNext

\* What is not below an entry that is not a directory is the entry.
LEMMA NotBelow ==
  ASSUME Structure, NEW p \in Path, NEW q \in Path, IsPrefix(q, p), tree[p] \in Inode, tree[q] # Dir
  PROVE  p = q
BY KindsDiffer, StrictMeans DEF Structure, Flat

\* What is below a directory is at or below an entry of it.
LEMMA ChildOnTheWay ==
  ASSUME Structure, NEW p \in Path, NEW q \in Path, IsPrefix(q, p), tree[p] \in Inode, tree[q] = Dir
  PROVE  \E x \in Children(q) : IsPrefix(x, p)
<1>1. IsStrictPrefix(q, p)
  BY KindsDiffer, StrictMeans
<1>2. PICK x \in Path : IsStrictPrefix(q, x) /\ Len(x) = Len(q) + 1 /\ IsPrefix(x, p)
  BY <1>1, NextOnTheWay
<1>3. tree[x] # None
  BY <1>2, KindsDiffer, StrictMeans DEF Structure, Flat
<1> QED
  BY <1>2, <1>3 DEF Children, Below

LEMMA CopiesCopies ==
  ASSUME Structure, NEW o \in Op, Quiet(o), CopyFacts(op[o]), op[o].at = "copying", NEW x \in op[o].todo, Copies(o, x)
  PROVE  CopyFactsNext(op'[o])
<1> DEFINE r == op[o].req
           to == Image(r, x)
<1>1. /\ \A p \in Sources(op[o]) : Same(op[o], p) /\ ~IsPrefix(r.dst, p)
      /\ \A p \in Path : IsPrefix(r.dst, p) /\ tree[p] = Link => p = r.dst /\ OntoLink(op[o])
      /\ r.tool = "move" => Crosses(r)
      /\ \A p \in Own(op[o]) : Saved(op[o], p) \/ \E q \in op[o].todo : IsPrefix(q, p)
  BY DEF CopyFacts
<1>2. PICK i \in Inode : /\ Fresh(i) /\ tree' = [tree EXCEPT ![to] = i] /\ content' = content
                         /\ GoesOn(o, "filling", i, tree[x], op[o].todo \ {x}) /\ op'[o].path = x
                         /\ tree[x] \notin {None, Dir, Link}
  BY DEF Copies
<1>3. /\ op'[o].req = op[o].req /\ op'[o].start = op[o].start /\ op'[o].at = "filling"
      /\ op'[o].todo = op[o].todo \ {x} /\ op'[o].handle = i /\ op'[o].source = tree[x]
  BY <1>2, GoingOn
<1>4. Gentle(o)
  BY CopiesIsGentle
<1>5. x \in Path /\ IsPrefix(r.src, x) /\ to \in Path /\ \A q \in op[o].todo : q \in Path
  BY ActiveFits, QuietHas DEF Fits, Takes
<1>6. Sources(op'[o]) = Sources(op[o]) /\ Own(op'[o]) = Own(op[o])
  BY <1>3, SourcesStay
<1>7. \A p \in Sources(op'[o]) : SeenAfter(p) = op'[o].start[p] /\ ~IsPrefix(op'[o].req.dst, p) /\ tree'[p] = tree[p]
  BY <1>1, <1>3, <1>4, <1>6, OwnGentle
<1>8. \A p \in Path : IsPrefix(r.dst, p) /\ tree'[p] = Link => p = r.dst /\ OntoLink(op'[o])
  BY <1>1, <1>3, <1>4, OwnGentle
<1>9. \A p \in Own(op[o]) : p \in Path /\ tree[p] \in Inode
  BY <1>1, SourcesAre, FileIsFile DEF Same
<1>10. ASSUME NEW p \in Own(op'[o])
       PROVE  SavedNext(op'[o], p) \/ (\E q \in op'[o].todo : IsPrefix(q, p)) \/ p = op'[o].path
  <2>1. CASE Saved(op[o], p)
    BY <1>3, <1>4, <1>6, <2>1, OwnGentle
  <2>2. ASSUME NEW q \in op[o].todo, IsPrefix(q, p)
        PROVE  (\E y \in op'[o].todo : IsPrefix(y, p)) \/ p = x
    BY <1>2, <1>3, <1>5, <1>6, <1>9, <2>2, NotBelow
  <2> QED
    BY <1>1, <1>2, <1>6, <2>1, <2>2
<1>11. tree'[Image(op'[o].req, op'[o].path)] = op'[o].handle
  <2>1. Image(op'[o].req, op'[o].path) = to
    BY <1>2, <1>3
  <2> HIDE DEF to
  <2> QED
    BY <1>2, <1>3, <1>5, <2>1 DEF Structure, FilesShapes
<1>12. content'[op'[o].handle] = <<>>
  BY <1>2, <1>3 DEF Structure, FreeIsEmpty
<1>13. op'[o].path \in Sources(op'[o]) => tree'[op'[o].path] = op'[o].source
  BY <1>2, <1>3, <1>7
<1> HIDE DEF to
<1> QED
  BY <1>1, <1>3, <1>7, <1>8, <1>10, <1>11, <1>12, <1>13 DEF CopyFactsNext

\* Only the source itself is copied to the destination itself.
LEMMA ImageIsDst ==
  ASSUME NEW r, Takes(r), NEW x \in Path, IsPrefix(r.src, x), Image(r, x) = r.dst
  PROVE  x = r.src
<1>1. r.src \in Path /\ IsPrefix(r.src, r.src) /\ Image(r, r.src) \in Path
  BY PathsAreOrdered DEF Takes, Ordered
<1>2. IsPrefix(r.dst, Image(r, r.src)) /\ IsPrefix(Image(r, r.src), Image(r, x))
  BY <1>1 DEF Takes
<1>3. Image(r, r.src) = Image(r, x)
  BY <1>1, <1>2, PathsAreOrdered DEF Takes, Ordered
<1>4. Moved(r.dst, r.src, Image(r, r.src)) = r.src /\ Moved(r.dst, r.src, Image(r, x)) = x
  BY <1>1 DEF Takes
<1> QED
  BY <1>3, <1>4

\* What is taken off the list is copied, skipped, no file, or replaced by its entries.
LEMMA CopyNextCopies ==
  ASSUME Structure, NEW o \in Op, Quiet(o), CopyFacts(op[o]), CopyNext(o), op'[o].at \in Stage
  PROVE  CopyFactsNext(op'[o])
<1> DEFINE r == op[o].req
           left(x) == op[o].todo \ {x}
<1>1. op[o].at = "copying" /\ FilesShapes
  BY CopyNextDoes, StructureShapes
<1>2. ~Fails(o)
  BY <1>1, FailsDoes, AnswersAreLast DEF EndsSame, IsOver
<1>3. PICK x \in op[o].todo :
              \/ Gains(o, Image(op[o].req, x))
              \/ Turns(o, op[o].at, op[o].handle, op[o].todo)
              \/ tree[x] = Dir /\ Turns(o, op[o].at, op[o].handle, (op[o].todo \ {x}) \cup Children(x))
              \/ tree[x] = Link /\ Turns(o, op[o].at, op[o].handle, op[o].todo \ {x})
              \/ /\ tree[Image(op[o].req, x)] = Link /\ tree[x] \notin {None, Dir, Link}
                 /\ Turns(o, op[o].at, op[o].handle, op[o].todo \ {x})
              \/ Copies(o, x)
  BY <1>1, <1>2, CopyNextDoes
<1>4. Gentle(o)
  BY CopyNextIsGentle
<1>5. x \in Path /\ IsPrefix(r.src, x) /\ \A q \in op[o].todo : q \in Path
  BY <1>1, ActiveFits DEF Fits
<1>6. \A p \in Own(op[o]) : p \in Path
  BY SourcesAre
<1>7. CASE Gains(o, Image(op[o].req, x))
  BY <1>1, <1>4, <1>7, KeepsCopying DEF Gains
<1>8. ASSUME NEW todo, Turns(o, op[o].at, op[o].handle, todo),
             \A p \in Own(op[o]), q \in op[o].todo :
               IsPrefix(q, p) /\ tree[p] \in Inode => Skips(op[o], p) \/ \E y \in todo : IsPrefix(y, p)
      PROVE  CopyFactsNext(op'[o])
  <2>1. op'[o].req = op[o].req /\ op'[o].start = op[o].start /\ op'[o].at = "copying" /\ op'[o].todo = todo
    BY <1>1, <1>8, GoingOn DEF Turns
  <2> QED
    BY <1>1, <1>4, <1>8, <2>1, KeepsCopying
<1>9. CASE Turns(o, op[o].at, op[o].handle, op[o].todo)
  BY <1>8, <1>9
<1>10. CASE tree[x] = Dir /\ Turns(o, op[o].at, op[o].handle, (op[o].todo \ {x}) \cup Children(x))
  <2>1. \A p \in Own(op[o]), q \in op[o].todo :
          IsPrefix(q, p) /\ tree[p] \in Inode => \E y \in (op[o].todo \ {x}) \cup Children(x) : IsPrefix(y, p)
    BY <1>5, <1>6, <1>10, ChildOnTheWay
  <2> QED
    BY <1>8, <1>10, <2>1
<1>11. CASE tree[x] = Link /\ Turns(o, op[o].at, op[o].handle, op[o].todo \ {x})
  <2>1. \A p \in Own(op[o]), q \in op[o].todo :
          IsPrefix(q, p) /\ tree[p] \in Inode => \E y \in op[o].todo \ {x} : IsPrefix(y, p)
    BY <1>5, <1>6, <1>11, NotBelow, KindsDiffer
  <2> QED
    BY <1>8, <1>11, <2>1
<1>12. CASE /\ tree[Image(op[o].req, x)] = Link /\ tree[x] \notin {None, Dir, Link}
            /\ Turns(o, op[o].at, op[o].handle, op[o].todo \ {x})
  <2>1. x = r.src /\ OntoLink(op[o]) /\ (r.tool = "move" => Crosses(r))
    <3>1. Takes(r) /\ Image(r, x) \in Path /\ IsPrefix(r.dst, Image(r, x))
      BY <1>5, QuietHas DEF Takes
    <3>2. Image(r, x) = r.dst /\ OntoLink(op[o]) /\ (r.tool = "move" => Crosses(r))
      BY <1>1, <1>12, <3>1 DEF CopyFacts
    <3>3. x = r.src
      BY <1>5, <3>1, <3>2, ImageIsDst
    <3> QED
      BY <3>2, <3>3
  <2>2. \A p \in Own(op[o]), q \in op[o].todo :
          IsPrefix(q, p) /\ tree[p] \in Inode => Skips(op[o], p) \/ \E y \in op[o].todo \ {x} : IsPrefix(y, p)
    <3> SUFFICES ASSUME NEW p \in Own(op[o]), NEW q \in op[o].todo, IsPrefix(q, p), tree[p] \in Inode
                 PROVE  Skips(op[o], p) \/ \E y \in op[o].todo \ {x} : IsPrefix(y, p)
      OBVIOUS
    <3>1. CASE q = x
      <4>1. p = r.src
        BY <1>5, <1>6, <1>12, <2>1, <3>1, NotBelow
      <4> QED
        BY <2>1, <4>1 DEF Skips, OntoLink
    <3>2. CASE q # x
      BY <3>2
    <3> QED
      BY <3>1, <3>2
  <2> QED
    BY <1>8, <1>12, <2>2
<1> QED
  BY <1>1, <1>3, <1>7, <1>9, <1>10, <1>11, <1>12, CopiesCopies

\* A copy that is filled is complete.
LEMMA FillCopies ==
  ASSUME Structure, NEW o \in Op, Quiet(o), CopyFacts(op[o]), Fill(o)
  PROVE  CopyFactsNext(op'[o])
<1> DEFINE r == op[o].req
           i == op[o].handle
           path == op[o].path
           to == Image(r, path)
           texts == [content EXCEPT ![i] = Over(content[op[o].source], content[i])]
<1>1. /\ op[o].at = "filling" /\ GoesOn(o, "copying", NoInode, NoInode, op[o].todo) /\ tree' = tree
      /\ Keeps(texts)
  BY FillDoes, StructureShapes
<1>2. /\ op'[o].req = op[o].req /\ op'[o].start = op[o].start /\ op'[o].at = "copying" /\ op'[o].todo = op[o].todo
  BY <1>1, GoingOn
<1>3. Gentle(o)
  BY FillIsGentle
<1>4. /\ \A p \in Sources(op[o]) : Same(op[o], p) /\ ~IsPrefix(r.dst, p)
      /\ \A p \in Path : IsPrefix(r.dst, p) /\ tree[p] = Link => p = r.dst /\ OntoLink(op[o])
      /\ r.tool = "move" => Crosses(r)
      /\ \A p \in Own(op[o]) : Saved(op[o], p) \/ (\E q \in op[o].todo : IsPrefix(q, p)) \/ p = path
      /\ tree[to] = i /\ content[i] = <<>>
      /\ path \in Sources(op[o]) => tree[path] = op[o].source
  BY <1>1 DEF CopyFacts
<1>5. Sources(op'[o]) = Sources(op[o]) /\ Own(op'[o]) = Own(op[o])
  BY <1>2, SourcesStay
<1>6. \A p \in Sources(op'[o]) : SeenAfter(p) = op'[o].start[p] /\ ~IsPrefix(op'[o].req.dst, p)
  BY <1>2, <1>3, <1>4, <1>5, OwnGentle
<1>7. \A p \in Path : IsPrefix(r.dst, p) /\ tree'[p] = Link => p = r.dst /\ OntoLink(op'[o])
  BY <1>1, <1>2, <1>4, SourcesStay
<1>8. to \in Path /\ i \in Inode
  BY <1>1, FillerHas DEF Target
<1>9. texts[i] = content[op[o].source]
  BY <1>4, <1>8 DEF Structure, FilesShapes, Over
<1> HIDE DEF texts, to
<1>10. content'[i] = content[op[o].source]
  BY <1>1, <1>4, <1>8, <1>9 DEF Keeps
<1>11. ASSUME path \in Own(op[o])
       PROVE  CopiedNext(op'[o], path)
  <2>1. Seen(path) = op[o].start[path] /\ tree[path] = op[o].source /\ tree[path] \in Inode
    BY <1>4, <1>11, SourcesAre, FileIsFile DEF Same
  <2>2. SeenAfter(to) = Seen(path)
    BY <1>1, <1>4, <1>8, <1>10, <2>1 DEF SeenAfter, Seen, IsFile
  <2>3. \A s \in Op : op'[s].at = "filling" => op'[s].handle # tree'[to]
    BY <1>1, <1>2, <1>4 DEF GoesOn, Structure, OneFiller
  <2>4. Image(op'[o].req, path) = to
    BY <1>2 DEF to
  <2> QED
    BY <1>2, <2>1, <2>2, <2>3, <2>4 DEF CopiedNext
<1>12. ASSUME NEW p \in Own(op'[o])
       PROVE  SavedNext(op'[o], p) \/ \E q \in op'[o].todo : IsPrefix(q, p)
  BY <1>2, <1>3, <1>4, <1>5, <1>11, OwnGentle DEF SavedNext
<1> QED
  BY <1>2, <1>4, <1>6, <1>7, <1>12 DEF CopyFactsNext

\* With nothing left to do, everything is copied.
LEMMA CopiedCopies ==
  ASSUME Structure, NEW o \in Op, Quiet(o), CopyFacts(op[o]), Copied(o), op'[o].at \in Stage
  PROVE  CopyFactsNext(op'[o])
<1> DEFINE r == op[o].req
<1>1. op[o].at = "copying" /\ op[o].todo = {} /\ FilesShapes
  BY CopiedDoes, StructureShapes
<1>2. Turns(o, "rm", op[o].handle, op[o].todo)
  <2>1. ~Ends(o, "ok")
    BY <1>1, EndsDoes, AnswersAreLast DEF IsOver, Answer
  <2> QED
    BY <1>1, <2>1, CopiedDoes
<1>3. Gentle(o)
  BY <1>2, TurnsIsGentle
<1>4. op'[o].req = op[o].req /\ op'[o].start = op[o].start /\ op'[o].at = "rm"
  BY <1>2, GoingOn DEF Turns
<1>5. /\ \A p \in Sources(op[o]) : Same(op[o], p) /\ ~IsPrefix(r.dst, p)
      /\ \A p \in Own(op[o]) : Saved(op[o], p)
      /\ r.tool = "move" => Crosses(r)
  BY <1>1 DEF CopyFacts
<1>6. \A p \in Sources(op'[o]) : SeenAfter(p) = op'[o].start[p] /\ ~IsPrefix(op'[o].req.dst, p)
  BY <1>3, <1>4, <1>5, OwnGentle
<1>7. \A p \in Sources(op'[o]) : IsPrefix(r.src, p) => SavedNext(op'[o], p)
  BY <1>3, <1>4, <1>5, OwnGentle, SourcesAre
<1> QED
  BY <1>4, <1>5, <1>6, <1>7 DEF CopyFactsNext

\* What is taken away is what has been copied.
LEMMA RemovingKeeps ==
  ASSUME Structure, NEW o \in Op, Quiet(o), CopyFacts(op[o]), op[o].at = "removing",
         NEW x \in Path, IsPrefix(op[o].req.src, x), Loses(o, x),
         \A s \in Op \ {o} : op'[s] = op[s], op'[o].at # "filling"
  PROVE  \A p \in Sources(op[o]) :
           /\ ~IsPrefix(op[o].req.dst, p)
           /\ IF IsPrefix(op[o].req.src, p) THEN SavedNext(op[o], p) ELSE SeenAfter(p) = op[o].start[p]
<1> DEFINE r == op[o].req
<1>1. r.src \in Path /\ r.dst \in Path /\ Takes(r)
  BY QuietHas
<1>2. /\ \A p \in Path : tree'[p] = IF p = x THEN None ELSE tree[p]
      /\ Keeps(content)
  BY DEF Loses, Structure, FilesShapes
<1>3. ASSUME NEW p \in Path, p # x
      PROVE  tree'[p] = tree[p] /\ SeenAfter(p) = Seen(p)
  <2>1. tree'[p] = tree[p]
    BY <1>2, <1>3
  <2>2. tree[p] \in Inode => content'[tree[p]] = content[tree[p]]
    BY <1>2, <2>1 DEF Keeps
  <2> QED
    BY <2>1, <2>2, SeenStays
<1>4. ASSUME NEW p \in Sources(op[o])
      PROVE  /\ ~IsPrefix(r.dst, p)
             /\ IF IsPrefix(r.src, p) THEN SavedNext(op[o], p) ELSE SeenAfter(p) = op[o].start[p]
  <2>1. p \in Path
    BY SourcesAre
  <2>2. ~IsPrefix(r.dst, p)
    BY DEF CopyFacts
  <2>3. CASE ~IsPrefix(r.src, p)
    <3>1. Same(op[o], p) /\ p # x
      BY <2>3 DEF CopyFacts
    <3> QED
      BY <1>3, <2>1, <2>2, <2>3, <3>1 DEF Same
  <2>4. CASE IsPrefix(r.src, p)
    <3> DEFINE to == Image(r, p)
    <3>8. CASE Skips(op[o], p)
      BY <2>2, <2>4, <3>8 DEF SavedNext
    <3>9. CASE CopiedTo(op[o], p)
      <4>2. to \in Path /\ IsPrefix(r.dst, to)
        BY <1>1, <2>1, <2>4 DEF Takes
      <4>3. to # x
        <5>1. SUFFICES ASSUME IsPrefix(r.dst, x)
                       PROVE  FALSE
          BY <4>2
        <5>2. IsPrefix(r.dst, r.src)
          BY <1>1, <5>1, PathsAreOrdered DEF Takes, Ordered
        <5> QED
          BY <1>1, <2>1, <2>2, <2>4, <5>2, PathsAreOrdered DEF Ordered
      <4> HIDE DEF to
      <4>4. tree'[to] = tree[to] /\ SeenAfter(to) = Seen(to)
        BY <1>3, <4>2, <4>3
      <4>5. Seen(to) = op[o].start[p] /\ \A s \in Op : op[s].at = "filling" => op[s].handle # tree[to]
        BY <3>9 DEF CopiedTo, to
      <4>6. \A s \in Op : op'[s].at = "filling" => op'[s].handle # tree'[to]
        BY <4>4, <4>5
      <4>7. CopiedNext(op[o], p)
        BY <4>4, <4>5, <4>6 DEF CopiedNext, to
      <4> QED
        BY <2>2, <2>4, <4>7 DEF SavedNext
    <3> QED
      BY <2>4, <3>8, <3>9 DEF CopyFacts, Saved
  <2> QED
    BY <2>3, <2>4
<1> QED
  BY <1>4

\* Steps that change no file, after all is copied.
LEMMA StillKeeps ==
  ASSUME Structure, NEW o \in Op, Quiet(o), CopyFacts(op[o]), op[o].at \in {"rm", "removing"},
         NEW at \in {"rm", "removing"}, NEW todo, Turns(o, at, op[o].handle, todo)
  PROVE  CopyFactsNext(op'[o])
<1>1. op'[o].req = op[o].req /\ op'[o].start = op[o].start /\ op'[o].at = at
  BY GoingOn DEF Turns
<1>2. Gentle(o)
  BY TurnsIsGentle
<1>3. Sources(op'[o]) = Sources(op[o]) /\ Own(op'[o]) = Own(op[o])
  BY <1>1, SourcesStay
<1>4. \A p \in Sources(op[o]) : IF IsPrefix(op[o].req.src, p) THEN Saved(op[o], p) ELSE Same(op[o], p)
  BY DEF CopyFacts
<1>7. op'[o].req.tool = "move" => Crosses(op'[o].req)
  BY <1>1 DEF CopyFacts
<1>5. \A p \in Sources(op'[o]) : ~IsPrefix(op'[o].req.dst, p)
  BY <1>1, <1>3 DEF CopyFacts
<1>6. ASSUME NEW p \in Sources(op'[o])
      PROVE  IF IsPrefix(op'[o].req.src, p) THEN SavedNext(op'[o], p) ELSE SeenAfter(p) = op'[o].start[p]
  <2>1. CASE IsPrefix(op[o].req.src, p)
    BY <1>1, <1>2, <1>3, <1>4, <2>1, OwnGentle, SourcesAre
  <2>2. CASE ~IsPrefix(op[o].req.src, p)
    BY <1>1, <1>2, <1>3, <1>4, <2>2, OwnGentle
  <2> QED
    BY <1>1, <2>1, <2>2
<1> QED
  BY <1>1, <1>5, <1>6, <1>7 DEF CopyFactsNext

LEMMA RemovingCopies ==
  ASSUME Structure, NEW o \in Op, Quiet(o), CopyFacts(op[o]), StartRemoving(o) \/ RemoveNext(o), op'[o].at \in Stage
  PROVE  CopyFactsNext(op'[o])
<1> DEFINE r == op[o].req
<1>1. ~Fails(o) /\ ~IsOver(o, "ok") /\ FilesShapes
  BY StructureShapes, FailsDoes, AnswersAreLast DEF EndsSame, IsOver, Answer
<1>2. CASE StartRemoving(o)
  BY <1>1, <1>2, StartRemovingDoes, StillKeeps
<1>3. CASE RemoveNext(o)
  <2>1. op[o].at = "removing"
    BY <1>1, <1>3, RemoveNextDoes
  <2>2. PICK x \in op[o].todo :
          \/ Loses(o, x) /\ GoesOn(o, op[o].at, op[o].handle, op[o].source, op[o].todo \ {x})
          \/ Turns(o, op[o].at, op[o].handle, op[o].todo \cup Children(x))
    BY <1>1, <1>3, RemoveNextDoes
  <2>3. CASE Turns(o, op[o].at, op[o].handle, op[o].todo \cup Children(x))
    BY <2>1, <2>3, StillKeeps
  <2>4. CASE Loses(o, x) /\ GoesOn(o, op[o].at, op[o].handle, op[o].source, op[o].todo \ {x})
    <3>1. x \in Path /\ IsPrefix(r.src, x)
      BY <2>1, ActiveFits DEF Fits
    <3>2. op'[o].req = op[o].req /\ op'[o].start = op[o].start /\ op'[o].at = "removing"
          /\ \A s \in Op \ {o} : op'[s] = op[s]
      BY <2>1, <2>4 DEF GoesOn
    <3>3. Sources(op'[o]) = Sources(op[o]) /\ Own(op'[o]) = Own(op[o])
      BY <3>2, SourcesStay
    <3>4. \A p \in Sources(op[o]) :
            /\ ~IsPrefix(r.dst, p)
            /\ IF IsPrefix(r.src, p) THEN SavedNext(op[o], p) ELSE SeenAfter(p) = op[o].start[p]
      BY <2>1, <2>4, <3>1, <3>2, RemovingKeeps
    <3>5. \A p : SavedNext(op[o], p) <=> SavedNext(op'[o], p)
      BY <3>2 DEF SavedNext, CopiedNext, Skips
    <3>6. op'[o].req.tool = "move" => Crosses(op'[o].req)
      BY <2>1, <3>2 DEF CopyFacts
    <3> QED
      BY <3>2, <3>3, <3>4, <3>5, <3>6 DEF CopyFactsNext
  <2> QED
    BY <2>2, <2>3, <2>4
<1> QED
  BY <1>2, <1>3

\* A copy's facts outlive its own steps.
LEMMA OwnStepCopies ==
  ASSUME Structure, NEW o \in Op, Quiet(o), CopyFacts(op[o]), Acts(o), op'[o].at \in Stage
  PROVE  CopyFactsNext(op'[o])
<1>1. Does(op[o].req.tool, op[o].at) /\ op[o].req.tool \in {"copy", "move"} /\ FilesShapes
  BY QuietHas, StructureShapes
<1>2. ~OpenToWrite(o) /\ ~Write(o) /\ ~OpenToEdit(o) /\ ~ReadToEdit(o) /\ ~Truncate(o) /\ ~Put(o)
  BY <1>1 DEF Does, OpenToWrite, Write, OpenToEdit, ReadToEdit, Truncate, Put
<1>3. ~FillFails(o) /\ ~Breaks(o) /\ ~Dies(o)
  <2>1. \A answer \in Answer : ~IsOver(o, answer)
    BY AnswersAreLast DEF IsOver
  <2>2. ~Fails(o)
    BY <1>1, <2>1, FailsDoes DEF EndsSame
  <2>3. ~Ends(o, "lost")
    BY <1>1, <2>1, EndsDoes DEF Answer
  <2> QED
    BY <1>1, <2>1, <2>2, <2>3, FillFailsDoes DEF Breaks, Dies
<1> QED
  BY <1>2, <1>3, LookCopies, AccessCopies, MakeDirsCopies, RenameCopies, CopyNextCopies, FillCopies, CopiedCopies,
     RemovingCopies DEF Acts, Runs

\* Copying outlives the steps of an operation.
LEMMA CopyingActs ==
  ASSUME Structure, Company, Copying, NEW t \in Op, Acts(t)
  PROVE  Copying'
<1> SUFFICES ASSUME NEW o \in Op, (Quiet(o))'
             PROVE  (CopyFacts(op[o]))'
  BY DEF Copying
<1> SUFFICES CopyFactsNext(op'[o])
  BY ApartStays, CopyFactsPrimed DEF Acts
<1>1. Active(o)' /\ Active(t)
  BY RunsAreActive DEF Quiet, Acts
<1>2. Active(o) /\ op'[o].req = op[o].req /\ op'[o].company = op[o].company
  BY <1>1, ActsKeepRequests
<1>3. Quiet(o) /\ CopyFacts(op[o])
  BY <1>2 DEF Quiet, Copying
<1>4. CASE o = t
  BY <1>1, <1>3, <1>4, OwnStepCopies DEF Active
<1>5. CASE o # t
  <2>1. op'[o] = op[o]
    BY <1>5, RunsContinue DEF Acts
  <2>2. Spares(op[t].req, op[o].req) /\ Placed(t) /\ op[o].req.tool = "copy"
    BY <1>1, <1>3, <1>5 DEF Company, Quiet, Alone
  <2>3. Gentle(t)
    BY <2>2, SparingIsGentle DEF Acts
  <2> QED
    BY <1>2, <1>3, <1>5, <2>1, <2>2, <2>3, OtherKeepsCopy
<1> QED
  BY <1>4, <1>5

\* Steps that change nothing in the tree and no record but that of t, which fills nothing.
LEMMA CopyFactsSame ==
  ASSUME Structure, NEW o \in Op, Quiet(o), CopyFacts(op[o]), tree' = tree,
         \A i \in Inode : (\E p \in Path : tree[p] = i) \/ (\E s \in Op : op[s].handle = i) => content'[i] = content[i],
         \A s \in Op : op'[s].at = "filling" => op[s].at = "filling" /\ op'[s].handle = op[s].handle,
         op'[o].at = op[o].at, op'[o].req = op[o].req, op'[o].start = op[o].start, op'[o].todo = op[o].todo,
         op'[o].path = op[o].path, op'[o].handle = op[o].handle, op'[o].source = op[o].source
  PROVE  CopyFactsNext(op'[o])
<1>1. /\ Sources(op'[o]) = Sources(op[o]) /\ Own(op'[o]) = Own(op[o])
      /\ OntoLink(op'[o]) <=> OntoLink(op[o])
  BY SourcesStay
<1>2. \A p \in Path : SeenAfter(p) = Seen(p)
  BY SeenStays
<1>3. \A p \in Sources(op[o]) : Same(op[o], p) => SeenAfter(p) = op'[o].start[p]
  BY <1>2, SourcesAre DEF Same
<1>4. \A p \in Own(op[o]) : Saved(op[o], p) => SavedNext(op'[o], p)
  <2> SUFFICES ASSUME NEW p \in Own(op[o]), Saved(op[o], p)
               PROVE  SavedNext(op'[o], p)
    OBVIOUS
  <2> DEFINE to == Image(op[o].req, p)
  <2>1. to \in Path
    BY QuietHas, SourcesAre DEF Takes
  <2> QED
    BY <1>2, <2>1, SourcesStay DEF Saved, SavedNext, CopiedTo, CopiedNext
<1>5. op[o].at = "filling" => op[o].handle \in Inode
  BY FillerHas
<1>6. op[o].at = "filling" => content'[op[o].handle] = <<>>
  BY <1>5 DEF CopyFacts
<1>7. \A p \in Sources(op[o]) : IsPrefix(op[o].req.src, p) => p \in Own(op[o])
  BY SourcesAre
<1> QED
  BY <1>1, <1>3, <1>4, <1>6, <1>7 DEF CopyFacts, CopyFactsNext

\* Copying outlives a beginning.
LEMMA CopyingBegin ==
  ASSUME Structure, Copying, NEW t \in Op, NEW r \in Request, Begin(t, r)
  PROVE  Copying'
<1> SUFFICES ASSUME NEW o \in Op, (Quiet(o))'
             PROVE  (CopyFacts(op[o]))'
  BY DEF Copying
<1> SUFFICES CopyFactsNext(op'[o])
  BY ApartStays, CopyFactsPrimed
<1>1. Ends(t, "rejected") \/ Joins(t, r)
  BY BeginDoes, StructureShapes
<1>2. CASE Ends(t, "rejected")
  <2>1. tree' = tree /\ IsOver(t, "rejected") /\ Keeps(content)
    BY <1>2, EndsDoes, StructureShapes DEF Answer, Refusal
  <2>2. o # t /\ op'[o] = op[o]
    BY <2>1 DEF IsOver, Quiet, Active, Stage
  <2>3. ~Active(t)
    BY BeginDoes, StructureShapes
  <2>4. op[t].handle = NoInode
    BY <2>3, RestHoldsNothing
  <2>5. \A i \in Inode : (\E p \in Path : tree[p] = i) \/ (\E s \in Op : op[s].handle = i) => content'[i] = content[i]
    <3> SUFFICES ASSUME NEW i \in Inode, (\E p \in Path : tree[p] = i) \/ (\E s \in Op : op[s].handle = i)
                 PROVE  content'[i] = content[i]
      OBVIOUS
    <3>1. (\E p \in Path : tree'[p] = i) \/ (\E s \in Op : i \in UsedBy(op'[s]))
      BY <2>1, <2>4, KindsDiffer DEF UsedBy, IsOver
    <3> QED
      BY <2>1, <3>1 DEF Keeps
  <2>6. \A s \in Op : op'[s].at = "filling" => op[s].at = "filling" /\ op'[s].handle = op[s].handle
    BY <2>1 DEF IsOver
  <2>7. Quiet(o) /\ CopyFacts(op[o])
    BY <2>2 DEF Quiet, Active, Copying
  <2> QED
    BY <2>1, <2>2, <2>5, <2>6, <2>7, CopyFactsSame
<1>3. CASE Joins(t, r)
  <2>1. tree' = tree /\ content' = content
    BY <1>3 DEF Joins
  <2>2. op'[t].at \in {"mkdirs", "open", "look", "access"} /\ op'[t].at = FirstStage(r.tool) /\ op'[t].req = r
    BY <1>3, RequestsAssumed DEF Joins, FirstStage
  <2>3. CASE o # t
    <3>1. /\ op'[o].at = op[o].at /\ op'[o].req = op[o].req /\ op'[o].start = op[o].start /\ op'[o].todo = op[o].todo
          /\ op'[o].path = op[o].path /\ op'[o].handle = op[o].handle /\ op'[o].source = op[o].source
      BY <1>3, <2>3 DEF Joins
    <3>2. Active(o)
      BY <3>1 DEF Quiet, Active
    <3>3. op'[o].company = IF op[o].company # "any" /\ Spares(r, op[o].req) THEN "peaceful" ELSE "any"
      BY <1>3, <2>3, <3>2 DEF Joins
    <3>4. Quiet(o) /\ CopyFacts(op[o])
      BY <3>1, <3>2, <3>3 DEF Quiet, Copying
    <3>5. \A s \in Op : op'[s].at = "filling" => op[s].at = "filling" /\ op'[s].handle = op[s].handle
      BY <1>3, <2>2 DEF Joins
    <3> QED
      BY <2>1, <3>1, <3>4, <3>5, CopyFactsSame
  <2>4. CASE o = t
    <3>1. op'[o].at \in {"look", "access"}
      BY <2>2, <2>4 DEF Quiet, FirstStage
    <3>2. \A p \in Path : op'[o].start[p] = SeenAfter(p)
      <4>1. op'[o].start = [p \in Path |-> Seen(p)]
        BY <1>3, <2>4 DEF Joins
      <4>2. \A p \in Path : SeenAfter(p) = Seen(p)
        BY <2>1, SeenStays
      <4> QED
        BY <4>1, <4>2
    <3>3. ASSUME tree'[r.dst] = Link
          PROVE  OntoLink(op'[o])
      <4>1. r.dst \in Path /\ op'[o].req = r
        BY <2>2, <2>4, RequestsAssumed
      <4>2. SeenAfter(r.dst) = NoFile(Link)
        BY <3>3, KindsDiffer DEF SeenAfter
      <4>3. NoFile(Link).is = Link
        BY DEF NoFile
      <4>4. op'[o].start[r.dst].is = Link
        BY <3>2, <4>1, <4>2, <4>3
      <4> QED
        BY <4>1, <4>4 DEF OntoLink
    <3> QED
      BY <2>2, <2>4, <3>1, <3>2, <3>3, SourcesAre DEF CopyFactsNext
  <2> QED
    BY <2>3, <2>4
<1> QED
  BY <1>1, <1>2, <1>3

-----------------------------------------------------------------------------
(* An operation that is alone *)

LoneNext(o) ==
  LET rec == op'[o]
      r == rec.req
      text == rec.start[r.dst].text
  IN /\ rec.at \in {"look", "access", "read"} \/ (rec.at = "open" /\ r.tool = "edit") =>
          \A p \in Path : SeenAfter(p) = rec.start[p]
     /\ rec.at \in {"mkdirs", "open"} /\ r.tool = "write" => SeenAfter(r.dst) = rec.start[r.dst]
     /\ rec.at \in {"write", "read", "truncate", "put"} => rec.handle = tree'[r.dst]
     /\ rec.at = "write" => content'[rec.handle] = IF r.option = "append" THEN text ELSE <<>>
     /\ rec.at \in {"truncate", "put"} => rec.draft = Edited(o, text, r.finds)
     /\ rec.at = "put" => content'[rec.handle] = <<>>

\* The facts of an operation alone, in the next state.
LEMMA LonePrimed == \A o \in Op : (LoneFacts(o))' <=> LoneNext(o)
BY DEF LoneFacts, LoneNext, Same, Seen, SeenAfter, IsFile

\* The stages of which nothing is remembered.
LEMMA NothingLone ==
  ASSUME NEW o \in Op,
         \/ op'[o].at \in {"copying", "filling", "rename", "rm", "removing"}
         \/ op'[o].at = "mkdirs" /\ op'[o].req.tool # "write"
  PROVE  LoneNext(o)
BY DEF LoneNext

LEMMA MakeDirsLone ==
  ASSUME Structure, NEW o \in Op, Active(o), LoneFacts(o), MakeDirs(o), op'[o].at \in Stage
  PROVE  LoneNext(o)
<1> DEFINE r == op[o].req
           dir == IF r.tool = "create" THEN r.dst ELSE Parent(r.dst)
           next == AfterDirs[r.tool]
           todo == IF r.tool = "copy" THEN {r.src} ELSE {}
<1>1. op[o].at = "mkdirs" /\ FilesShapes /\ r.dst \in Path
  BY MakeDirsDoes, StructureShapes, SrcIsPath
<1>2. r.tool \in {"write", "create", "copy", "move"}
  BY <1>1, ActiveFits DEF Active, Fits, Does
<1>3. Gains(o, dir) \/ (r.tool # "create" /\ Turns(o, next, op[o].handle, todo))
  <2>1. ~Fails(o)
    BY <1>1, FailsDoes, AnswersAreLast DEF EndsSame, IsOver
  <2>2. ~Ends(o, "ok")
    BY <1>1, EndsDoes, AnswersAreLast DEF IsOver, Answer
  <2> QED
    BY <1>1, <2>1, <2>2, MakeDirsDoes
<1>4. CASE r.tool = "write" /\ Gains(o, dir)
  <2>1. op' = op /\ content' = content
        /\ \E q \in Path : IsPrefix(q, Parent(r.dst)) /\ tree' = [tree EXCEPT ![q] = Dir]
    BY <1>4 DEF Gains
  <2>5. PICK q \in Path : IsPrefix(q, Parent(r.dst)) /\ tree' = [tree EXCEPT ![q] = Dir]
    BY <2>1
  <2>2. q # r.dst
    BY <1>1, <2>5, ParentIsNext, StrictMeans
  <2>3. tree'[r.dst] = tree[r.dst]
    BY <1>1, <2>2, <2>5 DEF FilesShapes
  <2>4. SeenAfter(r.dst) = Seen(r.dst)
    BY <1>1, <2>1, <2>3, SeenStays
  <2> QED
    BY <1>1, <1>4, <2>1, <2>4 DEF LoneFacts, LoneNext, Same
<1>5. CASE r.tool = "write" /\ Turns(o, next, op[o].handle, todo)
  <2>1. next = "open"
    BY <1>5 DEF AfterDirs
  <2>2. op'[o].req = op[o].req /\ op'[o].start = op[o].start /\ op'[o].at = "open"
    BY <1>5, <2>1, GoingOn DEF Turns
  <2>3. SeenAfter(r.dst) = Seen(r.dst)
    BY <1>1, <1>5, SeenStays DEF Turns
  <2> QED
    BY <1>1, <1>5, <2>2, <2>3 DEF LoneFacts, LoneNext, Same
<1>6. CASE r.tool # "write" /\ Gains(o, dir)
  BY <1>1, <1>6, NothingLone DEF Gains
<1>7. CASE r.tool \in {"copy", "move"} /\ Turns(o, next, op[o].handle, todo)
  <2>1. next \in {"copying", "rename"}
    BY <1>7 DEF AfterDirs
  <2> HIDE DEF next, todo
  <2>2. op'[o].at = next
    BY <1>7, GoingOn DEF Turns
  <2> QED
    BY <2>1, <2>2, NothingLone
<1> QED
  BY <1>2, <1>3, <1>4, <1>5, <1>6, <1>7

LEMMA OpenToWriteLone ==
  ASSUME Structure, NEW o \in Op, Active(o), LoneFacts(o), OpenToWrite(o), op'[o].at \in Stage
  PROVE  LoneNext(o)
<1> DEFINE r == op[o].req
           p == r.dst
<1>1. op[o].at = "open" /\ r.tool = "write" /\ FilesShapes /\ p \in Path
  BY OpenToWriteDoes, StructureShapes, SrcIsPath
<1>2. ~Fails(o)
  BY <1>1, FailsDoes, AnswersAreLast DEF EndsSame, IsOver
<1>3. Seen(p) = op[o].start[p]
  BY <1>1 DEF LoneFacts, Same
<1>4. CASE /\ IsFile(p) /\ tree' = tree
           /\ GoesOn(o, "write", tree[p], op[o].source, op[o].todo)
           /\ content' = IF r.option = "append" THEN content ELSE [content EXCEPT ![tree[p]] = <<>>]
  <2>1. op'[o].req = op[o].req /\ op'[o].start = op[o].start /\ op'[o].at = "write" /\ op'[o].handle = tree[p]
    BY <1>4, GoingOn
  <2>2. content[tree[p]] = op[o].start[p].text
    BY <1>3, <1>4 DEF Seen, FileWith
  <2>3. content'[tree[p]] = IF r.option = "append" THEN op[o].start[p].text ELSE <<>>
    BY <1>1, <1>4, <2>2 DEF IsFile, FilesShapes
  <2> QED
    BY <1>4, <2>1, <2>3 DEF LoneNext
<1>5. CASE \E i \in Inode : /\ GoesOn(o, "write", i, op[o].source, op[o].todo)
                            /\ Fresh(i) /\ ~IsFile(p) /\ tree' = [tree EXCEPT ![p] = i] /\ content' = content
  <2>1. PICK i \in Inode : /\ GoesOn(o, "write", i, op[o].source, op[o].todo)
                           /\ Fresh(i) /\ ~IsFile(p) /\ tree' = [tree EXCEPT ![p] = i] /\ content' = content
    BY <1>5
  <2>2. op'[o].req = op[o].req /\ op'[o].start = op[o].start /\ op'[o].at = "write" /\ op'[o].handle = i
    BY <2>1, GoingOn
  <2>3. op[o].start[p].text = <<>>
    BY <1>3, <2>1 DEF Seen, NoFile
  <2>4. tree'[p] = i
    BY <1>1, <2>1 DEF FilesShapes
  <2>5. content'[i] = <<>>
    BY <2>1 DEF Structure, FreeIsEmpty
  <2> QED
    BY <2>2, <2>3, <2>4, <2>5 DEF LoneNext
<1> QED
  BY <1>1, <1>2, <1>4, <1>5, OpenToWriteDoes

LEMMA OpenToEditLone ==
  ASSUME Structure, NEW o \in Op, Active(o), LoneFacts(o), OpenToEdit(o), op'[o].at \in Stage
  PROVE  LoneNext(o)
<1> DEFINE r == op[o].req
<1>1. op[o].at = "open" /\ r.tool = "edit" /\ FilesShapes /\ r.dst \in Path
  BY OpenToEditDoes, StructureShapes, SrcIsPath
<1>2. ~Fails(o)
  BY <1>1, FailsDoes, AnswersAreLast DEF EndsSame, IsOver
<1>3. Turns(o, "read", tree[r.dst], op[o].todo)
  BY <1>1, <1>2, OpenToEditDoes
<1>4. op'[o].req = op[o].req /\ op'[o].start = op[o].start /\ op'[o].at = "read" /\ op'[o].handle = tree[r.dst]
  BY <1>3, GoingOn DEF Turns
<1>5. \A p \in Path : SeenAfter(p) = op[o].start[p]
  BY <1>1, <1>3, SeenStays DEF Turns, LoneFacts, Same
<1> QED
  BY <1>3, <1>4, <1>5 DEF LoneNext, Turns

LEMMA ReadToEditLone ==
  ASSUME Structure, NEW o \in Op, Active(o), LoneFacts(o), ReadToEdit(o), op'[o].at \in Stage
  PROVE  LoneNext(o)
<1> DEFINE r == op[o].req
           text == op[o].start[r.dst].text
<1>1. op[o].at = "read" /\ FilesShapes /\ r.dst \in Path /\ op[o].handle \in Inode
  BY ReadToEditDoes, StructureShapes, SrcIsPath, ActiveFits DEF Fits, Holding
<1>2. \A answer \in Answer : ~Ends(o, answer)
  BY <1>1, EndsDoes, AnswersAreLast DEF IsOver
<1>3. /\ Turns(o, "truncate", op[o].handle, op[o].todo)
      /\ op'[o].draft = Edited(o, content[op[o].handle], r.finds)
  BY <1>1, <1>2, ReadToEditDoes DEF Answer, Refusal
<1>4. /\ op'[o].req = op[o].req /\ op'[o].start = op[o].start /\ op'[o].at = "truncate"
      /\ op'[o].handle = op[o].handle /\ tree' = tree
  BY <1>3, GoingOn DEF Turns
<1>5. op[o].handle = tree[r.dst] /\ Seen(r.dst) = op[o].start[r.dst]
  BY <1>1 DEF LoneFacts, Same
<1>6. content[op[o].handle] = text
  BY <1>1, <1>5 DEF Seen, IsFile, FileWith
<1>7. op'[o].draft = Edited(o, text, r.finds)
  BY <1>3, <1>6
<1> QED
  BY <1>4, <1>5, <1>7 DEF LoneNext

LEMMA TruncateLone ==
  ASSUME Structure, NEW o \in Op, Active(o), LoneFacts(o), Truncate(o)
  PROVE  LoneNext(o)
<1>1. /\ op[o].at = "truncate" /\ GoesOn(o, "put", op[o].handle, op[o].source, op[o].todo)
      /\ op'[o].draft = op[o].draft
      /\ tree' = tree /\ content' = [content EXCEPT ![op[o].handle] = <<>>]
  BY TruncateDoes, StructureShapes
<1>2. op[o].handle \in Inode /\ FilesShapes
  BY <1>1, ActiveFits, StructureShapes DEF Fits, Holding
<1>3. op'[o].req = op[o].req /\ op'[o].start = op[o].start /\ op'[o].at = "put" /\ op'[o].handle = op[o].handle
  BY <1>1, GoingOn
<1>4. content'[op[o].handle] = <<>>
  BY <1>1, <1>2 DEF FilesShapes
<1>5. op[o].handle = tree[op[o].req.dst] /\ op[o].draft = Edited(o, op[o].start[op[o].req.dst].text, op[o].req.finds)
  BY <1>1 DEF LoneFacts
<1> QED
  BY <1>1, <1>3, <1>4, <1>5 DEF LoneNext

\* They outlive its own steps, and while it is alone no other takes any.
LEMMA OwnStepLone ==
  ASSUME Structure, NEW o \in Op, Active(o), LoneFacts(o), Acts(o), op'[o].at \in Stage
  PROVE  LoneNext(o)
<1>1. Does(op[o].req.tool, op[o].at) /\ FilesShapes
  BY ActiveFits, StructureShapes DEF Active, Fits
<1>2. ~Fails(o) /\ \A answer \in Answer : ~Ends(o, answer) /\ ~IsOver(o, answer)
  <2>1. \A answer \in Answer : ~IsOver(o, answer)
    BY AnswersAreLast DEF IsOver
  <2>2. ~Fails(o)
    BY <1>1, <2>1, FailsDoes DEF EndsSame
  <2>3. \A answer \in Answer : ~Ends(o, answer)
    BY <1>1, <2>1, EndsDoes
  <2> QED
    BY <2>1, <2>2, <2>3
<1>3. ~Write(o) /\ ~Put(o) /\ ~FillFails(o) /\ ~Breaks(o) /\ ~Dies(o)
  BY <1>1, <1>2, WriteDoes, PutDoes, FillFailsDoes DEF Breaks, Dies, Answer
<1>4. ASSUME NEW at, NEW handle, NEW todo, Turns(o, at, handle, todo)
      PROVE  /\ op'[o].at = at /\ op'[o].req = op[o].req
             /\ (\A p \in Path : Same(op[o], p)) => \A p \in Path : SeenAfter(p) = op'[o].start[p]
  BY <1>4, GoingOn, SeenStays DEF Turns, Same
<1>5. CASE Look(o)
  <2>1. Turns(o, "access", op[o].handle, op[o].todo) \/ Turns(o, "rm", op[o].handle, op[o].todo)
    BY <1>1, <1>2, <1>5, LookDoes DEF Answer, Refusal
  <2>2. op[o].at = "look"
    BY <1>1, <1>5, LookDoes
  <2>3. CASE Turns(o, "access", op[o].handle, op[o].todo)
    BY <1>4, <2>2, <2>3 DEF LoneFacts, LoneNext
  <2>4. CASE Turns(o, "rm", op[o].handle, op[o].todo)
    BY <1>4, <2>4, NothingLone
  <2> QED
    BY <2>1, <2>3, <2>4
<1>6. CASE Access(o)
  <2>1. Turns(o, "mkdirs", op[o].handle, op[o].todo) /\ op[o].at = "access"
    BY <1>1, <1>2, <1>6, AccessDoes DEF Answer, Refusal
  <2>2. op'[o].at = "mkdirs" /\ op'[o].req.tool # "write"
    BY <1>1, <1>4, <2>1 DEF Does
  <2> QED
    BY <2>2, NothingLone
<1>7. CASE StartRemoving(o)
  BY <1>1, <1>2, <1>4, <1>7, StartRemovingDoes, NothingLone
<1>8. CASE RemoveNext(o)
  <2>1. op'[o].at = "removing"
    BY <1>1, <1>2, <1>8, RemoveNextDoes DEF Turns, GoesOn, Answer
  <2> QED
    BY <2>1, NothingLone
<1>9. CASE CopyNext(o)
  <2>1. op'[o].at \in {"copying", "filling"}
    BY <1>1, <1>2, <1>9, CopyNextDoes DEF Turns, GoesOn, Gains, Copies
  <2> QED
    BY <2>1, NothingLone
<1>10. CASE Fill(o)
  <2>1. op'[o].at = "copying"
    BY <1>1, <1>10, FillDoes DEF GoesOn
  <2> QED
    BY <2>1, NothingLone
<1>11. CASE Copied(o)
  BY <1>1, <1>2, <1>4, <1>11, CopiedDoes, NothingLone DEF Answer
<1>12. CASE Rename(o)
  BY <1>1, <1>2, <1>4, <1>12, RenameDoes, NothingLone DEF Answer
<1> QED
  BY <1>3, <1>5, <1>6, <1>7, <1>8, <1>9, <1>10, <1>11, <1>12, MakeDirsLone, OpenToWriteLone, OpenToEditLone,
     ReadToEditLone, TruncateLone DEF Acts, Runs

LEMMA LoneActs ==
  ASSUME Structure, Company, Lone, NEW t \in Op, Acts(t)
  PROVE  Lone'
<1> SUFFICES ASSUME NEW o \in Op, (Alone(o))'
             PROVE  (LoneFacts(o))'
  BY DEF Lone
<1> SUFFICES LoneNext(o)
  BY LonePrimed
<1>1. Active(o)' /\ Active(t) /\ op'[o].company = "none"
  BY RunsAreActive DEF Alone, Acts
<1>2. Active(o) /\ Alone(o)
  BY <1>1, ActsKeepRequests DEF Alone
<1>3. o = t
  BY <1>1, <1>2 DEF Company
<1> QED
  BY <1>1, <1>2, <1>3, OwnStepLone DEF Lone, Active

LEMMA LoneBegin ==
  ASSUME Structure, Lone, NEW t \in Op, NEW r \in Request, Begin(t, r)
  PROVE  Lone'
<1> SUFFICES ASSUME NEW o \in Op, (Alone(o))'
             PROVE  (LoneFacts(o))'
  BY DEF Lone
<1> SUFFICES LoneNext(o)
  BY LonePrimed
<1>1. Ends(t, "rejected") \/ Joins(t, r)
  BY BeginDoes, StructureShapes
<1>2. CASE Ends(t, "rejected")
  <2>1. tree' = tree /\ IsOver(t, "rejected") /\ Keeps(content)
    BY <1>2, EndsDoes, StructureShapes DEF Answer, Refusal
  <2>2. o # t /\ op'[o] = op[o]
    BY <2>1 DEF IsOver, Alone, Active, Stage
  <2>3. LoneFacts(o) /\ Active(o) /\ op[o].req.dst \in Path
    BY <2>2, SrcIsPath DEF Lone, Alone, Active
  <2>4. \A p \in Path : SeenAfter(p) = Seen(p)
    BY <2>1, SeenStays DEF Keeps
  <2>5. op[o].at \in {"write", "put"} => content'[op[o].handle] = content[op[o].handle]
    <3>1. op[o].at \in {"write", "put"} => op[o].handle \in Inode
      BY ActiveFits DEF Fits, Holding
    <3> QED
      BY <2>1, <2>2, <3>1 DEF Keeps, UsedBy
  <2> QED
    BY <2>1, <2>2, <2>3, <2>4, <2>5 DEF LoneFacts, LoneNext, Same
<1>3. CASE Joins(t, r)
  <2>1. o = t
    <3>1. o # t /\ (Active(o))' => op'[o].company # "none"
      BY <1>3 DEF Joins, Active
    <3> QED
      BY <3>1 DEF Alone
  <2>2. op'[t].at \in {"mkdirs", "open", "look", "access"} /\ op'[t].req = r /\ r.dst \in Path
    BY <1>3, RequestsAssumed DEF Joins, FirstStage
  <2>3. \A p \in Path : op'[t].start[p] = SeenAfter(p)
    <3>1. op'[t].start = [p \in Path |-> Seen(p)] /\ UNCHANGED <<tree, content>>
      BY <1>3 DEF Joins
    <3>2. \A p \in Path : SeenAfter(p) = Seen(p)
      BY <3>1, SeenStays
    <3> QED
      BY <3>1, <3>2
  <2> QED
    BY <2>1, <2>2, <2>3 DEF LoneNext
<1> QED
  BY <1>1, <1>2, <1>3

-----------------------------------------------------------------------------
(* The inductive invariant *)

LEMMA FilesInvInit == FilesInit => FilesInv
<1> SUFFICES ASSUME FilesInit
             PROVE  FilesInv
  OBVIOUS
<1>1. Structure
  BY InitStructure
<1>2. op = [o \in Op |-> Idle] /\ Idle.at = "idle"
  BY DEF FilesInit, Idle
<1>3. \A o \in Op : ~Active(o)
  BY <1>2 DEF Active, Stage
<1> QED
  BY <1>1, <1>3 DEF FilesInv, Company, Copying, Lone, Quiet, Alone

\* The invariant is inductive.
LEMMA FilesInvStep == FilesInv /\ [FilesNext]_fileVars => FilesInv'
<1> SUFFICES ASSUME FilesInv, [FilesNext]_fileVars
             PROVE  FilesInv'
  OBVIOUS
<1>1. Structure /\ Company /\ Copying /\ Lone /\ Structure'
  BY StructureStep DEF FilesInv
<1>2. CASE UNCHANGED fileVars
  <2>1. Company'
    BY <1>1, <1>2, CompanySame DEF fileVars
  <2>2. Copying'
    <3> SUFFICES ASSUME NEW o \in Op, (Quiet(o))'
                 PROVE  (CopyFacts(op[o]))'
      BY DEF Copying
    <3>1. Quiet(o) /\ CopyFacts(op[o])
      BY <1>1, <1>2 DEF fileVars, Quiet, Active, Copying
    <3> QED
      BY <1>1, <1>2, <3>1, CopyFactsSame, CopyFactsPrimed DEF fileVars
  <2>3. Lone'
    BY <1>1, <1>2 DEF fileVars, Lone, LoneFacts, Alone, Active, Same, Seen, IsFile
  <2> QED
    BY <1>1, <2>1, <2>2, <2>3 DEF FilesInv
<1>3. CASE FilesNext
  <2>1. PICK o \in Op : (\E r \in Request : Begin(o, r)) \/ Acts(o)
    BY <1>3 DEF FilesNext, Acts
  <2>2. CASE Acts(o)
    BY <1>1, <2>2, CompanyActs, CopyingActs, LoneActs DEF FilesInv
  <2>3. CASE \E r \in Request : Begin(o, r)
    BY <1>1, <2>3, CompanyBegin, CopyingBegin, LoneBegin DEF FilesInv
  <2> QED
    BY <2>1, <2>2, <2>3
<1> QED
  BY <1>2, <1>3

-----------------------------------------------------------------------------
(* How operations end *)

\* No file is changed.
Still == tree' = tree /\ Keeps(content)

LEMMA StillSeen ==
  ASSUME Still
  PROVE  \A p \in Path : SeenAfter(p) = Seen(p)
BY SeenStays DEF Still, Keeps

\* How an operation can end, and with what answer.
LEMMA EndingCases ==
  ASSUME Structure, NEW o \in Op, Acts(o), op'[o].at \notin Stage
  PROVE  LET r == op[o].req
         IN \/ Still /\ op'[o].at \in {Failure(o), "lost"}
            \/ Still /\ op'[o].at \in Refusal /\ op[o].at \in {"look", "access", "read"}
            \/ Still /\ op'[o].at = "ok" /\ (r.tool = "create" \/ (r.tool = "edit" /\ r.option = "dry"))
            \/ Still /\ op'[o].at = "ok" /\ r.tool = "copy" /\ op[o].at = "copying" /\ op[o].todo = {}
            \/ FillFails(o) /\ op'[o].at = Failure(o)
            \/ Write(o) /\ op'[o].at = "ok"
            \/ Put(o) /\ op'[o].at = "ok"
            \/ /\ op'[o].at = "ok" /\ op[o].at = "removing" /\ Loses(o, r.src)
               /\ \A s \in Op \ {o} : op'[s] = op[s]
            \/ /\ op'[o].at = "ok" /\ op[o].at = "rename" /\ tree[r.src] # None
               /\ Renamed(r) /\ Keeps(content)
<1> DEFINE r == op[o].req
           Failed == Still /\ op'[o].at \in {Failure(o), "lost"}
           Refused == Still /\ op'[o].at \in Refusal /\ op[o].at \in {"look", "access", "read"}
           Made == Still /\ op'[o].at = "ok" /\ (r.tool = "create" \/ (r.tool = "edit" /\ r.option = "dry"))
           Arrives == Still /\ op'[o].at = "ok" /\ r.tool = "copy" /\ op[o].at = "copying" /\ op[o].todo = {}
           Removed == /\ op'[o].at = "ok" /\ op[o].at = "removing" /\ Loses(o, r.src)
                      /\ \A s \in Op \ {o} : op'[s] = op[s]
           Moves == /\ op'[o].at = "ok" /\ op[o].at = "rename" /\ tree[r.src] # None
                    /\ Renamed(r) /\ Keeps(content)
<1>1. Active(o) /\ Does(r.tool, op[o].at) /\ FilesShapes /\ op[o].at \in Stage
  BY RunsAreActive, ActiveFits, StructureShapes DEF Acts, Active, Fits
<1>2. Fails(o) => Failed
  BY <1>1, FailsDoes DEF EndsSame, IsOver, Still
<1>3. \A answer \in Answer : Ends(o, answer) => Still /\ op'[o].at = answer
  BY <1>1, EndsDoes DEF IsOver, Still
<1>4. \A at \in Stage : \A handle, todo : ~Turns(o, at, handle, todo)
  BY DEF Turns, GoesOn
<1>5. \A p : ~Gains(o, p)
  BY <1>1 DEF Gains
<1>6. Breaks(o) \/ Dies(o) => Failed
  BY <1>2, <1>3 DEF Breaks, Dies, Answer
<1>7. FillFails(o) => op'[o].at = Failure(o)
  BY <1>1, FillFailsDoes DEF IsOver
<1>8. MakeDirs(o) => Failed \/ Made
  <2> SUFFICES ASSUME MakeDirs(o)
               PROVE  Failed \/ Made
    OBVIOUS
  <2> DEFINE next == AfterDirs[r.tool]
             todo == IF r.tool = "copy" THEN {r.src} ELSE {}
  <2>1. Fails(o) \/ (r.tool = "create" /\ Ends(o, "ok")) \/ (r.tool # "create" /\ Turns(o, next, op[o].handle, todo))
    BY <1>1, <1>5, MakeDirsDoes
  <2>2. op[o].at = "mkdirs"
    BY <1>1, MakeDirsDoes
  <2>3. r.tool # "create" => next \in Stage
    BY <1>1, <2>2 DEF Does, AfterDirs, Stage
  <2> HIDE DEF next, todo
  <2> QED
    BY <1>2, <1>3, <1>4, <2>1, <2>3 DEF Answer
<1>9. OpenToWrite(o) => Failed
  BY <1>1, <1>2, OpenToWriteDoes DEF GoesOn, Stage
<1>10. Write(o) \/ Put(o) => op'[o].at = "ok"
  BY <1>1, WriteDoes, PutDoes DEF IsOver
<1>11. OpenToEdit(o) => Failed
  BY <1>1, <1>2, <1>4, OpenToEditDoes DEF Stage
<1>12. ReadToEdit(o) => Refused \/ Made
  <2>1. ReadToEdit(o) => /\ op[o].at = "read"
                         /\ \/ Ends(o, "noMatch") \/ Ends(o, "tooLarge")
                            \/ r.option = "dry" /\ Ends(o, "ok")
                            \/ \E todo : Turns(o, "truncate", op[o].handle, todo)
    BY <1>1, ReadToEditDoes
  <2>2. op[o].at = "read" => r.tool = "edit"
    BY <1>1 DEF Does
  <2> QED
    BY <1>3, <1>4, <2>1, <2>2 DEF Answer, Refusal, Stage
<1>13. ~Truncate(o)
  BY <1>1, TruncateDoes DEF GoesOn, Stage
<1>14. Look(o) => Failed \/ Refused
  BY <1>1, <1>2, <1>3, <1>4, LookDoes DEF Answer, Refusal, Stage
<1>15. StartRemoving(o) => Failed
  BY <1>1, <1>2, <1>4, StartRemovingDoes DEF Stage
<1>16. RemoveNext(o) => Failed \/ Removed
  <2> SUFFICES ASSUME RemoveNext(o), ~Fails(o)
               PROVE  Removed
    BY <1>2
  <2>1. op[o].at = "removing"
    BY <1>1, RemoveNextDoes
  <2>2. PICK p \in op[o].todo : op[o].todo = {p} /\ IsOver(o, "ok") /\ Loses(o, p)
    BY <1>1, <1>4, <2>1, RemoveNextDoes DEF GoesOn
  <2>3. p = r.src
    BY <2>1, <2>2, ActiveFits DEF Fits
  <2> QED
    BY <2>1, <2>2, <2>3 DEF IsOver
<1>17. Access(o) => Refused
  BY <1>1, <1>3, <1>4, AccessDoes DEF Answer, Refusal, Stage
<1>18. CopyNext(o) => Failed
  BY <1>1, <1>2, <1>4, <1>5, CopyNextDoes DEF Copies, GoesOn, Stage
<1>19. ~Fill(o)
  BY <1>1, FillDoes DEF GoesOn, Stage
<1>20. Copied(o) => Arrives
  BY <1>1, <1>3, <1>4, CopiedDoes DEF Answer, Stage
<1>21. Rename(o) => Failed \/ Moves
  BY <1>1, <1>2, <1>4, RenameDoes DEF IsOver, Stage
<1> HIDE DEF Failed, Refused, Made, Arrives, Removed, Moves
<1>22. \/ Failed \/ Refused \/ Made \/ Arrives \/ Removed \/ Moves
       \/ FillFails(o) /\ op'[o].at = Failure(o)
       \/ Write(o) /\ op'[o].at = "ok"
       \/ Put(o) /\ op'[o].at = "ok"
  BY <1>6, <1>7, <1>8, <1>9, <1>10, <1>11, <1>12, <1>13, <1>14, <1>15, <1>16, <1>17, <1>18, <1>19, <1>20, <1>21
  DEF Acts, Runs
<1> QED
  BY <1>22 DEF Failed, Refused, Made, Arrives, Removed, Moves

\* rename takes every file along.
LEMMA RenameKeeps ==
  ASSUME Structure, NEW o \in Op, Quiet(o), CopyFacts(op[o]), op[o].at = "rename", Renamed(op[o].req), Keeps(content)
  PROVE  \A p \in Sources(op[o]) :
           SeenAfter(IF IsPrefix(op[o].req.src, p) THEN Image(op[o].req, p) ELSE p) = op[o].start[p]
<1> DEFINE r == op[o].req
           From(p) == Moved(r.dst, r.src, p)
<1>1. \A p \in Path : tree'[p] =
        IF IsPrefix(r.dst, p) THEN IF From(p) \in Path THEN tree[From(p)] ELSE None
        ELSE IF IsPrefix(r.src, p) THEN None ELSE tree[p]
  BY DEF Renamed
<1>2. Takes(r)
  BY QuietHas
<1> SUFFICES ASSUME NEW p \in Sources(op[o])
             PROVE  SeenAfter(IF IsPrefix(r.src, p) THEN Image(r, p) ELSE p) = op[o].start[p]
  OBVIOUS
<1> DEFINE to == IF IsPrefix(r.src, p) THEN Image(r, p) ELSE p
<1>3. p \in Path /\ ~IsPrefix(r.dst, p) /\ Seen(p) = op[o].start[p] /\ op[o].start[p].is = File
  BY SourcesAre DEF CopyFacts, Same
<1>4. tree[p] \in Inode
  BY <1>3, FileIsFile
<1>5. to \in Path /\ tree'[to] = tree[p]
  BY <1>1, <1>2, <1>3 DEF Takes
<1> HIDE DEF to
<1>6. content'[tree[p]] = content[tree[p]]
  BY <1>4, <1>5 DEF Keeps
<1>7. SeenAfter(to) = Seen(p)
  BY <1>4, <1>5, <1>6 DEF SeenAfter, Seen, IsFile
<1> QED
  BY <1>3, <1>7 DEF to

\* Where a move has its files, whatever it is at.
LEMMA MovedAreThere ==
  ASSUME NEW rec, CopyFacts(rec), NEW p \in Sources(rec)
  PROVE  Skips(rec, p) \/ Seen(p) = rec.start[p] \/ (IsPrefix(rec.req.src, p) /\ Seen(Image(rec.req, p)) = rec.start[p])
BY DEF CopyFacts, Saved, CopiedTo, Same

LEMMA MovedAreThereNext ==
  ASSUME NEW rec, CopyFactsNext(rec), NEW p \in Sources(rec)
  PROVE  \/ Skips(rec, p) \/ SeenAfter(p) = rec.start[p]
         \/ IsPrefix(rec.req.src, p) /\ SeenAfter(Image(rec.req, p)) = rec.start[p]
BY DEF CopyFactsNext, SavedNext, CopiedNext

\* A step of a move that is alone loses no file.
LEMMA MoveActs ==
  ASSUME Structure, NEW o \in Op, Quiet(o), op[o].req.tool = "move", CopyFacts(op[o]), Acts(o),
         NEW p \in Sources(op[o])
  PROVE  \/ Skips(op[o], p)
         \/ SeenAfter(p) = op[o].start[p]
         \/ IsPrefix(op[o].req.src, p) /\ SeenAfter(Image(op[o].req, p)) = op[o].start[p]
<1> DEFINE r == op[o].req
           Kept == \/ Skips(op[o], p)
                   \/ SeenAfter(p) = op[o].start[p]
                   \/ IsPrefix(r.src, p) /\ SeenAfter(Image(r, p)) = op[o].start[p]
<1>1. p \in Path /\ (IsPrefix(r.src, p) => Image(r, p) \in Path)
  BY QuietHas, SourcesAre DEF Takes
<1>2. CASE op'[o].at \in Stage
  <2>1. CopyFactsNext(op'[o])
    BY <1>2, OwnStepCopies
  <2>2. op'[o].req = op[o].req /\ op'[o].start = op[o].start
    BY <1>2, RunsContinue, AnswersAreLast DEF Acts, IsOver
  <2>3. p \in Sources(op'[o])
    BY <2>2, SourcesStay
  <2> QED
    BY <2>1, <2>2, <2>3, SourcesStay, MovedAreThereNext
<1>3. CASE op'[o].at \notin Stage
  <2>1. Still => Kept
    BY <1>1, StillSeen, MovedAreThere
  <2>2. FillFails(o) => Kept
    <3> SUFFICES ASSUME FillFails(o)
                 PROVE  Kept
      OBVIOUS
    <3>1. Gentle(o) /\ op[o].at = "filling"
      BY FillFailsIsGentle, FillFailsDoes, StructureShapes
    <3>2. Same(op[o], p)
      BY <3>1 DEF CopyFacts
    <3> QED
      BY <3>1, <3>2, OwnGentle
  <2>3. ~Write(o) /\ ~Put(o)
    BY QuietHas DEF Does, Write, Put
  <2>4. op[o].at = "removing" /\ op'[o].at = "ok" /\ Loses(o, r.src) /\ (\A s \in Op \ {o} : op'[s] = op[s]) => Kept
    <3> SUFFICES ASSUME op[o].at = "removing", op'[o].at = "ok", Loses(o, r.src), \A s \in Op \ {o} : op'[s] = op[s]
                 PROVE  Kept
      OBVIOUS
    <3>1. r.src \in Path /\ IsPrefix(r.src, r.src)
      BY QuietHas, SrcIsPath
    <3> QED
      BY <3>1, RemovingKeeps DEF SavedNext, CopiedNext
  <2>5. op[o].at = "rename" /\ Renamed(r) /\ Keeps(content) => Kept
    BY RenameKeeps
  <2>6. \/ Still \/ FillFails(o) \/ Write(o) \/ Put(o)
        \/ op[o].at = "removing" /\ op'[o].at = "ok" /\ Loses(o, r.src) /\ (\A s \in Op \ {o} : op'[s] = op[s])
        \/ op[o].at = "rename" /\ Renamed(r) /\ Keeps(content)
    BY <1>3, EndingCases
  <2> QED
    BY <2>1, <2>2, <2>3, <2>4, <2>5, <2>6
<1> QED
  BY <1>2, <1>3

\* Beginning changes no file.
LEMMA BeginIsStill ==
  ASSUME Structure, NEW t \in Op, NEW r \in Request, Begin(t, r)
  PROVE  /\ ~Active(t) /\ \A p \in Path : SeenAfter(p) = Seen(p)
         /\ \A s \in Op \ {t} : op'[s].at = op[s].at
<1>1. ~Active(t) /\ (Ends(t, "rejected") \/ Joins(t, r))
  BY BeginDoes, StructureShapes
<1>2. CASE Ends(t, "rejected")
  <2>1. IsOver(t, "rejected") /\ Still
    BY <1>2, EndsDoes, StructureShapes DEF Answer, Refusal, Still
  <2> QED
    BY <1>1, <2>1, StillSeen DEF IsOver
<1>3. CASE Joins(t, r)
  BY <1>1, <1>3, SeenStays DEF Joins
<1> QED
  BY <1>1, <1>2, <1>3

LEMMA MoveStep ==
  ASSUME FilesInv, FilesNext, NEW o \in Op, Active(o), op[o].req.tool = "move", op[o].company = "none",
         NEW p \in FilesAmong(op[o], Path)
  PROVE  \/ Skips(op[o], p)
         \/ SeenAfter(p) = op[o].start[p]
         \/ IsPrefix(op[o].req.src, p) /\ SeenAfter(Image(op[o].req, p)) = op[o].start[p]
<1>1. Structure /\ Company /\ Quiet(o) /\ CopyFacts(op[o]) /\ Alone(o)
  BY DEF FilesInv, Quiet, Copying, Alone
<1>2. p \in Sources(op[o])
  BY DEF Sources
<1>3. PICK t \in Op : (\E r \in Request : Begin(t, r)) \/ Acts(t)
  BY DEF FilesNext, Acts
<1>4. CASE Acts(t)
  <2>1. t = o
    BY <1>1, <1>4, RunsAreActive DEF Company, Acts
  <2> QED
    BY <1>1, <1>2, <1>4, <2>1, MoveActs
<1>5. CASE \E r \in Request : Begin(t, r)
  <2>1. \A q \in Path : SeenAfter(q) = Seen(q)
    BY <1>1, <1>5, BeginIsStill
  <2>2. p \in Path /\ (IsPrefix(op[o].req.src, p) => Image(op[o].req, p) \in Path)
    BY <1>1, <1>2, QuietHas, SourcesAre DEF Takes
  <2> QED
    BY <1>1, <1>2, <2>1, <2>2, MovedAreThere
<1> QED
  BY <1>3, <1>4, <1>5

\* The safety of moves: one that no other operation overlaps has every file at its old place or, complete, at the new
\* one, at every moment, so also after a failure or a crash, unless it is a file that copyRecursive skips because a
\* link that leads nowhere was at the destination, on another file system (movePath, crossDeviceMove).
THEOREM MovesAreSafe == FilesSpec => MovesLoseNothing
<1>1. FilesInv /\ [FilesNext]_fileVars =>
        [\A o \in Op :
           LET r == op[o].req
               Places(p) == {p} \cup (IF IsPrefix(r.src, p) THEN {Image(r, p)} ELSE {})
           IN Active(o) /\ r.tool = "move" /\ op[o].company = "none" =>
                \A p \in FilesAmong(op[o], Path) :
                  Skips(op[o], p) \/ \E q \in Places(p) : SeenAfter(q) = op[o].start[p]]_fileVars
  BY MoveStep
<1> QED
  BY <1>1, FilesInvInit, FilesInvStep, PTL DEF FilesSpec, MovesLoseNothing

-----------------------------------------------------------------------------
(* What the answers say *)

FilesAt(rec) == FilesAmong(rec, {rec.req.src} \cup Below(rec.req.src))

LEMMA FilesAreOwn ==
  ASSUME NEW rec, rec.req.src \in Path
  PROVE  /\ FilesAt(rec) \subseteq Sources(rec) /\ \A p \in FilesAt(rec) : p \in Path /\ IsPrefix(rec.req.src, p)
         /\ FilesAt(rec) \subseteq Own(rec)
BY PathsAreOrdered, StrictMeans DEF FilesAt, Sources, Own, FilesAmong, Below, Ordered

\* A refusal of an operation that is alone.
LEMMA RefusalIsTrue ==
  ASSUME FilesInv, NEW o \in Op, Acts(o), Alone(o), op'[o].at \in Refusal
  PROVE  \A p \in Path : SeenAfter(p) = op[o].start[p]
<1>1. Structure /\ LoneFacts(o)
  BY DEF FilesInv, Lone
<1>2. op'[o].at \notin Stage /\ op'[o].at # "ok" /\ op'[o].at # "lost" /\ op'[o].at # Failure(o)
  BY DEF Refusal, Stage, Failure
<1>3. Still /\ op[o].at \in {"look", "access", "read"}
  BY <1>1, <1>2, EndingCases
<1> QED
  BY <1>1, <1>3, StillSeen DEF LoneFacts, Same

\* A copy that is done.
LEMMA CopyIsTrue ==
  ASSUME FilesInv, NEW o \in Op, Acts(o), Quiet(o), op[o].req.tool = "copy", op'[o].at = "ok"
  PROVE  \A p \in FilesAt(op[o]) : /\ Skips(op[o], p) \/ SeenAfter(Image(op[o].req, p)) = op[o].start[p]
                                   /\ SeenAfter(p) = op[o].start[p]
<1>1. Structure /\ CopyFacts(op[o])
  BY DEF FilesInv, Copying
<1>2. op'[o].at \notin Stage /\ op'[o].at \notin Refusal /\ op'[o].at # "lost" /\ op'[o].at # Failure(o)
  BY DEF Refusal, Stage, Failure
<1>3. ~Write(o) /\ ~Put(o) /\ op[o].at # "rename" /\ op[o].at # "removing" /\ op[o].req.src \in Path
  BY <1>1, QuietHas DEF Does, Write, Put
<1>4. Still /\ op[o].at = "copying" /\ op[o].todo = {}
  BY <1>1, <1>2, <1>3, EndingCases
<1>5. \A p \in Own(op[o]) : Saved(op[o], p) /\ Same(op[o], p)
  BY <1>4, <1>1, SourcesAre DEF CopyFacts
<1>6. \A p \in FilesAt(op[o]) : p \in Path /\ p \in Own(op[o]) /\ Image(op[o].req, p) \in Path
  BY <1>1, <1>3, FilesAreOwn, QuietHas DEF Takes
<1> QED
  BY <1>4, <1>5, <1>6, StillSeen DEF Saved, CopiedTo, Same

\* A file that is written, by an operation that is alone.
LEMMA WriteIsTrue ==
  ASSUME FilesInv, NEW o \in Op, Acts(o), Alone(o), op'[o].at = "ok", op[o].req.tool = "write"
  PROVE  SeenAfter(op[o].req.dst) =
           FileWith(IF op[o].req.option = "append" THEN op[o].start[op[o].req.dst].text \o <<o>> ELSE <<o>>)
<1> DEFINE r == op[o].req
           i == op[o].handle
           texts == [content EXCEPT ![i] = IF r.option = "append" THEN content[i] \o <<o>> ELSE Over(<<o>>, content[i])]
<1>1. Structure /\ LoneFacts(o) /\ Active(o)
  BY DEF FilesInv, Lone, Alone
<1>2. op'[o].at \notin Stage /\ op'[o].at \notin Refusal /\ op'[o].at # "lost" /\ op'[o].at # Failure(o)
  BY DEF Refusal, Stage, Failure
<1>3. Does("write", op[o].at)
  BY <1>1, ActiveFits DEF Active, Fits
<1>4. Write(o)
  BY <1>1, <1>2, <1>3, EndingCases DEF Does, Put
<1>5. op[o].at = "write" /\ tree' = tree /\ Keeps(texts)
  BY <1>1, <1>4, WriteDoes, StructureShapes
<1>6. i \in Inode /\ i = tree[r.dst] /\ r.dst \in Path
  BY <1>1, <1>5, ActiveFits, SrcIsPath DEF Fits, Holding, LoneFacts
<1>7. content[i] = IF r.option = "append" THEN op[o].start[r.dst].text ELSE <<>>
  BY <1>1, <1>5 DEF LoneFacts
<1>8. texts[i] = IF r.option = "append" THEN op[o].start[r.dst].text \o <<o>> ELSE <<o>>
  BY <1>1, <1>6, <1>7 DEF Structure, FilesShapes, Over
<1> HIDE DEF texts
<1>9. content'[i] = texts[i]
  BY <1>5, <1>6 DEF Keeps
<1> QED
  BY <1>5, <1>6, <1>8, <1>9 DEF SeenAfter

\* A file that is edited, by an operation that is alone.
LEMMA EditIsTrue ==
  ASSUME FilesInv, NEW o \in Op, Acts(o), Alone(o), op'[o].at = "ok",
         op[o].req.tool = "edit", op[o].req.option = "apply"
  PROVE  SeenAfter(op[o].req.dst) = FileWith(Edited(o, op[o].start[op[o].req.dst].text, op[o].req.finds))
<1> DEFINE r == op[o].req
           i == op[o].handle
           texts == [content EXCEPT ![i] = Over(op[o].draft, content[i])]
<1>1. Structure /\ LoneFacts(o) /\ Active(o)
  BY DEF FilesInv, Lone, Alone
<1>2. op'[o].at \notin Stage /\ op'[o].at \notin Refusal /\ op'[o].at # "lost" /\ op'[o].at # Failure(o)
  BY DEF Refusal, Stage, Failure
<1>3. Does("edit", op[o].at)
  BY <1>1, ActiveFits DEF Active, Fits
<1>4. Put(o)
  BY <1>1, <1>2, <1>3, EndingCases DEF Does, Write
<1>5. op[o].at = "put" /\ tree' = tree /\ Keeps(texts)
  BY <1>1, <1>4, PutDoes, StructureShapes
<1>6. i \in Inode /\ i = tree[r.dst] /\ r.dst \in Path
  BY <1>1, <1>5, ActiveFits, SrcIsPath DEF Fits, Holding, LoneFacts
<1>7. content[i] = <<>> /\ op[o].draft = Edited(o, op[o].start[r.dst].text, r.finds)
  BY <1>1, <1>5 DEF LoneFacts
<1>8. texts[i] = op[o].draft
  BY <1>1, <1>6, <1>7 DEF Structure, FilesShapes, Over
<1> HIDE DEF texts
<1>9. content'[i] = texts[i]
  BY <1>5, <1>6 DEF Keeps
<1> QED
  BY <1>5, <1>6, <1>7, <1>8, <1>9 DEF SeenAfter

\* What is deleted or moved is not where it was.
LEMMA RemovalIsTrue ==
  ASSUME FilesInv, NEW o \in Op, Acts(o), Alone(o), op'[o].at = "ok", op[o].req.tool \in {"delete", "move"}
  PROVE  tree'[op[o].req.src] = None
<1> DEFINE r == op[o].req
<1>1. Structure /\ Active(o) /\ r \in Request /\ r.src \in Path /\ IsPrefix(r.src, r.src) /\ FilesShapes
  BY SrcIsPath, StructureShapes DEF FilesInv, Alone
<1>2. op'[o].at \notin Stage /\ op'[o].at \notin Refusal /\ op'[o].at # "lost" /\ op'[o].at # Failure(o)
  BY DEF Refusal, Stage, Failure
<1>3. Does(r.tool, op[o].at)
  BY <1>1, ActiveFits DEF Active, Fits
<1>4. ~Write(o) /\ ~Put(o)
  BY <1>3 DEF Does, Write, Put
<1>5. \/ Loses(o, r.src)
      \/ op[o].at = "rename" /\ tree[r.src] # None /\ Renamed(r)
  BY <1>1, <1>2, <1>4, EndingCases
<1>6. CASE Loses(o, r.src)
  BY <1>1, <1>6 DEF Loses, FilesShapes
<1>7. CASE op[o].at = "rename" /\ tree[r.src] # None /\ Renamed(r)
  <2>1. r.tool = "move" /\ Quiet(o)
    BY <1>3, <1>7 DEF Does, Quiet, Alone
  <2>2. tree[r.dst] \in {None, Link}
    BY <1>7, <2>1 DEF FilesInv, Copying, CopyFacts
  <2>3. ~IsPrefix(r.dst, r.src)
    BY <1>1, <1>7, <2>1, <2>2, QuietHas, StrictMeans, KindsDiffer DEF Takes, Structure, Flat
  <2> QED
    BY <1>1, <1>7, <2>3 DEF Renamed
<1> QED
  BY <1>5, <1>6, <1>7

\* A move that has not copied everything.
LEMMA CopyIncompleteIsTrue ==
  ASSUME FilesInv, NEW o \in Op, Acts(o), Alone(o), op'[o].at = "copyIncomplete"
  PROVE  \A p \in FilesAt(op[o]) : SeenAfter(p) = op[o].start[p]
<1>1. Structure /\ Active(o)
  BY DEF FilesInv, Alone
<1>2. op'[o].at \notin Stage /\ op'[o].at \notin Refusal /\ op'[o].at # "lost" /\ op'[o].at # "ok"
  BY DEF Refusal, Stage
<1>3. Failure(o) = "copyIncomplete"
  BY <1>1, <1>2, EndingCases
<1>4. op[o].req.tool = "move" /\ op[o].at \in {"copying", "filling"}
  BY <1>3 DEF Failure
<1>5. Quiet(o) /\ CopyFacts(op[o])
  BY <1>4 DEF Quiet, Alone, FilesInv, Copying
<1>6. Gentle(o)
  BY <1>1, <1>4, StepIsGentle DEF Acts
<1>7. \A p \in Sources(op[o]) : SeenAfter(p) = op[o].start[p]
  BY <1>1, <1>4, <1>5, <1>6, OwnGentle DEF CopyFacts
<1> QED
  BY <1>1, <1>7, SrcIsPath, FilesAreOwn

\* A move that has copied everything, and not removed it.
LEMMA RemoveIncompleteIsTrue ==
  ASSUME FilesInv, NEW o \in Op, Acts(o), Alone(o), op'[o].at = "removeIncomplete"
  PROVE  \A p \in FilesAt(op[o]) : Skips(op[o], p) \/ SeenAfter(Image(op[o].req, p)) = op[o].start[p]
<1>1. Structure /\ Active(o)
  BY DEF FilesInv, Alone
<1>2. op'[o].at \notin Stage /\ op'[o].at \notin Refusal /\ op'[o].at # "lost" /\ op'[o].at # "ok"
  BY DEF Refusal, Stage
<1>3. Failure(o) = "removeIncomplete"
  BY <1>1, <1>2, EndingCases
<1>4. op[o].req.tool = "move" /\ op[o].at \in {"rm", "removing"}
  BY <1>3 DEF Failure
<1>5. Quiet(o) /\ CopyFacts(op[o])
  BY <1>4 DEF Quiet, Alone, FilesInv, Copying
<1>6. Still
  BY <1>1, <1>2, <1>4, EndingCases DEF FillFails
<1>7. \A p \in FilesAt(op[o]) : p \in Sources(op[o]) /\ IsPrefix(op[o].req.src, p) /\ p \in Path
  BY <1>1, SrcIsPath, FilesAreOwn
<1>8. \A p \in FilesAt(op[o]) : Image(op[o].req, p) \in Path
  BY <1>1, <1>5, <1>7, QuietHas DEF Takes
<1> QED
  BY <1>4, <1>5, <1>6, <1>7, <1>8, StillSeen DEF CopyFacts, Saved, CopiedTo

LEMMA AnswerStep ==
  ASSUME FilesInv, FilesNext, NEW o \in Op, Active(o), op'[o].at \in Answer
  PROVE  Holds(o, op[o], op'[o].at)
<1>1. PICK t \in Op : (\E r \in Request : Begin(t, r)) \/ Acts(t)
  BY DEF FilesNext, Acts
<1>2. Structure /\ op[o].req.src \in Path /\ op'[o].at \notin Stage /\ op[o].at \in Stage
  BY SrcIsPath, AnswersAreLast DEF FilesInv, Active
<1>3. ~\E r \in Request : Begin(t, r)
  BY <1>2, BeginIsStill
<1>4. Acts(o)
  <2>1. t # o => op'[o] = op[o]
    BY <1>1, <1>2, <1>3, RunsContinue DEF Acts
  <2> QED
    BY <1>1, <1>2, <1>3, <2>1
<1> DEFINE r == op[o].req
           answer == op'[o].at
           Files == FilesAt(op[o])
           Arrived == \A p \in Files : Skips(op[o], p) \/ SeenAfter(Image(r, p)) = op[o].start[p]
<1>5. answer \in Refusal /\ Alone(o) => \A p \in Path : SeenAfter(p) = op[o].start[p]
  BY <1>4, RefusalIsTrue
<1>6. answer = "ok" /\ r.tool = "copy" /\ op[o].company # "any" =>
        Arrived /\ \A p \in Files : SeenAfter(p) = op[o].start[p]
  BY <1>4, CopyIsTrue DEF Quiet
<1>7. answer = "ok" /\ Alone(o) =>
        /\ r.tool = "write" /\ r.option = "overwrite" => SeenAfter(r.dst) = FileWith(<<o>>)
        /\ r.tool = "write" /\ r.option = "append" => SeenAfter(r.dst) = FileWith(op[o].start[r.dst].text \o <<o>>)
        /\ r.tool = "edit" /\ r.option = "apply" =>
             SeenAfter(r.dst) = FileWith(Edited(o, op[o].start[r.dst].text, r.finds))
        /\ r.tool \in {"delete", "move"} => tree'[r.src] = None
  <2>1. ASSUME answer = "ok", Alone(o), r.tool = "write"
        PROVE  SeenAfter(r.dst) = FileWith(IF r.option = "append" THEN op[o].start[r.dst].text \o <<o>> ELSE <<o>>)
    BY <1>4, <2>1, WriteIsTrue
  <2>2. ASSUME answer = "ok", Alone(o), r.tool = "edit", r.option = "apply"
        PROVE  SeenAfter(r.dst) = FileWith(Edited(o, op[o].start[r.dst].text, r.finds))
    BY <1>4, <2>2, EditIsTrue
  <2>3. ASSUME answer = "ok", Alone(o), r.tool \in {"delete", "move"}
        PROVE  tree'[r.src] = None
    BY <1>4, <2>3, RemovalIsTrue
  <2> QED
    BY <2>1, <2>2, <2>3
<1>8. answer = "copyIncomplete" /\ Alone(o) => \A p \in Files : SeenAfter(p) = op[o].start[p]
  BY <1>4, CopyIncompleteIsTrue
<1>9. answer = "removeIncomplete" /\ Alone(o) => Arrived
  BY <1>4, RemoveIncompleteIsTrue
<1>10. Alone(o) <=> op[o].company = "none"
  BY DEF Alone
<1> QED
  BY <1>5, <1>6, <1>7, <1>8, <1>9, <1>10 DEF Holds, FilesAt

\* The answers are true: a refusal has changed nothing, what is "ok" has happened, an incomplete move has left the
\* files where it says, and a copy is whole also beside others into the same directory, but for a file that is skipped
\* (copyRecursive) because a link that leads nowhere was at the destination (execute, fs-write.ts, fs-edit.ts).
THEOREM AnswersHold == FilesSpec => AnswersAreTrue
<1>1. FilesInv /\ [FilesNext]_fileVars =>
        [\A o \in Op : Active(o) /\ op'[o].at \in Answer => Holds(o, op[o], op'[o].at)]_fileVars
  BY AnswerStep
<1> QED
  BY <1>1, FilesInvInit, FilesInvStep, PTL DEF FilesSpec, AnswersAreTrue

===============================================================================
