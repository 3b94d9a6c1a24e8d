--------------------------- MODULE SubnodePoolProofs ---------------------------
(***************************************************************************)
(* Proofs about SubnodePool, for any number of requests, workers, users    *)
(* and Subnode objects.  The invariant has three parts, which a step       *)
(* disturbs apart from each other:                                         *)
(*   WorkersInv  whose workers run, under which credentials, behind which  *)
(*               lock;                                                     *)
(*   WaitingInv  a request that is not answered is held in exactly one     *)
(*               place, told by Holds;                                     *)
(*   QueueWaitsForBusyWorkers, which rests on the first.                   *)
(***************************************************************************)
EXTENDS SubnodePool, FiniteSetTheorems, TLAPS

-----------------------------------------------------------------------------
(* The workers *)

Shapes ==
  /\ subnodes \in [User -> Subnode \cup {NoSubnode}]
  /\ workers \in [Subnode -> SUBSET Worker]
  /\ queue \in [Subnode -> Seq(Request)]
  /\ lock \in [Subnode -> Seq(Request)]
  /\ stage \in [Worker -> Stages]
  /\ home \in [Worker -> Subnode \cup {NoSubnode}]
  /\ creds \in [Worker -> Identity \cup {NoIdentity}]
  /\ idle \in [Worker -> BOOLEAN]
  /\ pending \in [Worker -> SUBSET Request]
  /\ running \in [Worker -> SUBSET Request]
  /\ loop \in [Worker -> BOOLEAN]
  /\ drain \in [Worker -> SUBSET Request]
  /\ checking \in SUBSET Request
  /\ ident \in [Request -> Identity \cup {NoIdentity}]
  /\ answer \in [Request -> Answers]
  /\ phase \in {"run", "draining", "stopped"}

\* The workers of a Subnode are those of its processes that are up.
WorkersAreUp ==
  \A s \in Subnode : \A w \in Worker :
    w \in workers[s] <=> stage[w] = "up" /\ home[w] = s

\* Only a process that is up has requests or an idle timer, and the hub waits for no answer to
\* what it has not sent.
OnlyUpRun ==
  \A w \in Worker :
    /\ pending[w] \subseteq running[w]
    /\ stage[w] # "up" => running[w] = {} /\ ~idle[w]

\* Whatever still acts for a process knows its Subnode and its credentials.
Wired ==
  \A w \in Worker : stage[w] # "free" \/ loop[w] \/ drain[w] # {} =>
    home[w] \in Subnode /\ creds[w] \in Identity

\* A process that starts does so for the request at the head of the lock.
StartsForHead ==
  \A w \in Worker : stage[w] = "starting" =>
    lock[home[w]] # <<>> /\ creds[w] = ident[Head(lock[home[w]])]

\* The lock admits one process at a time.
OneStarts ==
  \A v, w \in Worker : stage[v] = "starting" /\ stage[w] = "starting" /\ home[v] = home[w] => v = w

\* The entries a worker took from the queue are of its own identity too.
DrainsAsRequester == \A w \in Worker : \A r \in drain[w] : ident[r] = creds[w]

Alive(s) == {w \in Worker : stage[w] \in {"starting", "up"} /\ home[w] = s}

WithinMax == \A s \in Subnode : IsFiniteSet(Alive(s)) /\ Cardinality(Alive(s)) <= Max

WorkersInv ==
  /\ WorkersAreUp
  /\ OnlyUpRun
  /\ Wired
  /\ StartsForHead
  /\ OneStarts
  /\ WorkersRunAsRequester
  /\ DrainsAsRequester
  /\ WithinMax

-----------------------------------------------------------------------------
(* The requests *)

Places == {"checking", "lock", "queue", "drain", "pending"}
Holders == Subnode \cup Worker \cup {NoSubnode}

\* Request r is at place p of holder x.
Holds(r, p, x) ==
  \/ p = "checking" /\ x = NoSubnode /\ r \in checking
  \/ p = "lock" /\ x \in Subnode /\ r \in Range(lock[x])
  \/ p = "queue" /\ x \in Subnode /\ r \in Range(queue[x])
  \/ p = "drain" /\ x \in Worker /\ r \in drain[x]
  \/ p = "pending" /\ x \in Worker /\ r \in pending[x]

OnePlace ==
  \A r \in Request : \A p, q \in Places : \A x, y \in Holders :
    Holds(r, p, x) /\ Holds(r, q, y) => p = q /\ x = y

Distinct(s) == \A i, j \in DOMAIN s : s[i] = s[j] => i = j

NoneTwice == \A s \in Subnode : Distinct(lock[s]) /\ Distinct(queue[s])

\* What is held was dispatched, and no answer was given while it is not with a worker.
HeldIsOpen ==
  \A r \in Request : \A p \in Places : \A x \in Holders : Holds(r, p, x) =>
    /\ ident[r] \in Identity
    /\ p # "pending" => answer[r] = "none"

OpenIsHeld ==
  phase # "stopped" =>
    \A r \in Request : ident[r] # NoIdentity /\ answer[r] = "none" =>
      \E p \in Places : \E x \in Holders : Holds(r, p, x)

AnsweredWasDispatched == \A r \in Request : answer[r] # "none" => ident[r] \in Identity

WaitingInv == OnePlace /\ NoneTwice /\ HeldIsOpen /\ OpenIsHeld /\ AnsweredWasDispatched

Inv == Shapes /\ WorkersInv /\ WaitingInv /\ QueueWaitsForBusyWorkers

-----------------------------------------------------------------------------
(* Sequences *)

\* What is in a sequence, index by index.
LEMMA InRange ==
  ASSUME NEW S, NEW s \in Seq(S), NEW x
  PROVE  x \in Range(s) <=> \E i \in 1..Len(s) : s[i] = x
BY DEF Range

LEMMA NothingInEmpty == Range(<<>>) = {} /\ Distinct(<<>>)
BY DEF Range, Distinct

\* The rest of a sequence without repetitions has all of it but the head.
LEMMA OfTail ==
  ASSUME NEW S, NEW s \in Seq(S), s # <<>>, Distinct(s)
  PROVE  /\ Tail(s) \in Seq(S) /\ Distinct(Tail(s))
         /\ Head(s) \in S /\ Head(s) \in Range(s)
         /\ \A x : x \in Range(Tail(s)) <=> x \in Range(s) /\ x # Head(s)
<1>1. /\ Len(s) \in Nat /\ Len(s) > 0
      /\ Tail(s) \in Seq(S) /\ Len(Tail(s)) = Len(s) - 1
      /\ \A i \in 1..Len(s) - 1 : Tail(s)[i] = s[i + 1]
      /\ Head(s) = s[1] /\ s[1] \in S
  OBVIOUS
<1>2. Distinct(Tail(s))
  <2> SUFFICES ASSUME NEW i \in 1..Len(s) - 1, NEW j \in 1..Len(s) - 1, s[i + 1] = s[j + 1]
               PROVE  i = j
    BY <1>1 DEF Distinct
  <2>1. i + 1 \in DOMAIN s /\ j + 1 \in DOMAIN s
    BY <1>1
  <2> QED
    BY <2>1 DEF Distinct
<1>3. ASSUME NEW x, x \in Range(Tail(s))
      PROVE  x \in Range(s) /\ x # Head(s)
  <2> DEFINE t == Tail(s)
  <2>0. t \in Seq(S) /\ Len(t) = Len(s) - 1 /\ x \in Range(t) /\ \A i \in 1..Len(s) - 1 : t[i] = s[i + 1]
    BY <1>1, <1>3
  <2> HIDE DEF t
  <2>3. \E i \in 1..Len(t) : t[i] = x
    BY <2>0, InRange
  <2>1. PICK i \in 1..Len(s) - 1 : s[i + 1] = x
    BY <2>0, <2>3
  <2>2. i + 1 \in DOMAIN s /\ 1 \in DOMAIN s /\ i + 1 # 1
    BY <1>1
  <2> QED
    BY <1>1, <2>1, <2>2 DEF Distinct, Range
<1>4. ASSUME NEW x, x \in Range(s), x # Head(s)
      PROVE  x \in Range(Tail(s))
  <2>1. PICK i \in 1..Len(s) : s[i] = x
    BY <1>4, InRange
  <2>2. i - 1 \in 1..Len(Tail(s)) /\ Tail(s)[i - 1] = x
    BY <1>1, <1>4, <2>1
  <2> QED
    BY <1>1, <2>2, InRange
<1>5. Head(s) \in Range(s)
  BY <1>1, InRange
<1> QED
  BY <1>1, <1>2, <1>3, <1>4, <1>5

\* A sequence with one more element at its end.
LEMMA OfAppend ==
  ASSUME NEW S, NEW s \in Seq(S), NEW e \in S
  PROVE  /\ Append(s, e) \in Seq(S) /\ Append(s, e) # <<>>
         /\ s # <<>> => Head(Append(s, e)) = Head(s)
         /\ \A x : x \in Range(Append(s, e)) <=> x \in Range(s) \/ x = e
         /\ Distinct(s) /\ e \notin Range(s) => Distinct(Append(s, e))
<1> DEFINE a == Append(s, e)
<1>1. /\ Len(s) \in Nat /\ a \in Seq(S) /\ Len(a) = Len(s) + 1
      /\ \A i \in 1..Len(s) : a[i] = s[i]
      /\ a[Len(s) + 1] = e
  OBVIOUS
<1>2. a # <<>>
  BY <1>1
<1>3. s # <<>> => Head(a) = Head(s)
  BY <1>1
<1> HIDE DEF a
<1>4. ASSUME NEW x
      PROVE  x \in Range(a) <=> x \in Range(s) \/ x = e
  <2>1. x \in Range(a) <=> \E i \in 1..Len(s) + 1 : a[i] = x
    BY <1>1, InRange
  <2>2. x \in Range(s) <=> \E i \in 1..Len(s) : s[i] = x
    BY InRange
  <2>3. \A i \in 1..Len(s) + 1 : i \in 1..Len(s) \/ i = Len(s) + 1
    BY <1>1
  <2>4. Len(s) + 1 \in 1..Len(s) + 1 /\ \A i \in 1..Len(s) : i \in 1..Len(s) + 1
    BY <1>1
  <2> QED
    BY <1>1, <2>1, <2>2, <2>3, <2>4
<1>5. ASSUME Distinct(s), e \notin Range(s)
      PROVE  Distinct(a)
  <2> SUFFICES ASSUME NEW i \in 1..Len(s) + 1, NEW j \in 1..Len(s) + 1, a[i] = a[j]
               PROVE  i = j
    BY <1>1 DEF Distinct
  <2>1. \A k \in 1..Len(s) : a[k] # e
    BY <1>1, <1>5, InRange
  <2>2. \A k \in 1..Len(s) + 1 : k \in 1..Len(s) \/ k = Len(s) + 1
    BY <1>1
  <2>3. CASE i \in 1..Len(s) /\ j \in 1..Len(s)
    BY <1>1, <1>5, <2>3 DEF Distinct
  <2> QED
    BY <1>1, <2>1, <2>2, <2>3
<1> QED
  BY <1>1, <1>2, <1>3, <1>4, <1>5 DEF a

\* The queue without one of its entries has all the others.
LEMMA OfUnqueued ==
  ASSUME Shapes, NEW s \in Subnode, NEW r \in Range(queue[s]), Distinct(queue[s])
  PROVE  /\ Unqueued(s, r) \in Seq(Request) /\ Distinct(Unqueued(s, r))
         /\ \A x : x \in Range(Unqueued(s, r)) <=> x \in Range(queue[s]) /\ x # r
<1> DEFINE q == queue[s]
           at == Position(q, r)
           n == Len(q)
           u == [i \in 1..n - 1 |-> q[IF i < at THEN i ELSE i + 1]]
<1>1. q \in Seq(Request) /\ n \in Nat /\ DOMAIN q = 1..n
  BY DEF Shapes
<1>2. at \in 1..n /\ q[at] = r
  <2>1. \E i \in DOMAIN q : q[i] = r
    BY <1>1, InRange
  <2> QED
    BY <1>1, <2>1 DEF Position
<1>3. Unqueued(s, r) = u
  BY DEF Unqueued
<1>4. \A i, j \in 1..n : q[i] = q[j] => i = j
  BY <1>1 DEF Distinct
<1>5. \A i \in 1..n : q[i] \in Request
  BY <1>1
<1> HIDE DEF q, at, n
<1>6. u \in Seq(Request) /\ Len(u) = n - 1 /\ DOMAIN u = 1..n - 1
  <2>1. \A i \in 1..n - 1 : q[IF i < at THEN i ELSE i + 1] \in Request
    BY <1>1, <1>2, <1>5
  <2>2. n - 1 \in Nat
    BY <1>1, <1>2
  <2>3. u \in [1..n - 1 -> Request]
    BY <2>1
  <2> QED
    BY <2>2, <2>3
<1>7. \A i \in 1..n - 1 : u[i] = q[IF i < at THEN i ELSE i + 1]
  OBVIOUS
<1> HIDE DEF u
<1>8. Distinct(u)
  <2> SUFFICES ASSUME NEW i \in 1..n - 1, NEW j \in 1..n - 1, u[i] = u[j]
               PROVE  i = j
    BY <1>6 DEF Distinct
  <2>1. (IF i < at THEN i ELSE i + 1) = (IF j < at THEN j ELSE j + 1)
    BY <1>1, <1>2, <1>4, <1>7
  <2> QED
    BY <1>1, <1>2, <2>1
<1>9. ASSUME NEW x, x \in Range(u)
      PROVE  x \in Range(q) /\ x # r
  <2>1. PICK i \in 1..n - 1 : u[i] = x
    BY <1>6, <1>9, InRange
  <2>2. CASE i < at
    BY <1>1, <1>2, <1>4, <1>7, <2>1, <2>2 DEF Range
  <2>3. CASE ~(i < at)
    <3>1. i + 1 \in 1..n /\ i + 1 # at /\ u[i] = q[i + 1]
      BY <1>1, <1>2, <1>7, <2>3
    <3> QED
      BY <1>1, <1>2, <1>4, <2>1, <3>1 DEF Range
  <2> QED
    BY <2>2, <2>3
<1>10. ASSUME NEW x, x \in Range(q), x # r
       PROVE  x \in Range(u)
  <2>1. PICK i \in 1..n : q[i] = x
    BY <1>1, <1>10 DEF Range
  <2>2. CASE i < at
    <3>1. i \in 1..n - 1 /\ u[i] = x
      BY <1>1, <1>2, <1>7, <2>1, <2>2
    <3> QED
      BY <1>6, <3>1, InRange
  <2>3. CASE ~(i < at)
    <3>1. i # at
      BY <1>2, <1>10, <2>1
    <3>2. i - 1 \in 1..n - 1 /\ u[i - 1] = x
      BY <1>1, <1>2, <1>7, <2>1, <2>3, <3>1
    <3> QED
      BY <1>6, <3>2, InRange
  <2> QED
    BY <2>2, <2>3
<1> QED
  BY <1>3, <1>6, <1>8, <1>9, <1>10 DEF q

-----------------------------------------------------------------------------
(* Steps that only take workers away *)

Emptied(W) == {s \in {home[w] : w \in W} : workers[s] \subseteq W}

\* What removeWorker does to each worker, queue and request.
Removed(W, answers, queues) ==
  /\ \A s \in Subnode : workers'[s] = workers[s] \ W
  /\ \A s \in Emptied(W) : s \in Subnode /\ queue'[s] = <<>>
  /\ \A s \in Subnode : s \notin Emptied(W) => queue'[s] = queues[s]
  /\ \A w \in W : stage'[w] = "free" /\ pending'[w] = {} /\ running'[w] = {} /\ ~idle'[w]
  /\ \A w \in Worker : w \notin W =>
       /\ stage'[w] = stage[w] /\ idle'[w] = idle[w]
       /\ pending'[w] = pending[w] /\ running'[w] = running[w]
  /\ \A r \in Request : answer'[r] = "none" <=>
       /\ answers[r] = "none"
       /\ \A w \in W : r \notin pending[w]
       /\ \A s \in Emptied(W) : r \notin Range(queues[s])

\* removeWorker, for each worker of W.
LEMMA Removal ==
  ASSUME Shapes, NEW W \in SUBSET Worker, \A w \in W : home[w] \in Subnode,
         NEW answers \in [Request -> Answers], NEW queues \in [Subnode -> Seq(Request)],
         RemoveWorkers(W, answers, queues)
  PROVE  /\ subnodes' \in [User -> Subnode \cup {NoSubnode}]
         /\ workers' \in [Subnode -> SUBSET Worker]
         /\ queue' \in [Subnode -> Seq(Request)]
         /\ stage' \in [Worker -> Stages]
         /\ idle' \in [Worker -> BOOLEAN]
         /\ pending' \in [Worker -> SUBSET Request]
         /\ running' \in [Worker -> SUBSET Request]
         /\ answer' \in [Request -> Answers]
         /\ Removed(W, answers, queues)
<1> DEFINE lost == (UNION {pending[w] : w \in W}) \cup Stranded(queues, Emptied(W))
<1>1. /\ workers' = [s \in Subnode |-> workers[s] \ W]
      /\ queue' = [s \in Subnode |-> IF s \in Emptied(W) THEN <<>> ELSE queues[s]]
      /\ subnodes' = [u \in User |->
                        IF subnodes[u] \in Emptied(W) THEN NoSubnode ELSE subnodes[u]]
      /\ stage' = [w \in Worker |-> IF w \in W THEN "free" ELSE stage[w]]
      /\ idle' = [w \in Worker |-> w \notin W /\ idle[w]]
      /\ pending' = [w \in Worker |-> IF w \in W THEN {} ELSE pending[w]]
      /\ running' = [w \in Worker |-> IF w \in W THEN {} ELSE running[w]]
      /\ answer' = Answer(answers, lost, "error")
  BY DEF RemoveWorkers, Emptied
<1>2. \A r \in Request : r \in lost <=>
        (\E w \in W : r \in pending[w]) \/ (\E s \in Emptied(W) : r \in Range(queues[s]))
  BY DEF Stranded
<1> HIDE DEF lost
<1>3. \A s \in Emptied(W) : s \in Subnode
  BY DEF Emptied
<1>4. answer' \in [Request -> Answers]
  BY <1>1 DEF Answer, Answers
<1>5. \A r \in Request : answer'[r] = "none" <=> answers[r] = "none" /\ r \notin lost
  BY <1>1 DEF Answer
<1>6. /\ subnodes' \in [User -> Subnode \cup {NoSubnode}]
      /\ workers' \in [Subnode -> SUBSET Worker]
      /\ stage' \in [Worker -> Stages]
      /\ pending' \in [Worker -> SUBSET Request]
      /\ running' \in [Worker -> SUBSET Request]
  BY <1>1 DEF Shapes, Stages
<1>7. idle' \in [Worker -> BOOLEAN]
  BY <1>1, Zenon DEF Shapes
<1>8. queue' \in [Subnode -> Seq(Request)]
  <2>1. <<>> \in Seq(Request)
    OBVIOUS
  <2> QED
    BY <1>1, <2>1
<1>9. /\ \A s \in Subnode : workers'[s] = workers[s] \ W
      /\ \A s \in Emptied(W) : s \in Subnode /\ queue'[s] = <<>>
      /\ \A s \in Subnode : s \notin Emptied(W) => queue'[s] = queues[s]
  BY <1>1, <1>3
<1>10. /\ \A w \in W : stage'[w] = "free" /\ pending'[w] = {} /\ running'[w] = {}
       /\ \A w \in Worker : w \notin W =>
            stage'[w] = stage[w] /\ pending'[w] = pending[w] /\ running'[w] = running[w]
  BY <1>1
<1>12. /\ \A w \in W : ~idle'[w]
       /\ \A w \in Worker : w \notin W => idle'[w] = idle[w]
  BY <1>1, Zenon DEF Shapes
<1>11. Removed(W, answers, queues)
  BY <1>2, <1>5, <1>9, <1>10, <1>12 DEF Removed
<1> QED
  BY <1>4, <1>6, <1>7, <1>8, <1>11

\* No worker starts, joins or is sent anything; the lock passes on only when
\* nobody starts under it.
Leaving ==
  /\ home' = home /\ creds' = creds
  /\ \A w \in Worker :
       /\ \/ stage'[w] = stage[w]
          \/ stage'[w] = "free"
          \/ stage[w] = "starting" /\ stage'[w] = "dying"
       /\ pending'[w] \subseteq running'[w] /\ running'[w] \subseteq running[w]
       /\ stage'[w] # "up" => running'[w] = {} /\ ~idle'[w]
       /\ drain'[w] \subseteq drain[w]
       /\ loop'[w] => loop[w] \/ drain[w] # {} \/ stage[w] # "free"
       /\ stage'[w] = "starting" =>
            lock'[home[w]] # <<>> /\ Head(lock'[home[w]]) = Head(lock[home[w]])
  /\ \A s \in Subnode : \A w \in Worker :
       w \in workers'[s] <=> w \in workers[s] /\ stage'[w] = "up"
  /\ \A r \in Request : ident[r] \in Identity => ident'[r] = ident[r]

LEMMA WorkersLeave ==
  ASSUME Shapes, WorkersInv, Leaving, lock' \in [Subnode -> Seq(Request)],
         stage' \in [Worker -> Stages]
  PROVE  WorkersInv'
<1> USE DEF WorkersInv
<1>1. WorkersAreUp'
  <2> SUFFICES ASSUME NEW s \in Subnode, NEW w \in Worker
               PROVE  w \in workers'[s] <=> stage'[w] = "up" /\ home'[w] = s
    BY DEF WorkersAreUp
  <2>1. w \in workers'[s] <=> w \in workers[s] /\ stage'[w] = "up"
    BY DEF Leaving
  <2>2. stage'[w] = "up" => stage[w] = "up"
    BY DEF Leaving
  <2> QED
    BY <2>1, <2>2 DEF Leaving, WorkersAreUp
<1>2. OnlyUpRun'
  BY DEF OnlyUpRun, Leaving
<1>3. Wired'
  <2> SUFFICES ASSUME NEW w \in Worker, stage'[w] # "free" \/ loop'[w] \/ drain'[w] # {}
               PROVE  home'[w] \in Subnode /\ creds'[w] \in Identity
    BY DEF Wired
  <2>1. stage[w] # "free" \/ loop[w] \/ drain[w] # {}
    BY DEF Leaving
  <2> QED
    BY <2>1 DEF Wired, Leaving
<1>4. StartsForHead'
  <2> SUFFICES ASSUME NEW w \in Worker, stage'[w] = "starting"
               PROVE  lock'[home'[w]] # <<>> /\ creds'[w] = ident'[Head(lock'[home'[w]])]
    BY DEF StartsForHead
  <2>1. stage[w] = "starting"
    BY DEF Leaving
  <2>2. /\ lock[home[w]] # <<>> /\ creds[w] = ident[Head(lock[home[w]])]
        /\ home[w] \in Subnode /\ creds[w] \in Identity
    BY <2>1 DEF StartsForHead, Wired
  <2>3. Head(lock[home[w]]) \in Request
    BY <2>2 DEF Shapes
  <2> QED
    BY <2>2, <2>3 DEF Leaving
<1>5. OneStarts'
  <2>1. \A w \in Worker : stage'[w] = "starting" => stage[w] = "starting"
    BY DEF Leaving
  <2> QED
    BY <2>1 DEF OneStarts, Leaving
<1>6. WorkersRunAsRequester'
  <2> SUFFICES ASSUME NEW w \in Worker, NEW r \in running'[w]
               PROVE  ident'[r] = creds'[w]
    BY DEF WorkersRunAsRequester
  <2>1. r \in running[w] /\ r \in Request
    BY DEF Leaving, Shapes
  <2>2. ident[r] = creds[w] /\ creds[w] \in Identity
    BY <2>1 DEF WorkersRunAsRequester, OnlyUpRun, Wired
  <2> QED
    BY <2>1, <2>2 DEF Leaving
<1>7. DrainsAsRequester'
  <2> SUFFICES ASSUME NEW w \in Worker, NEW r \in drain'[w]
               PROVE  ident'[r] = creds'[w]
    BY DEF DrainsAsRequester
  <2>1. r \in drain[w] /\ r \in Request
    BY DEF Leaving, Shapes
  <2>2. ident[r] = creds[w] /\ creds[w] \in Identity
    BY <2>1 DEF DrainsAsRequester, Wired
  <2> QED
    BY <2>1, <2>2 DEF Leaving
<1>8. WithinMax'
  <2> SUFFICES ASSUME NEW s \in Subnode
               PROVE  IsFiniteSet(Alive(s)') /\ Cardinality(Alive(s)') <= Max
    BY DEF WithinMax
  <2>1. Alive(s)' \subseteq Alive(s)
    BY DEF Alive, Leaving
  <2>2. IsFiniteSet(Alive(s)) /\ Cardinality(Alive(s)) <= Max
    BY DEF WithinMax
  <2>3. /\ IsFiniteSet(Alive(s)') /\ Cardinality(Alive(s)') <= Cardinality(Alive(s))
        /\ Cardinality(Alive(s)') \in Nat /\ Cardinality(Alive(s)) \in Nat
    BY <2>1, <2>2, FS_Subset, FS_CardinalityType
  <2> QED
    BY <2>2, <2>3, PoolAssumption
<1> QED
  BY <1>1, <1>2, <1>3, <1>4, <1>5, <1>6, <1>7, <1>8

\* Removing workers is such a step.
LEMMA RemovalLeaves ==
  ASSUME Shapes, WorkersInv, NEW W \in SUBSET Worker, \A w \in W : home[w] \in Subnode,
         NEW answers \in [Request -> Answers], NEW queues \in [Subnode -> Seq(Request)],
         RemoveWorkers(W, answers, queues),
         home' = home, creds' = creds,
         lock' \in [Subnode -> Seq(Request)],
         \A w \in Worker \ W : stage[w] = "starting" =>
           lock'[home[w]] # <<>> /\ Head(lock'[home[w]]) = Head(lock[home[w]]),
         \A w \in Worker : drain'[w] \subseteq drain[w],
         \A w \in Worker : loop'[w] => loop[w] \/ drain[w] # {},
         \A r \in Request : ident[r] \in Identity => ident'[r] = ident[r]
  PROVE  WorkersInv'
<1>1. /\ stage' \in [Worker -> Stages]
      /\ \A s \in Subnode : workers'[s] = workers[s] \ W
      /\ \A w \in W : stage'[w] = "free" /\ pending'[w] = {} /\ running'[w] = {} /\ ~idle'[w]
      /\ \A w \in Worker : w \notin W =>
           /\ stage'[w] = stage[w] /\ idle'[w] = idle[w]
           /\ pending'[w] = pending[w] /\ running'[w] = running[w]
  <2>1. Removed(W, answers, queues) /\ stage' \in [Worker -> Stages]
    BY Removal
  <2> QED
    BY <2>1 DEF Removed
<1>2. ASSUME NEW w \in Worker
      PROVE  /\ stage'[w] = stage[w] \/ stage'[w] = "free"
             /\ pending'[w] \subseteq running'[w] /\ running'[w] \subseteq running[w]
             /\ stage'[w] # "up" => running'[w] = {} /\ ~idle'[w]
             /\ stage'[w] = "starting" =>
                  lock'[home[w]] # <<>> /\ Head(lock'[home[w]]) = Head(lock[home[w]])
  BY <1>1 DEF WorkersInv, OnlyUpRun
<1>3. ASSUME NEW s \in Subnode, NEW w \in Worker
      PROVE  w \in workers'[s] <=> w \in workers[s] /\ stage'[w] = "up"
  BY <1>1 DEF WorkersInv, WorkersAreUp
<1>4. Leaving
  BY <1>2, <1>3 DEF Leaving
<1> QED
  BY <1>1, <1>4, WorkersLeave

-----------------------------------------------------------------------------
(* Where requests are *)

\* Holds, place by place.
LEMMA HeldAt ==
  ASSUME NEW r
  PROVE  /\ r \in checking <=> Holds(r, "checking", NoSubnode)
         /\ \A s \in Subnode : r \in Range(lock[s]) <=> Holds(r, "lock", s)
         /\ \A s \in Subnode : r \in Range(queue[s]) <=> Holds(r, "queue", s)
         /\ \A w \in Worker : r \in drain[w] <=> Holds(r, "drain", w)
         /\ \A w \in Worker : r \in pending[w] <=> Holds(r, "pending", w)
BY DEF Holds

LEMMA AllPlaces ==
  /\ \A p \in {"checking", "lock", "queue", "drain", "pending"} : p \in Places
  /\ NoSubnode \in Holders /\ Subnode \subseteq Holders /\ Worker \subseteq Holders
BY DEF Places, Holders

\* A request at one place is at no other.
LEMMA OnlyThere ==
  ASSUME WaitingInv, NEW r \in Request, NEW p \in Places, NEW x \in Holders, Holds(r, p, x)
  PROVE  /\ r \in checking => p = "checking"
         /\ \A s \in Subnode : r \in Range(lock[s]) => p = "lock" /\ x = s
         /\ \A s \in Subnode : r \in Range(queue[s]) => p = "queue" /\ x = s
         /\ \A w \in Worker : r \in drain[w] => p = "drain" /\ x = w
         /\ \A w \in Worker : r \in pending[w] => p = "pending" /\ x = w
         /\ ident[r] \in Identity /\ ident[r] # NoIdentity
         /\ p # "pending" => answer[r] = "none"
<1>1. \A q \in Places : \A y \in Holders : Holds(r, q, y) => q = p /\ y = x
  BY DEF WaitingInv, OnePlace
<1>2. ident[r] \in Identity /\ (p # "pending" => answer[r] = "none")
  BY DEF WaitingInv, HeldIsOpen
<1> QED
  BY <1>1, <1>2, HeldAt, AllPlaces, PoolAssumption

\* Nothing happened to the places of r.
Still(r) ==
  /\ r \in checking' <=> r \in checking
  /\ \A s \in Subnode : r \in Range(lock'[s]) <=> r \in Range(lock[s])
  /\ \A s \in Subnode : r \in Range(queue'[s]) <=> r \in Range(queue[s])
  /\ \A w \in Worker : r \in drain'[w] <=> r \in drain[w]
  /\ \A w \in Worker : r \in pending'[w] <=> r \in pending[w]
  /\ ident'[r] = ident[r] /\ answer'[r] = answer[r]

\* r is nowhere any more.
Gone(r) ==
  /\ r \notin checking'
  /\ \A s \in Subnode : r \notin Range(lock'[s]) /\ r \notin Range(queue'[s])
  /\ \A w \in Worker : r \notin drain'[w] /\ r \notin pending'[w]

LEMMA StillHeld ==
  ASSUME NEW r, Still(r)
  PROVE  \A p, x : Holds(r, p, x)' <=> Holds(r, p, x)
BY DEF Still, Holds

LEMMA GoneHeld ==
  ASSUME NEW r, Gone(r)
  PROVE  \A p, x : ~Holds(r, p, x)'
BY DEF Gone, Holds

\* One request moves to a place, all others stay.
LEMMA OneMoves ==
  ASSUME WaitingInv, NoneTwice', phase' = phase,
         NEW m \in Request, \A r \in Request : r # m => Still(r),
         NEW q \in Places, NEW y \in Holders, Holds(m, q, y)',
         \A p \in Places : \A x \in Holders : Holds(m, p, x)' => p = q /\ x = y,
         ident'[m] \in Identity, q # "pending" => answer'[m] = "none"
  PROVE  WaitingInv'
<1>1. \A r \in Request : r # m => \A p, x : Holds(r, p, x)' <=> Holds(r, p, x)
  BY StillHeld
<1>2. \A r \in Request : r # m => ident'[r] = ident[r] /\ answer'[r] = answer[r]
  BY DEF Still
<1>3. OnePlace'
  BY <1>1 DEF WaitingInv, OnePlace
<1>4. HeldIsOpen'
  BY <1>1, <1>2 DEF WaitingInv, HeldIsOpen
<1>5. OpenIsHeld'
  BY <1>1, <1>2 DEF WaitingInv, OpenIsHeld
<1>6. AnsweredWasDispatched'
  BY <1>2 DEF WaitingInv, AnsweredWasDispatched
<1> QED
  BY <1>3, <1>4, <1>5, <1>6 DEF WaitingInv

\* One request is answered and leaves, all others stay.
LEMMA OneAnswered ==
  ASSUME WaitingInv, NoneTwice', phase' = phase,
         NEW m \in Request, \A r \in Request : r # m => Still(r), Gone(m), answer'[m] # "none",
         ident'[m] \in Identity
  PROVE  WaitingInv'
<1>1. \A r \in Request : r # m => \A p, x : Holds(r, p, x)' <=> Holds(r, p, x)
  BY StillHeld
<1>2. \A r \in Request : r # m => ident'[r] = ident[r] /\ answer'[r] = answer[r]
  BY DEF Still
<1>3. \A p, x : ~Holds(m, p, x)'
  BY GoneHeld
<1>4. OnePlace'
  BY <1>1, <1>3 DEF WaitingInv, OnePlace
<1>5. HeldIsOpen'
  BY <1>1, <1>2, <1>3 DEF WaitingInv, HeldIsOpen
<1>6. OpenIsHeld'
  BY <1>1, <1>2, <1>3 DEF WaitingInv, OpenIsHeld
<1>7. AnsweredWasDispatched'
  BY <1>2 DEF WaitingInv, AnsweredWasDispatched
<1> QED
  BY <1>4, <1>5, <1>6, <1>7 DEF WaitingInv

\* Nothing is moved or answered.
LEMMA NothingMoves ==
  ASSUME WaitingInv, UNCHANGED <<checking, lock, queue, drain, pending, ident, answer, phase>>
  PROVE  WaitingInv'
<1>1. \A r, p, x : Holds(r, p, x)' <=> Holds(r, p, x)
  BY DEF Holds
<1>2. OnePlace' /\ HeldIsOpen' /\ OpenIsHeld'
  BY <1>1 DEF WaitingInv, OnePlace, HeldIsOpen, OpenIsHeld
<1>3. NoneTwice' /\ AnsweredWasDispatched'
  BY DEF WaitingInv, NoneTwice, AnsweredWasDispatched
<1> QED
  BY <1>2, <1>3 DEF WaitingInv

\* A promise keeps its first resolution.
LEMMA Answering ==
  ASSUME NEW f \in [Request -> Answers], NEW A, NEW a \in Answers \ {"none"}
  PROVE  /\ Answer(f, A, a) \in [Request -> Answers]
         /\ \A r \in Request :
              /\ Answer(f, A, a)[r] = "none" <=> f[r] = "none" /\ r \notin A
              /\ r \notin A => Answer(f, A, a)[r] = f[r]
BY DEF Answer, Answers

\* Workers are removed, after the requests of A were answered and left their places.
LEMMA RemovalAnswers ==
  ASSUME Shapes, WaitingInv,
         NEW W \in SUBSET Worker, \A w \in W : home[w] \in Subnode,
         NEW A \in SUBSET Request, NEW a \in Answers \ {"none"},
         NEW queues \in [Subnode -> Seq(Request)],
         RemoveWorkers(W, Answer(answer, A, a), queues),
         NoneTwice',
         \A r \in Request :
           /\ r \in checking' <=> r \in checking /\ r \notin A
           /\ \A s \in Subnode : r \in Range(lock'[s]) <=> r \in Range(lock[s]) /\ r \notin A
           /\ \A s \in Subnode : r \in Range(queues[s]) <=> r \in Range(queue[s]) /\ r \notin A
           /\ \A w \in Worker : r \in drain'[w] <=> r \in drain[w] /\ r \notin A
           /\ r \notin A => ident'[r] = ident[r]
           /\ r \in A => ident'[r] \in Identity
           /\ ident[r] \in Identity => ident'[r] = ident[r],
         phase = "stopped" => phase' = "stopped"
  PROVE  WaitingInv'
<1> DEFINE answers == Answer(answer, A, a)
<1>1. /\ answers \in [Request -> Answers]
      /\ \A r \in Request : answers[r] = "none" <=> answer[r] = "none" /\ r \notin A
  <2>1. answer \in [Request -> Answers]
    BY DEF Shapes
  <2> QED BY <2>1, Answering
<1>2. RemoveWorkers(W, answers, queues)
  OBVIOUS
<1> HIDE DEF answers
<1>3. /\ \A s \in Emptied(W) : s \in Subnode /\ queue'[s] = <<>>
      /\ \A s \in Subnode : s \notin Emptied(W) => queue'[s] = queues[s]
      /\ \A w \in W : pending'[w] = {}
      /\ \A w \in Worker : w \notin W => pending'[w] = pending[w]
      /\ \A r \in Request : answer'[r] = "none" <=>
           /\ answers[r] = "none"
           /\ \A w \in W : r \notin pending[w]
           /\ \A s \in Emptied(W) : r \notin Range(queues[s])
  <2>1. Removed(W, answers, queues)
    BY <1>1, <1>2, Removal
  <2> QED
    BY <2>1 DEF Removed
<1>4. ASSUME NEW r \in Request
      PROVE  /\ r \in checking' => r \in checking
             /\ \A s \in Subnode : r \in Range(lock'[s]) => r \in Range(lock[s])
             /\ \A s \in Subnode : r \in Range(queue'[s]) =>
                  r \in Range(queue[s]) /\ r \notin A /\ s \notin Emptied(W)
             /\ \A w \in Worker : r \in drain'[w] => r \in drain[w]
             /\ \A w \in Worker : r \in pending'[w] => r \in pending[w] /\ w \notin W
  BY <1>3, NothingInEmpty
<1>5. ASSUME NEW r \in Request, NEW p, NEW x, Holds(r, p, x)'
      PROVE  Holds(r, p, x)
  BY <1>4, <1>5 DEF Holds
<1>6. OnePlace'
  BY <1>5 DEF WaitingInv, OnePlace
<1>7. HeldIsOpen'
  <2> SUFFICES ASSUME NEW r \in Request, NEW p \in Places, NEW x \in Holders, Holds(r, p, x)'
               PROVE  ident'[r] \in Identity /\ (p # "pending" => answer'[r] = "none")
    BY DEF HeldIsOpen
  <2>1. Holds(r, p, x)
    BY <1>5
  <2>2. ident[r] \in Identity /\ (p # "pending" => answer[r] = "none")
    BY <2>1, OnlyThere
  <2>3. ASSUME p # "pending" PROVE answer'[r] = "none"
    <3>1. r \notin A
      BY <1>4, <2>3 DEF Holds
    <3>2. \A w \in W : r \notin pending[w]
      BY <2>1, <2>3, OnlyThere
    <3>3. ASSUME NEW s \in Emptied(W), r \in Range(queues[s]) PROVE FALSE
      <4>1. s \in Subnode /\ r \in Range(queue[s])
        BY <1>3, <3>3
      <4>2. p = "queue" /\ x = s
        BY <2>1, <4>1, OnlyThere
      <4>3. r \in Range(queue'[s])
        BY <4>2 DEF Holds
      <4> QED
        BY <1>4, <3>3, <4>1, <4>3
    <3> QED
      BY <1>1, <1>3, <2>2, <2>3, <3>1, <3>2, <3>3
  <2> QED
    BY <2>2, <2>3
<1>8. OpenIsHeld'
  <2> SUFFICES ASSUME phase' # "stopped", NEW r \in Request,
                      ident'[r] # NoIdentity, answer'[r] = "none"
               PROVE  \E p \in Places : \E x \in Holders : Holds(r, p, x)'
    BY DEF OpenIsHeld
  <2>1. /\ r \notin A /\ answer[r] = "none"
        /\ \A w \in W : r \notin pending[w]
        /\ \A s \in Emptied(W) : r \notin Range(queues[s])
    BY <1>1, <1>3
  <2>2. PICK p \in Places, x \in Holders : Holds(r, p, x)
    BY <2>1 DEF WaitingInv, OpenIsHeld
  <2>3. /\ r \in checking => r \in checking'
        /\ \A s \in Subnode : r \in Range(lock[s]) => r \in Range(lock'[s])
        /\ \A w \in Worker : r \in drain[w] => r \in drain'[w]
    BY <2>1
  <2>4. \A w \in Worker : r \in pending[w] => r \in pending'[w]
    BY <1>3, <2>1
  <2>5. \A s \in Subnode : r \in Range(queue[s]) => r \in Range(queue'[s])
    BY <1>3, <2>1
  <2>6. Holds(r, p, x)'
    BY <2>2, <2>3, <2>4, <2>5 DEF Holds
  <2> QED
    BY <2>6
<1>9. AnsweredWasDispatched'
  <2> SUFFICES ASSUME NEW r \in Request, answer'[r] # "none"
               PROVE  ident'[r] \in Identity
    BY DEF AnsweredWasDispatched
  <2>1. CASE r \in A
    BY <2>1
  <2>2. CASE answer[r] # "none"
    <3>1. ident[r] \in Identity
      BY <2>2 DEF WaitingInv, AnsweredWasDispatched
    <3> QED
      BY <3>1
  <2>3. ASSUME NEW w \in W, r \in pending[w] PROVE ident'[r] \in Identity
    <3>1. Holds(r, "pending", w) /\ w \in Worker
      BY <2>3, HeldAt
    <3>2. ident[r] \in Identity
      BY <3>1, OnlyThere, AllPlaces
    <3> QED
      BY <3>2
  <2>4. ASSUME NEW s \in Emptied(W), r \in Range(queues[s]) PROVE ident'[r] \in Identity
    <3>1. s \in Subnode /\ r \in Range(queue[s])
      BY <1>3, <2>4
    <3>2. Holds(r, "queue", s)
      BY <3>1, HeldAt
    <3>3. ident[r] \in Identity
      BY <3>1, <3>2, OnlyThere, AllPlaces
    <3> QED
      BY <3>3
  <2> QED
    BY <1>1, <1>3, <2>1, <2>2, <2>3, <2>4
<1> QED
  BY <1>6, <1>7, <1>8, <1>9 DEF WaitingInv

-----------------------------------------------------------------------------
(* Queues *)

Busy(w) == running[w] # {} \/ drain[w] # {} \/ loop[w]

\* Queues get no longer than they are, and nobody who stays becomes idle.
LEMMA QueuesShrink ==
  ASSUME QueueWaitsForBusyWorkers,
         \A s \in Subnode : queue'[s] # <<>> =>
           /\ queue[s] # <<>>
           /\ workers'[s] # {} /\ workers'[s] \subseteq workers[s],
         workers \in [Subnode -> SUBSET Worker],
         \A s \in Subnode : \A w \in workers'[s] : Busy(w) => Busy(w)'
  PROVE  QueueWaitsForBusyWorkers'
BY DEF QueueWaitsForBusyWorkers, Busy

\* A queue whose last worker is removed is emptied.
LEMMA RemovalEmpties ==
  ASSUME Shapes, WorkersInv, QueueWaitsForBusyWorkers,
         NEW W \in SUBSET Worker, \A w \in W : home[w] \in Subnode,
         NEW answers \in [Request -> Answers], NEW queues \in [Subnode -> Seq(Request)],
         RemoveWorkers(W, answers, queues),
         \A s \in Subnode : queues[s] # <<>> => queue[s] # <<>>,
         \A w \in Worker : w \notin W /\ stage[w] = "up" =>
           /\ loop[w] => loop'[w]
           /\ drain[w] # {} => drain'[w] # {} \/ loop'[w]
  PROVE  QueueWaitsForBusyWorkers'
<1>1. /\ \A s \in Subnode : workers'[s] = workers[s] \ W
      /\ \A s \in Emptied(W) : s \in Subnode /\ queue'[s] = <<>>
      /\ \A s \in Subnode : s \notin Emptied(W) => queue'[s] = queues[s]
      /\ \A w \in Worker : w \notin W => running'[w] = running[w]
  <2>1. Removed(W, answers, queues)
    BY Removal
  <2> QED
    BY <2>1 DEF Removed
<1>2. ASSUME NEW s \in Subnode, queue'[s] # <<>>
      PROVE  queue[s] # <<>> /\ workers'[s] # {} /\ workers'[s] \subseteq workers[s]
  <2>1. s \notin Emptied(W) /\ queue[s] # <<>>
    BY <1>1, <1>2
  <2>2. PICK w \in workers[s] : TRUE
    BY <2>1 DEF QueueWaitsForBusyWorkers
  <2>3. w \in Worker /\ home[w] = s
    BY <2>2 DEF WorkersInv, WorkersAreUp, Shapes
  <2>4. CASE workers[s] \subseteq W
    <3>1. w \in W
      BY <2>4
    <3> QED
      BY <2>1, <2>3, <2>4, <3>1 DEF Emptied
  <2> QED
    BY <1>1, <2>1, <2>4
<1>3. ASSUME NEW s \in Subnode, NEW w \in workers'[s], Busy(w)
      PROVE  Busy(w)'
  <2>1. w \in Worker /\ w \notin W /\ stage[w] = "up"
    BY <1>1 DEF WorkersInv, WorkersAreUp, Shapes
  <2> QED
    BY <1>1, <1>3, <2>1 DEF Busy
<1> QED
  BY <1>2, <1>3, QueuesShrink DEF Shapes

-----------------------------------------------------------------------------
(* Steps with a removal *)

\* The requests of A leave where they wait, with answer a and before the workers of W go.
\* What else may happen in such a step: a loop continues in place of a group lookup, the lock
\* passes on from a worker of W, requests are given an identity and refused.
Removing(W, A, a, queues) ==
  /\ W \in SUBSET Worker /\ \A w \in W : home[w] \in Subnode
  /\ A \in SUBSET Request /\ a \in Answers \ {"none"}
  /\ queues \in [Subnode -> Seq(Request)]
  /\ RemoveWorkers(W, Answer(answer, A, a), queues)
  /\ home' = home /\ creds' = creds
  /\ lock' \in [Subnode -> Seq(Request)]
  /\ loop' \in [Worker -> BOOLEAN]
  /\ drain' \in [Worker -> SUBSET Request]
  /\ checking' \in SUBSET Request
  /\ ident' \in [Request -> Identity \cup {NoIdentity}]
  /\ phase' \in {"run", "draining", "stopped"}
  /\ phase = "stopped" => phase' = "stopped"
  /\ \A s \in Subnode :
       Distinct(lock'[s]) /\ Distinct(queues[s]) /\ (queues[s] # <<>> => queue[s] # <<>>)
  /\ \A r \in Request :
       /\ r \in checking' <=> r \in checking /\ r \notin A
       /\ \A s \in Subnode : r \in Range(lock'[s]) <=> r \in Range(lock[s]) /\ r \notin A
       /\ \A s \in Subnode : r \in Range(queues[s]) <=> r \in Range(queue[s]) /\ r \notin A
       /\ \A w \in Worker : r \in drain'[w] <=> r \in drain[w] /\ r \notin A
       /\ r \notin A => ident'[r] = ident[r]
       /\ r \in A => ident'[r] \in Identity
       /\ ident[r] \in Identity => ident'[r] = ident[r]
  /\ \A w \in Worker \ W : stage[w] = "starting" =>
       lock'[home[w]] # <<>> /\ Head(lock'[home[w]]) = Head(lock[home[w]])
  /\ \A w \in Worker : loop'[w] => loop[w] \/ drain[w] # {}
  /\ \A w \in Worker : w \notin W /\ stage[w] = "up" =>
       /\ loop[w] => loop'[w]
       /\ drain[w] # {} => drain'[w] # {} \/ loop'[w]

LEMMA RemovalKeeps ==
  ASSUME Inv, NEW W, NEW A, NEW a, NEW queues, Removing(W, A, a, queues)
  PROVE  Inv'
<1> DEFINE answers == Answer(answer, A, a)
<1>1. Shapes /\ WorkersInv /\ WaitingInv /\ QueueWaitsForBusyWorkers
  BY DEF Inv
<1>2. answers \in [Request -> Answers]
  BY <1>1, Answering DEF Removing, Shapes
<1>3. RemoveWorkers(W, answers, queues) /\ RemoveWorkers(W, Answer(answer, A, a), queues)
  BY DEF Removing
<1> HIDE DEF answers
<1>4. W \in SUBSET Worker /\ (\A w \in W : home[w] \in Subnode)
  BY DEF Removing
<1>5. A \in SUBSET Request /\ a \in Answers \ {"none"} /\ queues \in [Subnode -> Seq(Request)]
  BY DEF Removing
<1>6. Removed(W, answers, queues)
  BY <1>1, <1>2, <1>3, <1>4, <1>5, Removal
<1>7. Shapes'
  <2>1. /\ subnodes' \in [User -> Subnode \cup {NoSubnode}]
        /\ workers' \in [Subnode -> SUBSET Worker]
        /\ queue' \in [Subnode -> Seq(Request)]
        /\ stage' \in [Worker -> Stages]
        /\ idle' \in [Worker -> BOOLEAN]
        /\ pending' \in [Worker -> SUBSET Request]
        /\ running' \in [Worker -> SUBSET Request]
        /\ answer' \in [Request -> Answers]
    BY <1>1, <1>2, <1>3, <1>4, <1>5, Removal
  <2>2. /\ lock' \in [Subnode -> Seq(Request)]
        /\ home' = home /\ creds' = creds
        /\ loop' \in [Worker -> BOOLEAN]
        /\ drain' \in [Worker -> SUBSET Request]
        /\ checking' \in SUBSET Request
        /\ ident' \in [Request -> Identity \cup {NoIdentity}]
        /\ phase' \in {"run", "draining", "stopped"}
    BY DEF Removing
  <2> QED
    BY <1>1, <2>1, <2>2 DEF Shapes
<1>8. WorkersInv'
  <2>1. /\ home' = home /\ creds' = creds /\ lock' \in [Subnode -> Seq(Request)]
        /\ \A w \in Worker \ W : stage[w] = "starting" =>
             lock'[home[w]] # <<>> /\ Head(lock'[home[w]]) = Head(lock[home[w]])
        /\ \A w \in Worker : loop'[w] => loop[w] \/ drain[w] # {}
        /\ \A r \in Request : ident[r] \in Identity => ident'[r] = ident[r]
    BY DEF Removing
  <2>2. \A w \in Worker : drain'[w] \subseteq drain[w]
    BY <1>1 DEF Removing, Shapes
  <2> QED
    BY <1>1, <1>2, <1>3, <1>4, <1>5, <2>1, <2>2, RemovalLeaves
<1>9. NoneTwice'
  <2>1. \A s \in Subnode : Distinct(lock'[s]) /\ Distinct(queues[s])
    BY DEF Removing
  <2>2. \A s \in Subnode : queue'[s] = queues[s] \/ queue'[s] = <<>>
    BY <1>6 DEF Removed
  <2> QED
    BY <2>1, <2>2, NothingInEmpty DEF NoneTwice
<1>10. WaitingInv'
  <2>1. \A r \in Request :
          /\ r \in checking' <=> r \in checking /\ r \notin A
          /\ \A s \in Subnode : r \in Range(lock'[s]) <=> r \in Range(lock[s]) /\ r \notin A
          /\ \A s \in Subnode : r \in Range(queues[s]) <=> r \in Range(queue[s]) /\ r \notin A
          /\ \A w \in Worker : r \in drain'[w] <=> r \in drain[w] /\ r \notin A
          /\ r \notin A => ident'[r] = ident[r]
          /\ r \in A => ident'[r] \in Identity
          /\ ident[r] \in Identity => ident'[r] = ident[r]
    BY DEF Removing
  <2>2. phase = "stopped" => phase' = "stopped"
    BY DEF Removing
  <2> QED
    BY <1>1, <1>3, <1>4, <1>5, <1>9, <2>1, <2>2, RemovalAnswers
<1>11. QueueWaitsForBusyWorkers'
  <2>1. /\ \A s \in Subnode : queues[s] # <<>> => queue[s] # <<>>
        /\ \A w \in Worker : w \notin W /\ stage[w] = "up" =>
             /\ loop[w] => loop'[w]
             /\ drain[w] # {} => drain'[w] # {} \/ loop'[w]
    BY DEF Removing
  <2> QED
    BY <1>1, <1>2, <1>3, <1>4, <1>5, <2>1, RemovalEmpties
<1> QED
  BY <1>7, <1>8, <1>10, <1>11 DEF Inv

\* A removal that leaves everything else alone.
LEMMA RemovalAlone ==
  ASSUME Inv, NEW W \in SUBSET Worker, \A w \in W : home[w] \in Subnode,
         RemoveWorkers(W, answer, queue),
         UNCHANGED <<lock, home, creds, loop, drain, checking, ident, phase>>
  PROVE  Inv'
<1>1. Shapes /\ WaitingInv
  BY DEF Inv
<1>2. Answer(answer, {}, "error") = answer
  BY <1>1 DEF Answer, Shapes
<1>3. RemoveWorkers(W, Answer(answer, {}, "error"), queue)
  BY <1>2
<1>4. \A w \in Worker \ W : stage[w] = "starting" => lock[home[w]] # <<>>
  BY DEF Inv, WorkersInv, StartsForHead
<1>5. \A s \in Subnode : Distinct(lock[s]) /\ Distinct(queue[s])
  BY <1>1 DEF WaitingInv, NoneTwice
<1>6. Removing(W, {}, "error", queue)
  BY <1>1, <1>3, <1>4, <1>5 DEF Removing, Shapes, Answers
<1> QED
  BY <1>6, RemovalKeeps

\* A removal, and the answer to a request that waited in none of the four kinds of places.
LEMMA RemovalAnswersOne ==
  ASSUME Inv, NEW W \in SUBSET Worker, \A w \in W : home[w] \in Subnode,
         NEW m \in Request, NEW a \in Answers \ {"none"},
         RemoveWorkers(W, Answer(answer, {m}, a), queue),
         UNCHANGED <<lock, home, creds, loop, drain, phase>>,
         checking' = checking \ {m},
         \A s \in Subnode : m \notin Range(lock[s]) /\ m \notin Range(queue[s]),
         \A w \in Worker : m \notin drain[w],
         ident' \in [Request -> Identity \cup {NoIdentity}],
         \A r \in Request : r # m \/ ident[r] \in Identity => ident'[r] = ident[r],
         ident'[m] \in Identity
  PROVE  Inv'
<1>1. Shapes /\ WaitingInv
  BY DEF Inv
<1>2. \A w \in Worker \ W : stage[w] = "starting" => lock[home[w]] # <<>>
  BY DEF Inv, WorkersInv, StartsForHead
<1>3. \A s \in Subnode : Distinct(lock[s]) /\ Distinct(queue[s])
  BY <1>1 DEF WaitingInv, NoneTwice
<1>4. \A r \in Request :
        /\ r \in checking' <=> r \in checking /\ r \notin {m}
        /\ \A s \in Subnode : r \in Range(lock'[s]) <=> r \in Range(lock[s]) /\ r \notin {m}
        /\ \A s \in Subnode : r \in Range(queue[s]) <=> r \in Range(queue[s]) /\ r \notin {m}
        /\ \A w \in Worker : r \in drain'[w] <=> r \in drain[w] /\ r \notin {m}
        /\ r \notin {m} => ident'[r] = ident[r]
        /\ r \in {m} => ident'[r] \in Identity
        /\ ident[r] \in Identity => ident'[r] = ident[r]
  OBVIOUS
<1>5. /\ lock' \in [Subnode -> Seq(Request)]
      /\ loop' \in [Worker -> BOOLEAN]
      /\ drain' \in [Worker -> SUBSET Request]
      /\ checking' \in SUBSET Request
      /\ phase' \in {"run", "draining", "stopped"}
      /\ queue \in [Subnode -> Seq(Request)]
  BY <1>1 DEF Shapes
<1>6. Removing(W, {m}, a, queue)
  BY <1>2, <1>3, <1>4, <1>5 DEF Removing
<1> QED
  BY <1>6, RemovalKeeps

-----------------------------------------------------------------------------
(* The steps that remove workers *)

\* The workers of a Subnode are up and wired to it.
LEMMA WorkersOf ==
  ASSUME Inv, NEW s \in Subnode
  PROVE  /\ workers[s] \in SUBSET Worker
         /\ \A w \in workers[s] : stage[w] = "up" /\ home[w] = s
BY DEF Inv, Shapes, WorkersInv, WorkersAreUp

LEMMA EvictedWorkers ==
  ASSUME Inv, NEW u \in User
  PROVE  Evicted(u) \in SUBSET Worker /\ \A w \in Evicted(u) : home[w] \in Subnode
<1>1. subnodes[u] \in Subnode \/ subnodes[u] = NoSubnode
  BY DEF Inv, Shapes
<1> QED
  BY <1>1, WorkersOf DEF Evicted

\* A request that was not dispatched is nowhere.
LEMMA Undispatched ==
  ASSUME Inv, NEW r \in Request, ident[r] = NoIdentity
  PROVE  /\ r \notin checking
         /\ \A s \in Subnode : r \notin Range(lock[s]) /\ r \notin Range(queue[s])
         /\ \A w \in Worker : r \notin drain[w] /\ r \notin pending[w]
<1>1. \A p \in Places : \A x \in Holders : ~Holds(r, p, x)
  BY OnlyThere DEF Inv
<1> QED
  BY <1>1, HeldAt, AllPlaces

\* Where requests that wait are, and that they were dispatched.
LEMMA WaitsInCheck ==
  ASSUME Inv, NEW r \in checking
  PROVE  /\ r \in Request /\ ident[r] \in Identity /\ Username(r) \in User
         /\ answer[r] = "none"
         /\ \A s \in Subnode : r \notin Range(lock[s]) /\ r \notin Range(queue[s])
         /\ \A w \in Worker : r \notin drain[w] /\ r \notin pending[w]
<1>1. r \in Request /\ Holds(r, "checking", NoSubnode)
  BY HeldAt DEF Inv, Shapes
<1>2. /\ ident[r] \in Identity /\ answer[r] = "none"
      /\ \A s \in Subnode : r \notin Range(lock[s]) /\ r \notin Range(queue[s])
      /\ \A w \in Worker : r \notin drain[w] /\ r \notin pending[w]
  BY <1>1, OnlyThere, AllPlaces DEF Inv
<1>3. Username(r) \in User
  BY <1>2, PoolAssumption DEF Username
<1> QED
  BY <1>1, <1>2, <1>3

LEMMA WaitsInLock ==
  ASSUME Inv, NEW s \in Subnode, lock[s] # <<>>
  PROVE  /\ Head(lock[s]) \in Request /\ Head(lock[s]) \in Range(lock[s])
         /\ ident[Head(lock[s])] \in Identity /\ answer[Head(lock[s])] = "none"
         /\ Head(lock[s]) \notin checking
         /\ \A t \in Subnode : Head(lock[s]) \notin Range(queue[t])
         /\ \A t \in Subnode : Head(lock[s]) \in Range(lock[t]) => t = s
         /\ \A w \in Worker : Head(lock[s]) \notin drain[w] /\ Head(lock[s]) \notin pending[w]
<1>1. lock[s] \in Seq(Request) /\ Distinct(lock[s])
  BY DEF Inv, Shapes, WaitingInv, NoneTwice
<1>2. Head(lock[s]) \in Request /\ Head(lock[s]) \in Range(lock[s])
  BY <1>1, OfTail
<1>3. Holds(Head(lock[s]), "lock", s)
  BY <1>2, HeldAt
<1> QED
  BY <1>2, <1>3, OnlyThere, AllPlaces DEF Inv

LEMMA WaitsInQueue ==
  ASSUME Inv, NEW s \in Subnode, NEW r \in Range(queue[s])
  PROVE  /\ r \in Request /\ ident[r] \in Identity /\ answer[r] = "none"
         /\ r \notin checking
         /\ \A t \in Subnode : r \notin Range(lock[t])
         /\ \A t \in Subnode : r \in Range(queue[t]) => t = s
         /\ \A w \in Worker : r \notin drain[w] /\ r \notin pending[w]
<1>1. queue[s] \in Seq(Request)
  BY DEF Inv, Shapes
<1>2. r \in Request
  BY <1>1, InRange
<1>3. Holds(r, "queue", s)
  BY HeldAt
<1> QED
  BY <1>2, <1>3, OnlyThere, AllPlaces DEF Inv

LEMMA WaitsInDrain ==
  ASSUME Inv, NEW w \in Worker, NEW r \in drain[w]
  PROVE  /\ r \in Request /\ ident[r] \in Identity /\ Username(r) \in User
         /\ answer[r] = "none" /\ r \notin checking
         /\ \A s \in Subnode : r \notin Range(lock[s]) /\ r \notin Range(queue[s])
         /\ \A v \in Worker : r \notin pending[v] /\ (r \in drain[v] => v = w)
<1>1. r \in Request /\ Holds(r, "drain", w)
  BY HeldAt DEF Inv, Shapes
<1>2. /\ ident[r] \in Identity /\ answer[r] = "none" /\ r \notin checking
      /\ \A s \in Subnode : r \notin Range(lock[s]) /\ r \notin Range(queue[s])
      /\ \A v \in Worker : r \notin pending[v] /\ (r \in drain[v] => v = w)
  BY <1>1, OnlyThere, AllPlaces DEF Inv
<1>3. Username(r) \in User
  BY <1>2, PoolAssumption DEF Username
<1> QED
  BY <1>1, <1>2, <1>3

LEMMA WaitsForWorker ==
  ASSUME Inv, NEW w \in Worker, NEW r \in pending[w]
  PROVE  /\ r \in Request /\ ident[r] \in Identity
         /\ r \notin checking
         /\ \A s \in Subnode : r \notin Range(lock[s]) /\ r \notin Range(queue[s])
         /\ \A v \in Worker : r \notin drain[v] /\ (r \in pending[v] => v = w)
<1>1. r \in Request /\ Holds(r, "pending", w)
  BY HeldAt DEF Inv, Shapes
<1> QED
  BY <1>1, OnlyThere, AllPlaces DEF Inv

LEMMA DispatchBlockedKeeps ==
  ASSUME Inv, NEW r \in Request, NEW i \in Identity, DispatchBlocked(r, i)
  PROVE  Inv'
<1>1. UserOf[i] \in User
  BY PoolAssumption
<1>2. Evicted(UserOf[i]) \in SUBSET Worker /\ \A w \in Evicted(UserOf[i]) : home[w] \in Subnode
  BY <1>1, EvictedWorkers
<1>3. /\ checking' = checking \ {r}
      /\ \A s \in Subnode : r \notin Range(lock[s]) /\ r \notin Range(queue[s])
      /\ \A w \in Worker : r \notin drain[w]
  BY Undispatched DEF DispatchBlocked
<1>4. /\ ident' \in [Request -> Identity \cup {NoIdentity}]
      /\ \A q \in Request : q # r \/ ident[q] \in Identity => ident'[q] = ident[q]
      /\ ident'[r] \in Identity
  BY PoolAssumption DEF DispatchBlocked, Inv, Shapes
<1>5. RemoveWorkers(Evicted(UserOf[i]), Answer(answer, {r}, "error"), queue)
  BY DEF DispatchBlocked
<1>6. UNCHANGED <<lock, home, creds, loop, drain, phase>>
  BY DEF DispatchBlocked
<1>7. "error" \in Answers \ {"none"}
  BY DEF Answers
<1> QED
  BY <1>2, <1>3, <1>4, <1>5, <1>6, <1>7, RemovalAnswersOne

LEMMA RefuseKeeps ==
  ASSUME Inv, NEW r \in Request, Refuse(r)
  PROVE  Inv'
<1>1. r \in checking
  BY DEF Refuse
<1>2. /\ \A s \in Subnode : r \notin Range(lock[s]) /\ r \notin Range(queue[s])
      /\ \A w \in Worker : r \notin drain[w]
      /\ Username(r) \in User /\ ident[r] \in Identity
  BY <1>1, WaitsInCheck
<1>3. Evicted(Username(r)) \in SUBSET Worker
  BY <1>2, EvictedWorkers
<1>4. \A w \in Evicted(Username(r)) : home[w] \in Subnode
  BY <1>2, EvictedWorkers
<1>5. RemoveWorkers(Evicted(Username(r)), Answer(answer, {r}, "error"), queue)
  BY DEF Refuse
<1>6. UNCHANGED <<lock, home, creds, loop, drain, phase>> /\ checking' = checking \ {r}
  BY DEF Refuse
<1>7. ident' \in [Request -> Identity \cup {NoIdentity}] /\ ident' = ident
  BY DEF Refuse, Inv, Shapes
<1>8. "error" \in Answers \ {"none"}
  BY DEF Answers
<1> QED
  BY <1>2, <1>3, <1>4, <1>5, <1>6, <1>7, <1>8, RemovalAnswersOne

LEMMA DropStaleKeeps ==
  ASSUME Inv, NEW s \in Subnode, DropStale(s)
  PROVE  Inv'
<1> DEFINE W == Stale(s, Head(lock[s]))
<1>1. RemoveWorkers(W, answer, queue)
  BY DEF DropStale
<1>2. W \in SUBSET Worker /\ \A w \in W : home[w] \in Subnode
  BY WorkersOf DEF Stale
<1>3. UNCHANGED <<lock, home, creds, loop, drain, checking, ident, phase>>
  BY DEF DropStale
<1> QED
  BY <1>1, <1>2, <1>3, RemovalAlone

LEMMA RespondUnknownKeeps ==
  ASSUME Inv, NEW w \in Worker, NEW r \in Request, RespondUnknown(w, r)
  PROVE  Inv'
<1>1. RemoveWorkers({w}, answer, queue)
  BY DEF RespondUnknown
<1>2. {w} \in SUBSET Worker /\ \A v \in {w} : home[v] \in Subnode
  BY DEF RespondUnknown, Inv, WorkersInv, Wired
<1>3. UNCHANGED <<lock, home, creds, loop, drain, checking, ident, phase>>
  BY DEF RespondUnknown
<1> QED
  BY <1>1, <1>2, <1>3, RemovalAlone

LEMMA IdleTimeoutKeeps ==
  ASSUME Inv, NEW w \in Worker, IdleTimeout(w)
  PROVE  Inv'
<1>1. RemoveWorkers({w}, answer, queue)
  BY DEF IdleTimeout
<1>2. stage[w] = "up"
  BY DEF IdleTimeout, Inv, WorkersInv, OnlyUpRun
<1>3. {w} \in SUBSET Worker /\ \A v \in {w} : home[v] \in Subnode
  BY <1>2 DEF Inv, WorkersInv, Wired
<1>4. UNCHANGED <<lock, home, creds, loop, drain, checking, ident, phase>>
  BY DEF IdleTimeout
<1> QED
  BY <1>1, <1>3, <1>4, RemovalAlone

LEMMA RpcTimeoutKeeps ==
  ASSUME Inv, NEW w \in Worker, NEW r \in Request, RpcTimeout(w, r)
  PROVE  Inv'
<1>1. RemoveWorkers({w}, Answer(answer, {r}, "timeout"), queue)
  BY DEF RpcTimeout
<1>2. {w} \in SUBSET Worker /\ \A v \in {w} : home[v] \in Subnode
  BY DEF RpcTimeout, Inv, WorkersInv, Wired
<1>3. r \in pending[w]
  BY DEF RpcTimeout
<1>4. /\ \A s \in Subnode : r \notin Range(lock[s]) /\ r \notin Range(queue[s])
      /\ \A v \in Worker : r \notin drain[v]
      /\ r \notin checking /\ ident[r] \in Identity
  BY <1>3, WaitsForWorker
<1>5. checking' = checking \ {r} /\ UNCHANGED <<lock, home, creds, loop, drain, phase>>
  BY <1>4 DEF RpcTimeout
<1>6. ident' \in [Request -> Identity \cup {NoIdentity}] /\ ident' = ident
  BY DEF RpcTimeout, Inv, Shapes
<1>7. "timeout" \in Answers \ {"none"}
  BY DEF Answers
<1> QED
  BY <1>1, <1>2, <1>4, <1>5, <1>6, <1>7, RemovalAnswersOne

\* The lock passes on: its head has left, and is nowhere else.
LEMMA Unlocking ==
  ASSUME Inv, NEW s \in Subnode, lock[s] # <<>>, Unlocked(s)
  PROVE  /\ lock' \in [Subnode -> Seq(Request)]
         /\ \A t \in Subnode : Distinct(lock'[t]) /\ (t # s => lock'[t] = lock[t])
         /\ \A r \in Request : \A t \in Subnode :
              r \in Range(lock'[t]) <=> r \in Range(lock[t]) /\ r # Head(lock[s])
<1>1. lock \in [Subnode -> Seq(Request)] /\ \A t \in Subnode : Distinct(lock[t])
  BY DEF Inv, Shapes, WaitingInv, NoneTwice
<1>2. /\ Tail(lock[s]) \in Seq(Request) /\ Distinct(Tail(lock[s]))
      /\ \A x : x \in Range(Tail(lock[s])) <=> x \in Range(lock[s]) /\ x # Head(lock[s])
  BY <1>1, OfTail
<1>3. lock' = [lock EXCEPT ![s] = Tail(lock[s])]
  BY DEF Unlocked
<1>4. lock' \in [Subnode -> Seq(Request)]
  BY <1>1, <1>2, <1>3
<1>5. lock'[s] = Tail(lock[s]) /\ \A t \in Subnode : t # s => lock'[t] = lock[t]
  BY <1>1, <1>3
<1>6. \A t \in Subnode : Head(lock[s]) \in Range(lock[t]) => t = s
  BY WaitsInLock
<1> QED
  BY <1>1, <1>2, <1>4, <1>5, <1>6

\* What the queues are when the first entry of one of them has left.
Shifted(queues, s) ==
  /\ queues \in [Subnode -> Seq(Request)]
  /\ \A t \in Subnode : Distinct(queues[t]) /\ (queues[t] # <<>> => queue[t] # <<>>)
  /\ \A r \in Request : \A t \in Subnode :
       r \in Range(queues[t]) <=> r \in Range(queue[t]) /\ r # Head(queue[s])
  /\ Head(queue[s]) \in Range(queue[s])

LEMMA Unqueueing ==
  ASSUME Inv, NEW s \in Subnode, queue[s] # <<>>
  PROVE  Shifted([queue EXCEPT ![s] = Tail(@)], s)
<1> DEFINE queues == [queue EXCEPT ![s] = Tail(@)]
<1>1. queue \in [Subnode -> Seq(Request)] /\ \A t \in Subnode : Distinct(queue[t])
  BY DEF Inv, Shapes, WaitingInv, NoneTwice
<1>2. /\ Tail(queue[s]) \in Seq(Request) /\ Distinct(Tail(queue[s]))
      /\ Head(queue[s]) \in Range(queue[s])
      /\ \A x : x \in Range(Tail(queue[s])) <=> x \in Range(queue[s]) /\ x # Head(queue[s])
  BY <1>1, OfTail
<1>3. queues \in [Subnode -> Seq(Request)]
  BY <1>1, <1>2
<1>4. queues[s] = Tail(queue[s]) /\ \A t \in Subnode : t # s => queues[t] = queue[t]
  BY <1>1
<1>5. \A t \in Subnode : Head(queue[s]) \in Range(queue[t]) => t = s
  BY <1>2, WaitsInQueue
<1> HIDE DEF queues
<1>6. Shifted(queues, s)
  BY <1>1, <1>2, <1>3, <1>4, <1>5 DEF Shifted
<1> QED
  BY <1>6 DEF queues

LEMMA DrainStaleKeeps ==
  ASSUME Inv, NEW w \in Worker, NEW r \in Request, DrainStale(w, r)
  PROVE  Inv'
<1> DEFINE s == home[w]
           W == {w} \cap workers[s]
           queues == [queue EXCEPT ![s] = Tail(@)]
<1>1. s \in Subnode /\ queue[s] # <<>> /\ r = Head(queue[s]) /\ loop[w]
  BY DEF DrainStale, Inv, WorkersInv, Wired
<1>2. /\ queues \in [Subnode -> Seq(Request)]
      /\ \A t \in Subnode : Distinct(queues[t]) /\ (queues[t] # <<>> => queue[t] # <<>>)
      /\ \A q \in Request : \A t \in Subnode :
           q \in Range(queues[t]) <=> q \in Range(queue[t]) /\ q \notin {r}
      /\ r \in Range(queue[s])
  <2>1. Shifted(queues, s)
    BY <1>1, Unqueueing
  <2> HIDE DEF queues
  <2> QED
    BY <1>1, <2>1 DEF Shifted
<1>3. /\ r \notin checking /\ ident[r] \in Identity
      /\ \A t \in Subnode : r \notin Range(lock[t])
      /\ \A v \in Worker : r \notin drain[v]
  BY <1>1, <1>2, WaitsInQueue
<1>4. W \in SUBSET Worker /\ \A v \in W : home[v] \in Subnode
  BY <1>1
<1>5. RemoveWorkers(W, Answer(answer, {r}, "error"), queues)
  BY DEF DrainStale
<1>6. loop' = [loop EXCEPT ![w] = FALSE] /\ UNCHANGED <<lock, home, creds, drain, checking, ident, phase>>
  BY DEF DrainStale
<1>7. Shapes /\ \A t \in Subnode : Distinct(lock[t])
  BY DEF Inv, WaitingInv, NoneTwice
<1>8. loop' \in [Worker -> BOOLEAN] /\ \A v \in Worker : (loop'[v] => loop[v]) /\ (v # w => loop'[v] = loop[v])
  BY <1>6, <1>7, Zenon DEF Shapes
<1>9. \A v \in Worker : v \notin W /\ stage[v] = "up" => v # w
  BY <1>1 DEF Inv, WorkersInv, WorkersAreUp
<1>10. \A v \in Worker \ W : stage[v] = "starting" => lock[home[v]] # <<>>
  BY DEF Inv, WorkersInv, StartsForHead
<1> HIDE DEF W, queues
<1>11. Removing(W, {r}, "error", queues)
  <2>1. \A q \in Request :
          /\ q \in checking' <=> q \in checking /\ q \notin {r}
          /\ \A t \in Subnode : q \in Range(lock'[t]) <=> q \in Range(lock[t]) /\ q \notin {r}
          /\ \A t \in Subnode : q \in Range(queues[t]) <=> q \in Range(queue[t]) /\ q \notin {r}
          /\ \A v \in Worker : q \in drain'[v] <=> q \in drain[v] /\ q \notin {r}
          /\ ident'[q] = ident[q]
          /\ q \in {r} => ident'[q] \in Identity
    BY <1>2, <1>3, <1>6
  <2>2. /\ lock' \in [Subnode -> Seq(Request)]
        /\ drain' \in [Worker -> SUBSET Request]
        /\ checking' \in SUBSET Request
        /\ ident' \in [Request -> Identity \cup {NoIdentity}]
        /\ phase' \in {"run", "draining", "stopped"}
        /\ "error" \in Answers \ {"none"}
    BY <1>6, <1>7 DEF Shapes, Answers
  <2>3. \A v \in Worker : v \notin W /\ stage[v] = "up" =>
          (loop[v] => loop'[v]) /\ (drain[v] # {} => drain'[v] # {} \/ loop'[v])
    BY <1>6, <1>8, <1>9
  <2> QED
    BY <1>2, <1>4, <1>5, <1>6, <1>7, <1>8, <1>10, <2>1, <2>2, <2>3 DEF Removing
<1> QED
  BY <1>11, RemovalKeeps

LEMMA DrainRefuseKeeps ==
  ASSUME Inv, NEW w \in Worker, NEW r \in Request, DrainRefuse(w, r)
  PROVE  Inv'
<1> DEFINE W == Evicted(Username(r))
<1>1. r \in drain[w]
  BY DEF DrainRefuse
<1>2. /\ Username(r) \in User /\ r \notin checking /\ ident[r] \in Identity
      /\ \A s \in Subnode : r \notin Range(lock[s]) /\ r \notin Range(queue[s])
      /\ \A v \in Worker : r \in drain[v] => v = w
  BY <1>1, WaitsInDrain
<1>3. W \in SUBSET Worker
  BY <1>2, EvictedWorkers
<1>4. \A v \in W : home[v] \in Subnode
  BY <1>2, EvictedWorkers
<1>5. RemoveWorkers(W, Answer(answer, {r}, "error"), queue)
  BY DEF DrainRefuse
<1>6. /\ loop' = [loop EXCEPT ![w] = TRUE] /\ drain' = [drain EXCEPT ![w] = @ \ {r}]
      /\ UNCHANGED <<lock, home, creds, checking, ident, phase>>
  BY DEF DrainRefuse
<1>7. Shapes /\ \A t \in Subnode : Distinct(lock[t]) /\ Distinct(queue[t])
  BY DEF Inv, WaitingInv, NoneTwice
<1>8. /\ loop' \in [Worker -> BOOLEAN] /\ loop'[w]
      /\ \A v \in Worker : v # w => loop'[v] = loop[v]
  BY <1>6, <1>7, Zenon DEF Shapes
<1>9. /\ drain' \in [Worker -> SUBSET Request] /\ drain'[w] = drain[w] \ {r}
      /\ \A v \in Worker : v # w => drain'[v] = drain[v]
  BY <1>6, <1>7 DEF Shapes
<1>10. \A v \in Worker \ W : stage[v] = "starting" => lock[home[v]] # <<>>
  BY DEF Inv, WorkersInv, StartsForHead
<1> HIDE DEF W
<1>11. Removing(W, {r}, "error", queue)
  <2>1. \A q \in Request :
          /\ q \in checking' <=> q \in checking /\ q \notin {r}
          /\ \A t \in Subnode : q \in Range(lock'[t]) <=> q \in Range(lock[t]) /\ q \notin {r}
          /\ \A t \in Subnode : q \in Range(queue[t]) <=> q \in Range(queue[t]) /\ q \notin {r}
          /\ \A v \in Worker : q \in drain'[v] <=> q \in drain[v] /\ q \notin {r}
          /\ ident'[q] = ident[q]
          /\ q \in {r} => ident'[q] \in Identity
    BY <1>2, <1>6, <1>9
  <2>2. /\ lock' \in [Subnode -> Seq(Request)]
        /\ checking' \in SUBSET Request
        /\ ident' \in [Request -> Identity \cup {NoIdentity}]
        /\ phase' \in {"run", "draining", "stopped"}
        /\ "error" \in Answers \ {"none"}
        /\ queue \in [Subnode -> Seq(Request)]
    BY <1>6, <1>7 DEF Shapes, Answers
  <2>3. \A v \in Worker :
          /\ loop[v] => loop'[v]
          /\ drain[v] # {} => drain'[v] # {} \/ loop'[v]
          /\ loop'[v] => loop[v] \/ drain[v] # {}
    BY <1>1, <1>8, <1>9
  <2> QED
    BY <1>3, <1>4, <1>5, <1>6, <1>7, <1>8, <1>9, <1>10, <2>1, <2>2, <2>3 DEF Removing
<1> QED
  BY <1>11, RemovalKeeps

LEMMA ExitKeeps ==
  ASSUME Inv, NEW w \in Worker, Exit(w)
  PROVE  Inv'
<1>1. {w} \in SUBSET Worker /\ \A v \in {w} : home[v] \in Subnode
  BY DEF Exit, Inv, WorkersInv, Wired
<1>2. UNCHANGED <<home, creds, loop, drain, checking, ident, phase>>
  BY DEF Exit
<1>3. CASE stage[w] # "starting"
  <2>1. RemoveWorkers({w}, answer, queue) /\ UNCHANGED lock
    BY <1>3 DEF Exit
  <2> QED
    BY <1>1, <1>2, <2>1, RemovalAlone
<1>4. CASE stage[w] = "starting"
  <2> DEFINE s == home[w]
             r == Head(lock[s])
  <2>1. s \in Subnode /\ lock[s] # <<>>
    BY <1>1, <1>4 DEF Inv, WorkersInv, StartsForHead
  <2>2. /\ r \in Request /\ r \notin checking /\ ident[r] \in Identity
        /\ \A t \in Subnode : r \notin Range(queue[t])
        /\ \A v \in Worker : r \notin drain[v]
    BY <2>1, WaitsInLock
  <2>3. /\ RemoveWorkers({w}, Answer(answer, {r}, "error"), queue)
        /\ Unlocked(s)
    BY <1>4 DEF Exit
  <2>4. /\ lock' \in [Subnode -> Seq(Request)]
        /\ \A t \in Subnode : Distinct(lock'[t]) /\ (t # s => lock'[t] = lock[t])
        /\ \A q \in Request : \A t \in Subnode :
             q \in Range(lock'[t]) <=> q \in Range(lock[t]) /\ q \notin {r}
    BY <2>1, <2>3, Unlocking
  <2>5. Shapes /\ \A t \in Subnode : Distinct(queue[t])
    BY DEF Inv, WaitingInv, NoneTwice
  <2>6. \A v \in Worker \ {w} : stage[v] = "starting" =>
          lock'[home[v]] # <<>> /\ Head(lock'[home[v]]) = Head(lock[home[v]])
    <3> SUFFICES ASSUME NEW v \in Worker \ {w}, stage[v] = "starting"
                 PROVE  lock'[home[v]] # <<>> /\ lock'[home[v]] = lock[home[v]]
      OBVIOUS
    <3>1. home[v] \in Subnode /\ lock[home[v]] # <<>> /\ home[v] # home[w]
      BY <1>4 DEF Inv, WorkersInv, OneStarts, StartsForHead, Wired
    <3> QED
      BY <2>4, <3>1
  <2> HIDE DEF r
  <2>7. Removing({w}, {r}, "error", queue)
    <3>1. \A q \in Request :
            /\ q \in checking' <=> q \in checking /\ q \notin {r}
            /\ \A t \in Subnode : q \in Range(lock'[t]) <=> q \in Range(lock[t]) /\ q \notin {r}
            /\ \A t \in Subnode : q \in Range(queue[t]) <=> q \in Range(queue[t]) /\ q \notin {r}
            /\ \A v \in Worker : q \in drain'[v] <=> q \in drain[v] /\ q \notin {r}
            /\ ident'[q] = ident[q]
            /\ q \in {r} => ident'[q] \in Identity
      BY <1>2, <2>2, <2>4
    <3>2. /\ loop' \in [Worker -> BOOLEAN]
          /\ drain' \in [Worker -> SUBSET Request]
          /\ checking' \in SUBSET Request
          /\ ident' \in [Request -> Identity \cup {NoIdentity}]
          /\ phase' \in {"run", "draining", "stopped"}
          /\ "error" \in Answers \ {"none"} /\ {r} \in SUBSET Request
          /\ queue \in [Subnode -> Seq(Request)]
      BY <1>2, <2>2, <2>5 DEF Shapes, Answers
    <3> QED
      BY <1>1, <1>2, <2>3, <2>4, <2>5, <2>6, <3>1, <3>2 DEF Removing
  <2> QED
    BY <2>7, RemovalKeeps
<1> QED
  BY <1>3, <1>4

LEMMA ShutdownKeeps ==
  ASSUME Inv, Shutdown
  PROVE  Inv'
<1> DEFINE W == {w \in PooledWorkers : pending[w] = {}}
           A == UNION {Range(queue[s]) : s \in Pooled}
           queues == [s \in Subnode |-> IF s \in Pooled THEN <<>> ELSE queue[s]]
<1>1. Pooled \in SUBSET Subnode
  BY DEF Pooled, Inv, Shapes
<1>2. W \in SUBSET Worker
  BY <1>1, WorkersOf DEF PooledWorkers
<1>3. \A w \in W : home[w] \in Subnode
  BY <1>1, WorkersOf DEF PooledWorkers
<1>4. ASSUME NEW r \in A
      PROVE  /\ r \in Request /\ r \notin checking /\ ident[r] \in Identity
             /\ \A t \in Subnode : r \notin Range(lock[t])
             /\ \A t \in Subnode : r \in Range(queue[t]) => t \in Pooled
             /\ \A v \in Worker : r \notin drain[v]
  <2>1. PICK s \in Pooled : r \in Range(queue[s])
    BY <1>4
  <2> QED
    BY <1>1, <2>1, WaitsInQueue
<1>5. RemoveWorkers(W, Answer(answer, A, "error"), queues)
  BY DEF Shutdown
<1>6. UNCHANGED <<lock, home, creds, loop, drain, checking, ident>> /\ phase' = "draining" /\ phase = "run"
  BY DEF Shutdown
<1>7. Shapes /\ \A t \in Subnode : Distinct(lock[t]) /\ Distinct(queue[t])
  BY DEF Inv, WaitingInv, NoneTwice
<1>8. /\ \A t \in Subnode : t \notin Pooled => queues[t] = queue[t]
      /\ \A t \in Subnode : t \in Pooled => queues[t] = <<>>
  OBVIOUS
<1>9. queues \in [Subnode -> Seq(Request)]
  <2>1. <<>> \in Seq(Request)
    OBVIOUS
  <2> QED
    BY <1>7, <2>1 DEF Shapes
<1>10. \A r : \A t \in Pooled : r \in Range(queue[t]) => r \in A
  OBVIOUS
<1>11. \A v \in Worker \ W : stage[v] = "starting" => lock[home[v]] # <<>>
  BY DEF Inv, WorkersInv, StartsForHead
<1> HIDE DEF W, A, queues
<1>12. Removing(W, A, "error", queues)
  <2>1. ASSUME NEW r \in Request, NEW t \in Subnode
        PROVE  r \in Range(queues[t]) <=> r \in Range(queue[t]) /\ r \notin A
    BY <1>4, <1>8, <1>10, NothingInEmpty
  <2>2. \A r \in Request :
          /\ r \in checking' <=> r \in checking /\ r \notin A
          /\ \A t \in Subnode : r \in Range(lock'[t]) <=> r \in Range(lock[t]) /\ r \notin A
          /\ \A v \in Worker : r \in drain'[v] <=> r \in drain[v] /\ r \notin A
          /\ ident'[r] = ident[r]
          /\ r \in A => ident'[r] \in Identity
    BY <1>4, <1>6
  <2>3. /\ lock' \in [Subnode -> Seq(Request)]
        /\ loop' \in [Worker -> BOOLEAN]
        /\ drain' \in [Worker -> SUBSET Request]
        /\ checking' \in SUBSET Request
        /\ ident' \in [Request -> Identity \cup {NoIdentity}]
        /\ phase' \in {"run", "draining", "stopped"}
        /\ "error" \in Answers \ {"none"} /\ A \in SUBSET Request
    BY <1>4, <1>6, <1>7 DEF Shapes, Answers
  <2>4. \A t \in Subnode :
          Distinct(lock'[t]) /\ Distinct(queues[t]) /\ (queues[t] # <<>> => queue[t] # <<>>)
    BY <1>6, <1>7, <1>8, NothingInEmpty
  <2> QED
    BY <1>2, <1>3, <1>5, <1>6, <1>9, <1>11, <2>1, <2>2, <2>3, <2>4 DEF Removing
<1> QED
  BY <1>12, RemovalKeeps

LEMMA StopKeeps ==
  ASSUME Inv, Stop
  PROVE  Inv'
<1>1. /\ phase' = "stopped" /\ checking' = {} /\ UNCHANGED <<home, creds, ident>>
      /\ subnodes' = [u \in User |-> NoSubnode]
      /\ workers' = [s \in Subnode |-> {}]
      /\ queue' = [s \in Subnode |-> <<>>]
      /\ lock' = [s \in Subnode |-> <<>>]
      /\ stage' = [w \in Worker |-> "free"]
      /\ idle' = [w \in Worker |-> FALSE]
      /\ pending' = [w \in Worker |-> {}]
      /\ running' = [w \in Worker |-> {}]
      /\ loop' = [w \in Worker |-> FALSE]
      /\ drain' = [w \in Worker |-> {}]
      /\ answer' = Answer(answer, UNION {pending[w] : w \in PooledWorkers}, "error")
  BY DEF Stop
<1>2. Shapes
  BY DEF Inv
<1>3. Shapes'
  <2>1. <<>> \in Seq(Request)
    OBVIOUS
  <2>2. answer' \in [Request -> Answers]
    BY <1>1, <1>2 DEF Answer, Answers, Shapes
  <2>3. idle' \in [Worker -> BOOLEAN] /\ loop' \in [Worker -> BOOLEAN]
    BY <1>1
  <2>4. /\ queue' \in [Subnode -> Seq(Request)] /\ lock' \in [Subnode -> Seq(Request)]
    BY <1>1, <2>1
  <2>5. /\ subnodes' \in [User -> Subnode \cup {NoSubnode}]
        /\ workers' \in [Subnode -> SUBSET Worker]
        /\ stage' \in [Worker -> Stages]
        /\ pending' \in [Worker -> SUBSET Request]
        /\ running' \in [Worker -> SUBSET Request]
        /\ drain' \in [Worker -> SUBSET Request]
    BY <1>1 DEF Stages
  <2> QED
    BY <1>1, <1>2, <2>2, <2>3, <2>4, <2>5 DEF Shapes
<1>4. WorkersInv'
  <2>1. Leaving
    BY <1>1 DEF Leaving
  <2> QED
    BY <1>2, <1>3, <2>1, WorkersLeave DEF Inv, Shapes
<1>5. WaitingInv'
  <2>1. \A s \in Subnode : lock'[s] = <<>> /\ queue'[s] = <<>>
    BY <1>1
  <2>2. \A r, p, x : ~Holds(r, p, x)'
    BY <1>1, <2>1, NothingInEmpty DEF Holds
  <2>3. NoneTwice'
    BY <2>1, NothingInEmpty DEF NoneTwice
  <2>4. ASSUME NEW r \in Request, answer'[r] # "none"
        PROVE  ident'[r] \in Identity
    <3>1. answer[r] # "none" \/ \E w \in PooledWorkers : r \in pending[w]
      BY <1>1, <2>4 DEF Answer
    <3>2. PooledWorkers \subseteq Worker
      BY WorkersOf DEF PooledWorkers, Pooled, Inv, Shapes
    <3>3. ident[r] \in Identity
      BY <3>1, <3>2, WaitsForWorker DEF Inv, WaitingInv, AnsweredWasDispatched
    <3> QED
      BY <1>1, <3>3
  <2> QED
    BY <1>1, <2>2, <2>3, <2>4
    DEF WaitingInv, OnePlace, HeldIsOpen, OpenIsHeld, AnsweredWasDispatched
<1>6. QueueWaitsForBusyWorkers'
  BY <1>1 DEF QueueWaitsForBusyWorkers
<1> QED
  BY <1>3, <1>4, <1>5, <1>6 DEF Inv

-----------------------------------------------------------------------------
(* The other steps *)

\* Nothing happens to the workers.
LEMMA WorkersUnmoved ==
  ASSUME Inv, UNCHANGED <<workers, stage, home, creds, idle, pending, running, drain>>,
         lock' \in [Subnode -> Seq(Request)],
         \A w \in Worker : stage[w] = "starting" =>
           lock'[home[w]] # <<>> /\ Head(lock'[home[w]]) = Head(lock[home[w]]),
         \A w \in Worker : loop'[w] => loop[w],
         \A r \in Request : ident[r] \in Identity => ident'[r] = ident[r]
  PROVE  WorkersInv'
<1>1. Shapes /\ WorkersInv
  BY DEF Inv
<1>2. Leaving
  BY <1>1 DEF Leaving, WorkersInv, WorkersAreUp, OnlyUpRun
<1>3. stage' \in [Worker -> Stages]
  BY <1>1 DEF Shapes
<1> QED
  BY <1>1, <1>2, <1>3, WorkersLeave

LEMMA QueuesUnmoved ==
  ASSUME Inv, workers' = workers,
         \A s \in Subnode : queue'[s] # <<>> => queue[s] # <<>>,
         \A s \in Subnode : \A w \in workers[s] : Busy(w) => Busy(w)'
  PROVE  QueueWaitsForBusyWorkers'
BY DEF Inv, QueueWaitsForBusyWorkers, Busy

\* One request is answered.
LEMMA AnswersOne ==
  ASSUME Inv, NEW m \in Request, NEW a \in Answers \ {"none"}, answer' = Answer(answer, {m}, a)
  PROVE  /\ answer' \in [Request -> Answers] /\ answer'[m] # "none"
         /\ \A r \in Request : r # m => answer'[r] = answer[r]
BY DEF Inv, Shapes, Answer, Answers

LEMMA LocksStand ==
  ASSUME Inv
  PROVE  \A w \in Worker : stage[w] = "starting" => home[w] \in Subnode /\ lock[home[w]] # <<>>
BY DEF Inv, WorkersInv, StartsForHead, Wired

LEMMA DispatchLateKeeps ==
  ASSUME Inv, NEW r \in Request, NEW i \in Identity, DispatchLate(r, i)
  PROVE  Inv'
<1>1. /\ ident[r] = NoIdentity /\ ident' = [ident EXCEPT ![r] = i]
      /\ answer' = Answer(answer, {r}, "error")
      /\ UNCHANGED <<subnodes, workers, queue, lock, stage, home, creds, idle, pending,
                     running, loop, drain, checking, phase>>
  BY DEF DispatchLate
<1>2. Shapes /\ NoneTwice
  BY DEF Inv, WaitingInv
<1>3. /\ answer' \in [Request -> Answers] /\ answer'[r] # "none"
      /\ \A q \in Request : q # r => answer'[q] = answer[q]
  <2>1. "error" \in Answers \ {"none"}
    BY DEF Answers
  <2> QED
    BY <1>1, <2>1, AnswersOne
<1>4. /\ ident' \in [Request -> Identity \cup {NoIdentity}] /\ ident'[r] \in Identity
      /\ \A q \in Request : q # r \/ ident[q] \in Identity => ident'[q] = ident[q]
  BY <1>1, <1>2, PoolAssumption DEF Shapes
<1>5. Shapes'
  BY <1>1, <1>2, <1>3, <1>4 DEF Shapes
<1>6. WorkersInv'
  BY <1>1, <1>4, <1>5, LocksStand, WorkersUnmoved DEF Shapes
<1>7. WaitingInv'
  <2>1. \A q \in Request : q # r => Still(q)
    BY <1>1, <1>3, <1>4 DEF Still
  <2>2. Gone(r)
    BY <1>1, Undispatched DEF Gone
  <2>3. NoneTwice'
    BY <1>1, <1>2 DEF NoneTwice
  <2> QED
    BY <1>1, <1>3, <1>4, <2>1, <2>2, <2>3, OneAnswered DEF Inv
<1>8. QueueWaitsForBusyWorkers'
  BY <1>1, QueuesUnmoved DEF Busy
<1> QED
  BY <1>5, <1>6, <1>7, <1>8 DEF Inv

LEMMA DispatchKeeps ==
  ASSUME Inv, NEW r \in Request, NEW i \in Identity, Dispatch(r, i)
  PROVE  Inv'
<1>1. /\ ident[r] = NoIdentity /\ ident' = [ident EXCEPT ![r] = i]
      /\ checking' = checking \cup {r}
      /\ UNCHANGED <<subnodes, workers, queue, lock, stage, home, creds, idle, pending,
                     running, loop, drain, answer, phase>>
  BY DEF Dispatch
<1>2. Shapes /\ NoneTwice
  BY DEF Inv, WaitingInv
<1>4. /\ ident' \in [Request -> Identity \cup {NoIdentity}] /\ ident'[r] = i
      /\ \A q \in Request : q # r \/ ident[q] \in Identity => ident'[q] = ident[q]
  BY <1>1, <1>2, PoolAssumption DEF Shapes
<1>5. Shapes'
  BY <1>1, <1>2, <1>4 DEF Shapes
<1>6. WorkersInv'
  BY <1>1, <1>4, <1>5, LocksStand, WorkersUnmoved DEF Shapes
<1>7. WaitingInv'
  <2>1. \A q \in Request : q # r => Still(q)
    BY <1>1, <1>4 DEF Still
  <2>2. /\ \A s \in Subnode : r \notin Range(lock'[s]) /\ r \notin Range(queue'[s])
        /\ \A w \in Worker : r \notin drain'[w] /\ r \notin pending'[w]
    BY <1>1, Undispatched
  <2>3. /\ Holds(r, "checking", NoSubnode)'
        /\ \A p, x : Holds(r, p, x)' => p = "checking" /\ x = NoSubnode
    BY <1>1, <2>2 DEF Holds
  <2>4. NoneTwice'
    BY <1>1, <1>2 DEF NoneTwice
  <2>5. answer'[r] = "none"
    BY <1>1, PoolAssumption DEF Inv, WaitingInv, AnsweredWasDispatched
  <2> QED
    BY <1>1, <1>4, <2>1, <2>3, <2>4, <2>5, OneMoves, AllPlaces DEF Inv
<1>8. QueueWaitsForBusyWorkers'
  BY <1>1, QueuesUnmoved DEF Busy
<1> QED
  BY <1>5, <1>6, <1>7, <1>8 DEF Inv

LEMMA RefuseCapacityKeeps ==
  ASSUME Inv, NEW r \in Request, RefuseCapacity(r)
  PROVE  Inv'
<1>1. /\ r \in checking /\ checking' = checking \ {r}
      /\ answer' = Answer(answer, {r}, "error")
      /\ UNCHANGED <<subnodes, workers, queue, lock, stage, home, creds, idle, pending,
                     running, loop, drain, ident, phase>>
  BY DEF RefuseCapacity
<1>2. Shapes /\ NoneTwice
  BY DEF Inv, WaitingInv
<1>3. /\ answer' \in [Request -> Answers] /\ answer'[r] # "none"
      /\ \A q \in Request : q # r => answer'[q] = answer[q]
  <2>1. "error" \in Answers \ {"none"}
    BY DEF Answers
  <2> QED
    BY <1>1, <2>1, AnswersOne
<1>4. Shapes'
  BY <1>1, <1>2, <1>3 DEF Shapes
<1>5. WorkersInv'
  BY <1>1, <1>4, LocksStand, WorkersUnmoved DEF Shapes
<1>6. WaitingInv'
  <2>1. \A q \in Request : q # r => Still(q)
    BY <1>1, <1>3 DEF Still
  <2>2. Gone(r) /\ ident'[r] \in Identity
    BY <1>1, WaitsInCheck DEF Gone
  <2>3. NoneTwice'
    BY <1>1, <1>2 DEF NoneTwice
  <2> QED
    BY <1>1, <1>3, <2>1, <2>2, <2>3, OneAnswered DEF Inv
<1>7. QueueWaitsForBusyWorkers'
  BY <1>1, QueuesUnmoved DEF Busy
<1> QED
  BY <1>4, <1>5, <1>6, <1>7 DEF Inv

LEMMA AdmitKeeps ==
  ASSUME Inv, NEW r \in Request, NEW s \in Subnode, Admit(r, s)
  PROVE  Inv'
<1>1. /\ r \in checking /\ checking' = checking \ {r}
      /\ subnodes' = [subnodes EXCEPT ![Username(r)] = s]
      /\ lock' = [lock EXCEPT ![s] = Append(lock[s], r)]
      /\ UNCHANGED <<workers, queue, stage, home, creds, idle, pending, running, loop, drain,
                     ident, answer, phase>>
  BY DEF Admit
<1>2. Shapes /\ NoneTwice
  BY DEF Inv, WaitingInv
<1>3. /\ ident[r] \in Identity /\ answer[r] = "none"
      /\ \A t \in Subnode : r \notin Range(lock[t]) /\ r \notin Range(queue[t])
      /\ \A w \in Worker : r \notin drain[w] /\ r \notin pending[w]
  BY <1>1, WaitsInCheck
<1>4. /\ Append(lock[s], r) \in Seq(Request) /\ Append(lock[s], r) # <<>>
      /\ lock[s] # <<>> => Head(Append(lock[s], r)) = Head(lock[s])
      /\ \A x : x \in Range(Append(lock[s], r)) <=> x \in Range(lock[s]) \/ x = r
      /\ Distinct(Append(lock[s], r))
  <2>1. lock[s] \in Seq(Request) /\ Distinct(lock[s]) /\ r \notin Range(lock[s])
    BY <1>2, <1>3 DEF Shapes, NoneTwice
  <2> QED
    BY <2>1, OfAppend
<1>5. /\ lock' \in [Subnode -> Seq(Request)] /\ lock'[s] = Append(lock[s], r)
      /\ \A t \in Subnode : t # s => lock'[t] = lock[t]
  BY <1>1, <1>2, <1>4 DEF Shapes
<1>6. Shapes'
  BY <1>1, <1>2, <1>5 DEF Shapes
<1>7. WorkersInv'
  <2>1. \A w \in Worker : stage[w] = "starting" =>
          lock'[home[w]] # <<>> /\ Head(lock'[home[w]]) = Head(lock[home[w]])
    BY <1>4, <1>5, LocksStand
  <2> QED
    BY <1>1, <1>5, <2>1, WorkersUnmoved
<1>8. WaitingInv'
  <2>1. \A q \in Request : q # r => Still(q)
    BY <1>1, <1>4, <1>5 DEF Still
  <2>2. r \notin checking' /\ \A t \in Subnode : r \in Range(lock'[t]) <=> t = s
    BY <1>1, <1>3, <1>4, <1>5
  <2>3. /\ Holds(r, "lock", s)'
        /\ \A p, x : Holds(r, p, x)' => p = "lock" /\ x = s
    BY <1>1, <1>3, <2>2 DEF Holds
  <2>4. NoneTwice'
    BY <1>1, <1>2, <1>4, <1>5 DEF NoneTwice
  <2> QED
    BY <1>1, <1>3, <2>1, <2>3, <2>4, OneMoves, AllPlaces DEF Inv
<1>9. QueueWaitsForBusyWorkers'
  BY <1>1, QueuesUnmoved DEF Busy
<1> QED
  BY <1>6, <1>7, <1>8, <1>9 DEF Inv

\* When nobody starts under the lock it passes on freely.
LEMMA PassesOn ==
  ASSUME Inv, NEW s \in Subnode, LockRuns(s), Unlocked(s)
  PROVE  \A w \in Worker : stage[w] = "starting" =>
           lock'[home[w]] # <<>> /\ Head(lock'[home[w]]) = Head(lock[home[w]])
<1> SUFFICES ASSUME NEW w \in Worker, stage[w] = "starting"
             PROVE  lock[home[w]] # <<>> /\ lock'[home[w]] = lock[home[w]]
  OBVIOUS
<1>1. home[w] \in Subnode /\ lock[home[w]] # <<>> /\ home[w] # s
  BY LocksStand DEF LockRuns, Spawning
<1>2. \A t \in Subnode : t # s => lock'[t] = lock[t]
  BY Unlocking DEF LockRuns
<1> QED
  BY <1>1, <1>2

LEMMA AssigningHead ==
  ASSUME Inv, NEW s \in Subnode, NEW r \in Request, Assigning(s, r)
  PROVE  /\ LockRuns(s) /\ lock[s] # <<>> /\ r = Head(lock[s])
         /\ ident[r] \in Identity /\ Username(r) \in User /\ answer[r] = "none"
         /\ r \notin checking
         /\ \A t \in Subnode : r \notin Range(queue[t])
         /\ \A w \in Worker : r \notin drain[w] /\ r \notin pending[w]
         /\ \A w \in Idle(s) : creds[w] = ident[r]
<1>1. LockRuns(s) /\ lock[s] # <<>> /\ r = Head(lock[s]) /\ Stale(s, r) = {}
  BY DEF Assigning, LockRuns
<1>2. /\ ident[r] \in Identity /\ answer[r] = "none"
      /\ r \notin checking
      /\ \A t \in Subnode : r \notin Range(queue[t])
      /\ \A w \in Worker : r \notin drain[w] /\ r \notin pending[w]
  BY <1>1, WaitsInLock
<1>3. Username(r) \in User
  BY <1>2, PoolAssumption DEF Username
<1>4. \A w \in Idle(s) : creds[w] = ident[r]
  BY <1>1 DEF Idle, Stale
<1> QED
  BY <1>1, <1>2, <1>3, <1>4

LEMMA ForkFailsKeeps ==
  ASSUME Inv, NEW s \in Subnode, NEW r \in Request, ForkFails(s, r)
  PROVE  Inv'
<1>1. /\ subnodes' = [subnodes EXCEPT ![Username(r)] = s]
      /\ Unlocked(s) /\ answer' = Answer(answer, {r}, "error")
      /\ UNCHANGED <<workers, queue, stage, home, creds, idle, pending, running, loop, drain,
                     checking, ident, phase>>
  BY DEF ForkFails, Registered
<1>2. /\ LockRuns(s) /\ lock[s] # <<>> /\ r = Head(lock[s])
      /\ ident[r] \in Identity /\ r \notin checking
      /\ \A t \in Subnode : r \notin Range(queue[t])
      /\ \A w \in Worker : r \notin drain[w] /\ r \notin pending[w]
  BY AssigningHead DEF ForkFails
<1>3. Shapes /\ NoneTwice
  BY DEF Inv, WaitingInv
<1>4. /\ answer' \in [Request -> Answers] /\ answer'[r] # "none"
      /\ \A q \in Request : q # r => answer'[q] = answer[q]
  <2>1. "error" \in Answers \ {"none"}
    BY DEF Answers
  <2> QED
    BY <1>1, <2>1, AnswersOne
<1>5. /\ lock' \in [Subnode -> Seq(Request)]
      /\ \A t \in Subnode : Distinct(lock'[t])
      /\ \A q \in Request : \A t \in Subnode :
           q \in Range(lock'[t]) <=> q \in Range(lock[t]) /\ q # r
  BY <1>1, <1>2, Unlocking
<1>6. Shapes'
  BY <1>1, <1>3, <1>4, <1>5 DEF Shapes
<1>7. WorkersInv'
  BY <1>1, <1>2, <1>5, PassesOn, WorkersUnmoved
<1>8. WaitingInv'
  <2>1. \A q \in Request : q # r => Still(q)
    BY <1>1, <1>4, <1>5 DEF Still
  <2>2. Gone(r)
    BY <1>1, <1>2, <1>5 DEF Gone
  <2>3. NoneTwice'
    BY <1>1, <1>3, <1>5 DEF NoneTwice
  <2> QED
    BY <1>1, <1>2, <1>4, <2>1, <2>2, <2>3, OneAnswered DEF Inv
<1>9. QueueWaitsForBusyWorkers'
  BY <1>1, QueuesUnmoved DEF Busy
<1> QED
  BY <1>6, <1>7, <1>8, <1>9 DEF Inv

LEMMA EnqueueKeeps ==
  ASSUME Inv, NEW s \in Subnode, NEW r \in Request, Enqueue(s, r)
  PROVE  Inv'
<1>1. /\ subnodes' = [subnodes EXCEPT ![Username(r)] = s]
      /\ Unlocked(s) /\ queue' = [queue EXCEPT ![s] = Append(queue[s], r)]
      /\ Idle(s) = {} /\ ~Room(s)
      /\ UNCHANGED <<workers, stage, home, creds, idle, pending, running, loop, drain,
                     checking, ident, answer, phase>>
  BY DEF Enqueue, Registered, requestVars
<1>2. /\ LockRuns(s) /\ lock[s] # <<>> /\ r = Head(lock[s])
      /\ ident[r] \in Identity /\ r \notin checking /\ answer[r] = "none"
      /\ \A t \in Subnode : r \notin Range(queue[t])
      /\ \A w \in Worker : r \notin drain[w] /\ r \notin pending[w]
  BY AssigningHead DEF Enqueue
<1>3. Shapes /\ NoneTwice
  BY DEF Inv, WaitingInv
<1>4. /\ Append(queue[s], r) \in Seq(Request) /\ Append(queue[s], r) # <<>>
      /\ \A x : x \in Range(Append(queue[s], r)) <=> x \in Range(queue[s]) \/ x = r
      /\ Distinct(Append(queue[s], r))
  <2>1. queue[s] \in Seq(Request) /\ Distinct(queue[s]) /\ r \notin Range(queue[s])
    BY <1>2, <1>3 DEF Shapes, NoneTwice
  <2> QED
    BY <2>1, OfAppend
<1>5. /\ lock' \in [Subnode -> Seq(Request)]
      /\ \A t \in Subnode : Distinct(lock'[t])
      /\ \A q \in Request : \A t \in Subnode :
           q \in Range(lock'[t]) <=> q \in Range(lock[t]) /\ q # r
  BY <1>1, <1>2, Unlocking
<1>6. /\ queue' \in [Subnode -> Seq(Request)] /\ queue'[s] = Append(queue[s], r)
      /\ \A t \in Subnode : t # s => queue'[t] = queue[t]
  BY <1>1, <1>3, <1>4 DEF Shapes
<1>7. Shapes'
  BY <1>1, <1>3, <1>5, <1>6 DEF Shapes
<1>8. WorkersInv'
  BY <1>1, <1>2, <1>5, PassesOn, WorkersUnmoved
<1>9. WaitingInv'
  <2>1. \A q \in Request : q # r => Still(q)
    BY <1>1, <1>4, <1>5, <1>6 DEF Still
  <2>2. /\ r \notin checking' /\ (\A t \in Subnode : r \notin Range(lock'[t]))
        /\ \A t \in Subnode : r \in Range(queue'[t]) <=> t = s
    BY <1>1, <1>2, <1>4, <1>5, <1>6
  <2>3. /\ Holds(r, "queue", s)'
        /\ \A p, x : Holds(r, p, x)' => p = "queue" /\ x = s
    BY <1>1, <1>2, <2>2 DEF Holds
  <2>4. NoneTwice'
    BY <1>3, <1>4, <1>5, <1>6 DEF NoneTwice
  <2> QED
    BY <1>1, <1>2, <2>1, <2>3, <2>4, OneMoves, AllPlaces DEF Inv
<1>10. QueueWaitsForBusyWorkers'
  <2>1. workers[s] # {}
    <3>1. CASE workers[s] = {}
      BY <1>1, <3>1, FS_EmptySet, PoolAssumption DEF Room
    <3> QED
      BY <3>1
  <2>2. \A w \in workers[s] : running[w] # {}
    BY <1>1, WorkersOf DEF Idle, Inv, WorkersInv, OnlyUpRun
  <2>3. \A t \in Subnode : t # s /\ queue'[t] # <<>> =>
          workers[t] # {} /\ \A w \in workers[t] : running[w] # {} \/ drain[w] # {} \/ loop[w]
    BY <1>6 DEF Inv, QueueWaitsForBusyWorkers
  <2> QED
    BY <1>1, <2>1, <2>2, <2>3 DEF QueueWaitsForBusyWorkers
<1> QED
  BY <1>7, <1>8, <1>9, <1>10 DEF Inv

LEMMA ExpireQueuedKeeps ==
  ASSUME Inv, NEW s \in Subnode, NEW r \in Request, ExpireQueued(s, r)
  PROVE  Inv'
<1>1. /\ r \in Range(queue[s]) /\ queue' = [queue EXCEPT ![s] = Unqueued(s, r)]
      /\ answer' = Answer(answer, {r}, "timeout")
      /\ UNCHANGED <<subnodes, workers, lock, stage, home, creds, idle, pending, running,
                     loop, drain, checking, ident, phase>>
  BY DEF ExpireQueued
<1>2. Shapes /\ NoneTwice
  BY DEF Inv, WaitingInv
<1>3. /\ ident[r] \in Identity /\ r \notin checking
      /\ \A t \in Subnode : r \notin Range(lock[t])
      /\ \A t \in Subnode : r \in Range(queue[t]) => t = s
      /\ \A w \in Worker : r \notin drain[w] /\ r \notin pending[w]
  BY <1>1, WaitsInQueue
<1>4. /\ answer' \in [Request -> Answers] /\ answer'[r] # "none"
      /\ \A q \in Request : q # r => answer'[q] = answer[q]
  <2>1. "timeout" \in Answers \ {"none"}
    BY DEF Answers
  <2> QED
    BY <1>1, <2>1, AnswersOne
<1>5. /\ Unqueued(s, r) \in Seq(Request) /\ Distinct(Unqueued(s, r))
      /\ \A x : x \in Range(Unqueued(s, r)) <=> x \in Range(queue[s]) /\ x # r
  BY <1>1, <1>2, OfUnqueued DEF NoneTwice
<1>6. /\ queue' \in [Subnode -> Seq(Request)] /\ queue'[s] = Unqueued(s, r)
      /\ \A t \in Subnode : t # s => queue'[t] = queue[t]
  BY <1>1, <1>2, <1>5 DEF Shapes
<1>7. Shapes'
  BY <1>1, <1>2, <1>4, <1>6 DEF Shapes
<1>8. WorkersInv'
  BY <1>1, <1>7, LocksStand, WorkersUnmoved DEF Shapes
<1>9. WaitingInv'
  <2>1. \A q \in Request : q # r => Still(q)
    BY <1>1, <1>4, <1>5, <1>6 DEF Still
  <2>2. Gone(r)
    BY <1>1, <1>3, <1>5, <1>6 DEF Gone
  <2>3. NoneTwice'
    BY <1>1, <1>2, <1>5, <1>6 DEF NoneTwice
  <2> QED
    BY <1>1, <1>3, <1>4, <2>1, <2>2, <2>3, OneAnswered DEF Inv
<1>10. QueueWaitsForBusyWorkers'
  <2>1. queue[s] # <<>>
    BY <1>1, NothingInEmpty
  <2> QED
    BY <1>1, <1>6, <2>1, QueuesUnmoved DEF Busy
<1> QED
  BY <1>7, <1>8, <1>9, <1>10 DEF Inv

LEMMA RespondKeeps ==
  ASSUME Inv, NEW w \in Worker, NEW r \in Request, Respond(w, r)
  PROVE  Inv'
<1>1. /\ stage[w] = "up" /\ r \in pending[w]
      /\ running' = [running EXCEPT ![w] = @ \ {r}]
      /\ pending' = [pending EXCEPT ![w] = @ \ {r}]
      /\ answer' = Answer(answer, {r}, "result")
      /\ loop' = [loop EXCEPT ![w] = TRUE]
      /\ UNCHANGED <<subnodes, workers, queue, lock, stage, home, creds, idle, drain,
                     checking, ident, phase>>
  BY DEF Respond
<1>2. Shapes /\ NoneTwice /\ WorkersInv
  BY DEF Inv, WaitingInv
<1>3. /\ ident[r] \in Identity /\ r \notin checking
      /\ \A t \in Subnode : r \notin Range(lock[t]) /\ r \notin Range(queue[t])
      /\ \A v \in Worker : r \notin drain[v] /\ (r \in pending[v] => v = w)
  BY <1>1, WaitsForWorker
<1>4. /\ answer' \in [Request -> Answers] /\ answer'[r] # "none"
      /\ \A q \in Request : q # r => answer'[q] = answer[q]
  <2>1. "result" \in Answers \ {"none"}
    BY DEF Answers
  <2> QED
    BY <1>1, <2>1, AnswersOne
<1>5. /\ running' \in [Worker -> SUBSET Request] /\ pending' \in [Worker -> SUBSET Request]
      /\ running'[w] = running[w] \ {r} /\ pending'[w] = pending[w] \ {r}
      /\ \A v \in Worker : v # w => running'[v] = running[v] /\ pending'[v] = pending[v]
  BY <1>1, <1>2 DEF Shapes
<1>6. /\ loop' \in [Worker -> BOOLEAN] /\ loop'[w]
      /\ \A v \in Worker : v # w => loop'[v] = loop[v]
  BY <1>1, <1>2, Zenon DEF Shapes
<1>7. Shapes'
  BY <1>1, <1>2, <1>4, <1>5, <1>6 DEF Shapes
<1>8. WorkersInv'
  <2>1. ASSUME NEW v \in Worker
        PROVE  /\ pending'[v] \subseteq running'[v] /\ running'[v] \subseteq running[v]
               /\ stage'[v] # "up" => running'[v] = {} /\ ~idle'[v]
               /\ loop'[v] => loop[v] \/ drain[v] # {} \/ stage[v] # "free"
               /\ stage[v] = "starting" => lock[home[v]] # <<>>
    BY <1>1, <1>2, <1>5, <1>6, LocksStand DEF WorkersInv, OnlyUpRun
  <2>2. Leaving
    BY <1>1, <1>2, <2>1 DEF Leaving, WorkersInv, WorkersAreUp
  <2> QED
    BY <1>2, <1>7, <2>2, WorkersLeave DEF Shapes
<1>9. WaitingInv'
  <2>1. \A q \in Request : q # r => Still(q)
    <3> SUFFICES ASSUME NEW q \in Request, q # r
                 PROVE  Still(q)
      OBVIOUS
    <3>1. \A v \in Worker : q \in pending'[v] <=> q \in pending[v]
      BY <1>5
    <3> QED
      BY <1>1, <1>4, <3>1 DEF Still
  <2>2. Gone(r)
    BY <1>1, <1>3, <1>5 DEF Gone
  <2>3. NoneTwice'
    BY <1>1, <1>2 DEF NoneTwice
  <2> QED
    BY <1>1, <1>3, <1>4, <2>1, <2>2, <2>3, OneAnswered DEF Inv
<1>10. QueueWaitsForBusyWorkers'
  <2>1. \A v \in Worker : Busy(v) => Busy(v)'
    BY <1>1, <1>5, <1>6 DEF Busy
  <2> QED
    BY <1>1, <2>1, QueuesUnmoved, WorkersOf
<1> QED
  BY <1>7, <1>8, <1>9, <1>10 DEF Inv

LEMMA DrainEmptyKeeps ==
  ASSUME Inv, NEW w \in Worker, DrainEmpty(w)
  PROVE  Inv'
<1>1. /\ queue[home[w]] = <<>> /\ loop[w]
      /\ loop' = [loop EXCEPT ![w] = FALSE]
      /\ idle' = [idle EXCEPT ![w] = stage[w] = "up" /\ pending[w] = {}]
      /\ UNCHANGED <<subnodes, workers, queue, lock, stage, home, creds, pending, running,
                     drain, checking, ident, answer, phase>>
  BY DEF DrainEmpty, requestVars
<1>2. Shapes /\ WorkersInv
  BY DEF Inv
<1>3. /\ loop' \in [Worker -> BOOLEAN] /\ \A v \in Worker : loop'[v] => loop[v]
      /\ \A v \in Worker : v # w => loop'[v] = loop[v]
  BY <1>1, <1>2, Zenon DEF Shapes
<1>4. /\ idle' \in [Worker -> BOOLEAN] /\ (idle'[w] => stage[w] = "up")
      /\ \A v \in Worker : v # w => idle'[v] = idle[v]
  BY <1>1, <1>2, Zenon DEF Shapes
<1>5. Shapes'
  BY <1>1, <1>2, <1>3, <1>4 DEF Shapes
<1>6. WorkersInv'
  <2>1. ASSUME NEW v \in Worker
        PROVE  /\ pending'[v] \subseteq running'[v]
               /\ stage'[v] # "up" => running'[v] = {} /\ ~idle'[v]
               /\ stage[v] = "starting" => lock[home[v]] # <<>>
    BY <1>1, <1>2, <1>4, LocksStand DEF WorkersInv, OnlyUpRun
  <2>2. Leaving
    BY <1>1, <1>2, <1>3, <2>1 DEF Leaving, WorkersInv, WorkersAreUp
  <2> QED
    BY <1>2, <1>5, <2>2, WorkersLeave DEF Shapes
<1>7. WaitingInv'
  BY <1>1, NothingMoves DEF Inv
<1>8. QueueWaitsForBusyWorkers'
  <2> SUFFICES ASSUME NEW s \in Subnode, queue[s] # <<>>
               PROVE  workers[s] # {} /\ \A v \in workers[s] : Busy(v)'
    BY <1>1 DEF QueueWaitsForBusyWorkers, Busy
  <2>1. workers[s] # {} /\ \A v \in workers[s] : Busy(v)
    BY DEF Inv, QueueWaitsForBusyWorkers, Busy
  <2>2. \A v \in workers[s] : v \in Worker /\ v # w
    BY <1>1, WorkersOf
  <2> QED
    BY <1>1, <1>3, <2>1, <2>2 DEF Busy
<1> QED
  BY <1>5, <1>6, <1>7, <1>8 DEF Inv

LEMMA ReadyTimeoutKeeps ==
  ASSUME Inv, NEW w \in Worker, ReadyTimeout(w)
  PROVE  Inv'
<1> DEFINE s == home[w]
           r == Head(lock[s])
<1>1. /\ stage[w] = "starting"
      /\ stage' = [stage EXCEPT ![w] = "dying"]
      /\ Unlocked(s) /\ answer' = Answer(answer, {r}, "error")
      /\ UNCHANGED <<subnodes, workers, queue, home, creds, idle, pending, running, loop,
                     drain, checking, ident, phase>>
  BY DEF ReadyTimeout
<1>2. s \in Subnode /\ lock[s] # <<>>
  BY <1>1, LocksStand
<1>3. /\ r \in Request /\ ident[r] \in Identity /\ r \notin checking
      /\ \A t \in Subnode : r \notin Range(queue[t])
      /\ \A v \in Worker : r \notin drain[v] /\ r \notin pending[v]
  BY <1>2, WaitsInLock
<1>4. Shapes /\ NoneTwice /\ WorkersInv
  BY DEF Inv, WaitingInv
<1>5. /\ lock' \in [Subnode -> Seq(Request)]
      /\ \A t \in Subnode : Distinct(lock'[t]) /\ (t # s => lock'[t] = lock[t])
      /\ \A q \in Request : \A t \in Subnode :
           q \in Range(lock'[t]) <=> q \in Range(lock[t]) /\ q # r
  BY <1>1, <1>2, Unlocking
<1> HIDE DEF r
<1>6. /\ answer' \in [Request -> Answers] /\ answer'[r] # "none"
      /\ \A q \in Request : q # r => answer'[q] = answer[q]
  <2>1. "error" \in Answers \ {"none"}
    BY DEF Answers
  <2> QED
    BY <1>1, <1>3, <2>1, AnswersOne
<1>7. /\ stage' \in [Worker -> Stages] /\ stage'[w] = "dying"
      /\ \A v \in Worker : v # w => stage'[v] = stage[v]
  BY <1>1, <1>4 DEF Shapes, Stages
<1>8. Shapes'
  BY <1>1, <1>4, <1>5, <1>6, <1>7 DEF Shapes
<1>9. WorkersInv'
  <2>1. ASSUME NEW v \in Worker
        PROVE  /\ pending'[v] \subseteq running'[v]
               /\ stage'[v] # "up" => running'[v] = {} /\ ~idle'[v]
               /\ stage'[v] = "starting" =>
                    lock'[home[v]] # <<>> /\ Head(lock'[home[v]]) = Head(lock[home[v]])
    <3>1. pending'[v] \subseteq running'[v] /\ (stage'[v] # "up" => running'[v] = {} /\ ~idle'[v])
      BY <1>1, <1>4, <1>7 DEF WorkersInv, OnlyUpRun
    <3>2. ASSUME stage'[v] = "starting"
          PROVE  lock'[home[v]] # <<>> /\ lock'[home[v]] = lock[home[v]]
      <4>1. v # w /\ stage[v] = "starting"
        BY <1>7, <3>2
      <4>2. home[v] # s /\ home[v] \in Subnode /\ lock[home[v]] # <<>>
        BY <1>1, <1>4, <4>1, LocksStand DEF WorkersInv, OneStarts
      <4> QED
        BY <1>5, <4>2
    <3> QED
      BY <3>1, <3>2
  <2>2. ASSUME NEW t \in Subnode, NEW v \in Worker
        PROVE  v \in workers'[t] <=> v \in workers[t] /\ stage'[v] = "up"
    BY <1>1, <1>4, <1>7 DEF WorkersInv, WorkersAreUp
  <2>3. Leaving
    BY <1>1, <1>4, <1>7, <2>1, <2>2 DEF Leaving
  <2> QED
    BY <1>4, <1>5, <1>7, <2>3, WorkersLeave
<1>10. WaitingInv'
  <2>1. \A q \in Request : q # r => Still(q)
    BY <1>1, <1>5, <1>6 DEF Still
  <2>2. Gone(r)
    BY <1>1, <1>3, <1>5 DEF Gone
  <2>3. NoneTwice'
    BY <1>1, <1>4, <1>5 DEF NoneTwice
  <2> QED
    BY <1>1, <1>3, <1>6, <2>1, <2>2, <2>3, OneAnswered DEF Inv
<1>11. QueueWaitsForBusyWorkers'
  BY <1>1, QueuesUnmoved DEF Busy
<1> QED
  BY <1>8, <1>9, <1>10, <1>11 DEF Inv

LEMMA SpawnKeeps ==
  ASSUME Inv, NEW s \in Subnode, NEW r \in Request, NEW w \in Worker, Spawn(s, r, w)
  PROVE  Inv'
<1>1. /\ Idle(s) = {} /\ Room(s) /\ Vacant(w)
      /\ subnodes' = [subnodes EXCEPT ![Username(r)] = s]
      /\ stage' = [stage EXCEPT ![w] = "starting"]
      /\ home' = [home EXCEPT ![w] = s]
      /\ creds' = [creds EXCEPT ![w] = ident[r]]
      /\ UNCHANGED <<workers, queue, lock, idle, pending, running, loop, drain, checking,
                     ident, answer, phase>>
  BY DEF Spawn, Registered, requestVars
<1>2. /\ LockRuns(s) /\ lock[s] # <<>> /\ r = Head(lock[s]) /\ ident[r] \in Identity
  BY AssigningHead DEF Spawn
<1>3. Shapes /\ WorkersInv
  BY DEF Inv
<1>4. /\ stage' \in [Worker -> Stages] /\ stage'[w] = "starting"
      /\ home' \in [Worker -> Subnode \cup {NoSubnode}] /\ home'[w] = s
      /\ creds' \in [Worker -> Identity \cup {NoIdentity}] /\ creds'[w] = ident[r]
      /\ \A v \in Worker : v # w =>
           stage'[v] = stage[v] /\ home'[v] = home[v] /\ creds'[v] = creds[v]
  BY <1>1, <1>2, <1>3 DEF Shapes, Stages
<1>5. Shapes'
  BY <1>1, <1>3, <1>4 DEF Shapes
<1>6. stage[w] = "free" /\ running[w] = {} /\ drain[w] = {} /\ pending[w] = {}
  BY <1>1, <1>3 DEF Vacant, WorkersInv, OnlyUpRun
<1>7. \A v \in Worker : ~(stage[v] = "starting" /\ home[v] = s)
  BY <1>2 DEF LockRuns, Spawning
<1>8. WorkersInv'
  <2>1. WorkersAreUp'
    BY <1>1, <1>3, <1>4, <1>6 DEF WorkersInv, WorkersAreUp
  <2>2. OnlyUpRun'
    BY <1>1, <1>3, <1>4, <1>6 DEF WorkersInv, OnlyUpRun
  <2>3. Wired'
    BY <1>1, <1>2, <1>3, <1>4 DEF WorkersInv, Wired
  <2>4. StartsForHead'
    BY <1>1, <1>2, <1>3, <1>4 DEF WorkersInv, StartsForHead
  <2>5. OneStarts'
    BY <1>3, <1>4, <1>7 DEF WorkersInv, OneStarts
  <2>6. WorkersRunAsRequester'
    BY <1>1, <1>3, <1>4, <1>6 DEF WorkersInv, WorkersRunAsRequester
  <2>7. DrainsAsRequester'
    BY <1>1, <1>3, <1>4, <1>6 DEF WorkersInv, DrainsAsRequester
  <2>8. WithinMax'
    <3> SUFFICES ASSUME NEW t \in Subnode
                 PROVE  IsFiniteSet(Alive(t)') /\ Cardinality(Alive(t)') <= Max
      BY DEF WithinMax
    <3>1. IsFiniteSet(Alive(t)) /\ Cardinality(Alive(t)) <= Max
      BY <1>3 DEF WorkersInv, WithinMax
    <3>2. CASE t # s
      <4>1. Alive(t)' = Alive(t)
        BY <1>4, <1>6, <3>2 DEF Alive
      <4> QED
        BY <3>1, <4>1
    <3>3. CASE t = s
      <4>1. Alive(s) = workers[s]
        BY <1>3, <1>7 DEF Alive, WorkersInv, WorkersAreUp, Shapes, Stages
      <4>2. Alive(s)' = Alive(s) \cup {w}
        BY <1>4, <1>6 DEF Alive
      <4>3. w \notin Alive(s)
        BY <1>6 DEF Alive
      <4>4. /\ IsFiniteSet(Alive(s) \cup {w}) /\ Cardinality(Alive(s)) \in Nat
            /\ Cardinality(Alive(s) \cup {w}) = Cardinality(Alive(s)) + 1
        BY <3>1, <3>3, <4>3, FS_AddElement, FS_CardinalityType
      <4>5. Cardinality(Alive(s)) < Max
        BY <1>1, <4>1 DEF Room
      <4> QED
        BY <3>3, <4>2, <4>4, <4>5, PoolAssumption
    <3> QED
      BY <3>2, <3>3
  <2> QED
    BY <2>1, <2>2, <2>3, <2>4, <2>5, <2>6, <2>7, <2>8 DEF WorkersInv
<1>9. WaitingInv'
  BY <1>1, NothingMoves DEF Inv
<1>10. QueueWaitsForBusyWorkers'
  BY <1>1, QueuesUnmoved DEF Busy
<1> QED
  BY <1>5, <1>8, <1>9, <1>10 DEF Inv

\* The same processes run, and what they get is their own.
LEMMA WorkersWork ==
  ASSUME Inv, UNCHANGED <<workers, stage, home, creds, ident, idle>>,
         \A w \in Worker : stage[w] = "starting" =>
           lock'[home[w]] # <<>> /\ Head(lock'[home[w]]) = Head(lock[home[w]]),
         \A w \in Worker :
           /\ pending'[w] \subseteq running'[w]
           /\ stage[w] # "up" => running'[w] = {}
           /\ loop'[w] \/ drain'[w] # {} => loop[w] \/ drain[w] # {}
           /\ \A r \in running'[w] : ident[r] = creds[w]
           /\ \A r \in drain'[w] : ident[r] = creds[w]
  PROVE  WorkersInv'
<1>1. WorkersInv
  BY DEF Inv
<1>2. WorkersAreUp'
  BY <1>1 DEF WorkersInv, WorkersAreUp
<1>3. OnlyUpRun'
  BY <1>1 DEF WorkersInv, OnlyUpRun
<1>4. Wired'
  BY <1>1 DEF WorkersInv, Wired
<1>5. StartsForHead'
  BY <1>1 DEF WorkersInv, StartsForHead
<1>6. OneStarts'
  BY <1>1 DEF WorkersInv, OneStarts
<1>7. WorkersRunAsRequester' /\ DrainsAsRequester'
  BY DEF WorkersRunAsRequester, DrainsAsRequester
<1>8. WithinMax'
  BY <1>1 DEF WorkersInv, WithinMax, Alive
<1> QED
  BY <1>2, <1>3, <1>4, <1>5, <1>6, <1>7, <1>8 DEF WorkersInv

\* A request is sent, and whether or not the channel took it, runs.
LEMMA Sending ==
  ASSUME Inv, NEW w \in Worker, NEW r \in Request, Send(w, r, answer)
  PROVE  /\ running' \in [Worker -> SUBSET Request] /\ pending' \in [Worker -> SUBSET Request]
         /\ answer' \in [Request -> Answers]
         /\ running'[w] = running[w] \cup {r}
         /\ pending'[w] = pending[w] \cup {r} \/ pending'[w] = pending[w]
         /\ \A v \in Worker : v # w => running'[v] = running[v] /\ pending'[v] = pending[v]
         /\ \A q \in Request : q # r => answer'[q] = answer[q]
         /\ \/ r \in pending'[w] /\ answer'[r] = answer[r]
            \/ pending' = pending /\ answer'[r] # "none"
<1>1. Shapes
  BY DEF Inv
<1>2. running' = [running EXCEPT ![w] = @ \cup {r}]
  BY DEF Send
<1>3. /\ running' \in [Worker -> SUBSET Request] /\ running'[w] = running[w] \cup {r}
      /\ \A v \in Worker : v # w => running'[v] = running[v]
  BY <1>1, <1>2 DEF Shapes
<1>4. CASE pending' = [pending EXCEPT ![w] = @ \cup {r}] /\ answer' = answer
  <2>1. /\ pending' \in [Worker -> SUBSET Request] /\ pending'[w] = pending[w] \cup {r}
        /\ \A v \in Worker : v # w => pending'[v] = pending[v]
    BY <1>1, <1>4 DEF Shapes
  <2> QED
    BY <1>1, <1>3, <1>4, <2>1 DEF Shapes
<1>5. CASE pending' = pending /\ answer' = Answer(answer, {r}, "unsent")
  <2>1. "unsent" \in Answers \ {"none"}
    BY DEF Answers
  <2>2. /\ answer' \in [Request -> Answers] /\ answer'[r] # "none"
        /\ \A q \in Request : q # r => answer'[q] = answer[q]
    BY <1>5, <2>1, AnswersOne
  <2> QED
    BY <1>1, <1>3, <1>5, <2>2 DEF Shapes
<1> QED
  BY <1>4, <1>5 DEF Send

\* It has left where it waited, and its waiter is the only one to hold it.
LEMMA SendMoves ==
  ASSUME Inv, NEW w \in Worker, NEW r \in Request, Send(w, r, answer),
         UNCHANGED <<queue, checking, ident, phase>>,
         NoneTwice', ident[r] \in Identity, r \notin checking,
         \A s \in Subnode : r \notin Range(queue[s]) /\ r \notin Range(lock'[s]),
         \A v \in Worker : r \notin drain'[v] /\ r \notin pending[v],
         \A q \in Request : q # r =>
           /\ \A s \in Subnode : q \in Range(lock'[s]) <=> q \in Range(lock[s])
           /\ \A v \in Worker : q \in drain'[v] <=> q \in drain[v]
  PROVE  WaitingInv'
<1>1. /\ pending'[w] = pending[w] \cup {r} \/ pending'[w] = pending[w]
      /\ \A v \in Worker : v # w => pending'[v] = pending[v]
      /\ \A q \in Request : q # r => answer'[q] = answer[q]
      /\ \/ r \in pending'[w] /\ answer'[r] = answer[r]
         \/ pending' = pending /\ answer'[r] # "none"
  BY Sending
<1>2. \A q \in Request : q # r => Still(q)
  <2> SUFFICES ASSUME NEW q \in Request, q # r
               PROVE  Still(q)
    OBVIOUS
  <2>1. \A v \in Worker : q \in pending'[v] <=> q \in pending[v]
    BY <1>1
  <2> QED
    BY <1>1, <2>1 DEF Still
<1>3. CASE r \in pending'[w]
  <2>1. \A v \in Worker : r \in pending'[v] <=> v = w
    BY <1>1, <1>3
  <2>2. /\ Holds(r, "pending", w)'
        /\ \A p, x : Holds(r, p, x)' => p = "pending" /\ x = w
    BY <2>1 DEF Holds
  <2> QED
    BY <1>2, <2>2, OneMoves, AllPlaces DEF Inv
<1>4. CASE pending' = pending /\ answer'[r] # "none"
  <2>1. Gone(r)
    BY <1>4 DEF Gone
  <2> QED
    BY <1>2, <1>4, <2>1, OneAnswered DEF Inv
<1> QED
  BY <1>1, <1>3, <1>4

LEMMA ReuseKeeps ==
  ASSUME Inv, NEW s \in Subnode, NEW r \in Request, NEW w \in Worker, Reuse(s, r, w)
  PROVE  Inv'
<1>1. /\ subnodes' = [subnodes EXCEPT ![Username(r)] = s]
      /\ Unlocked(s) /\ Send(w, r, answer) /\ w \in Idle(s)
      /\ UNCHANGED <<workers, queue, stage, home, creds, idle, loop, drain, checking,
                     ident, phase>>
  BY DEF Reuse, Registered
<1>2. /\ LockRuns(s) /\ lock[s] # <<>> /\ r = Head(lock[s])
      /\ ident[r] \in Identity /\ r \notin checking
      /\ \A t \in Subnode : r \notin Range(queue[t])
      /\ \A v \in Worker : r \notin drain[v] /\ r \notin pending[v]
      /\ creds[w] = ident[r]
  BY <1>1, AssigningHead DEF Reuse
<1>3. Shapes /\ NoneTwice /\ WorkersInv
  BY DEF Inv, WaitingInv
<1>4. /\ lock' \in [Subnode -> Seq(Request)]
      /\ \A t \in Subnode : Distinct(lock'[t])
      /\ \A q \in Request : \A t \in Subnode :
           q \in Range(lock'[t]) <=> q \in Range(lock[t]) /\ q # r
  BY <1>1, <1>2, Unlocking
<1>5. /\ running' \in [Worker -> SUBSET Request] /\ pending' \in [Worker -> SUBSET Request]
      /\ answer' \in [Request -> Answers]
      /\ running'[w] = running[w] \cup {r}
      /\ pending'[w] = pending[w] \cup {r} \/ pending'[w] = pending[w]
      /\ \A v \in Worker : v # w => running'[v] = running[v] /\ pending'[v] = pending[v]
  BY <1>1, Sending
<1>6. Shapes'
  BY <1>1, <1>3, <1>4, <1>5 DEF Shapes
<1>7. stage[w] = "up"
  BY <1>1, WorkersOf DEF Idle
<1>8. WorkersInv'
  <2>1. \A v \in Worker : stage[v] = "starting" =>
          lock'[home[v]] # <<>> /\ Head(lock'[home[v]]) = Head(lock[home[v]])
    BY <1>1, <1>2, PassesOn
  <2>2. ASSUME NEW v \in Worker
        PROVE  /\ pending'[v] \subseteq running'[v]
               /\ stage[v] # "up" => running'[v] = {}
               /\ \A q \in running'[v] : ident[q] = creds[v]
               /\ \A q \in drain'[v] : ident[q] = creds[v]
    BY <1>1, <1>2, <1>3, <1>5, <1>7
    DEF WorkersInv, OnlyUpRun, WorkersRunAsRequester, DrainsAsRequester
  <2> QED
    BY <1>1, <2>1, <2>2, WorkersWork
<1>9. WaitingInv'
  <2>1. NoneTwice'
    BY <1>1, <1>3, <1>4 DEF NoneTwice
  <2>2. UNCHANGED <<queue, checking, ident, phase, drain>>
    BY <1>1
  <2> QED
    BY <1>1, <1>2, <1>4, <2>1, <2>2, SendMoves
<1>10. QueueWaitsForBusyWorkers'
  <2>1. \A v \in Worker : Busy(v) => Busy(v)'
    BY <1>1, <1>5 DEF Busy
  <2> QED
    BY <1>1, <2>1, QueuesUnmoved, WorkersOf
<1> QED
  BY <1>6, <1>8, <1>9, <1>10 DEF Inv

LEMMA ReadyKeeps ==
  ASSUME Inv, NEW w \in Worker, Ready(w)
  PROVE  Inv'
<1> DEFINE s == home[w]
           r == Head(lock[s])
<1>1. /\ stage[w] = "starting"
      /\ stage' = [stage EXCEPT ![w] = "up"]
      /\ workers' = [workers EXCEPT ![s] = @ \cup {w}]
      /\ Unlocked(s) /\ Send(w, r, answer)
      /\ UNCHANGED <<subnodes, queue, home, creds, idle, loop, drain, checking, ident, phase>>
  BY DEF Ready
<1>2. Shapes /\ NoneTwice /\ WorkersInv
  BY DEF Inv, WaitingInv
<1>3. s \in Subnode /\ lock[s] # <<>> /\ creds[w] = ident[r]
  BY <1>1, <1>2, LocksStand DEF WorkersInv, StartsForHead
<1>4. /\ r \in Request /\ ident[r] \in Identity /\ r \notin checking
      /\ \A t \in Subnode : r \notin Range(queue[t])
      /\ \A v \in Worker : r \notin drain[v] /\ r \notin pending[v]
  BY <1>3, WaitsInLock
<1>5. /\ lock' \in [Subnode -> Seq(Request)]
      /\ \A t \in Subnode : Distinct(lock'[t]) /\ (t # s => lock'[t] = lock[t])
      /\ \A q \in Request : \A t \in Subnode :
           q \in Range(lock'[t]) <=> q \in Range(lock[t]) /\ q # r
  BY <1>1, <1>3, Unlocking
<1> HIDE DEF r
<1>6. /\ running' \in [Worker -> SUBSET Request] /\ pending' \in [Worker -> SUBSET Request]
      /\ answer' \in [Request -> Answers]
      /\ running'[w] = running[w] \cup {r}
      /\ pending'[w] = pending[w] \cup {r} \/ pending'[w] = pending[w]
      /\ \A v \in Worker : v # w => running'[v] = running[v] /\ pending'[v] = pending[v]
  BY <1>1, <1>4, Sending
<1>7. /\ stage' \in [Worker -> Stages] /\ stage'[w] = "up"
      /\ \A v \in Worker : v # w => stage'[v] = stage[v]
      /\ workers' \in [Subnode -> SUBSET Worker] /\ workers'[s] = workers[s] \cup {w}
      /\ \A t \in Subnode : t # s => workers'[t] = workers[t]
  BY <1>1, <1>2, <1>3 DEF Shapes, Stages
<1>8. Shapes'
  BY <1>1, <1>2, <1>5, <1>6, <1>7 DEF Shapes
<1>9. WorkersInv'
  <2>1. WorkersAreUp'
    BY <1>1, <1>2, <1>7 DEF WorkersInv, WorkersAreUp
  <2>2. OnlyUpRun'
    BY <1>1, <1>2, <1>6, <1>7 DEF WorkersInv, OnlyUpRun
  <2>3. Wired'
    BY <1>1, <1>2, <1>7 DEF WorkersInv, Wired
  <2>4. StartsForHead'
    <3> SUFFICES ASSUME NEW v \in Worker, stage'[v] = "starting"
                 PROVE  lock'[home[v]] # <<>> /\ creds[v] = ident[Head(lock'[home[v]])]
      BY <1>1 DEF StartsForHead
    <3>1. v # w /\ stage[v] = "starting"
      BY <1>7
    <3>2. home[v] # s /\ home[v] \in Subnode
      BY <1>1, <1>2, <3>1, LocksStand DEF WorkersInv, OneStarts
    <3>3. lock'[home[v]] = lock[home[v]]
      BY <1>5, <3>2
    <3> QED
      BY <1>2, <3>1, <3>3 DEF WorkersInv, StartsForHead
  <2>5. OneStarts'
    BY <1>1, <1>2, <1>7 DEF WorkersInv, OneStarts
  <2>6. WorkersRunAsRequester'
    BY <1>1, <1>2, <1>3, <1>6 DEF WorkersInv, WorkersRunAsRequester
  <2>7. DrainsAsRequester'
    BY <1>1, <1>2 DEF WorkersInv, DrainsAsRequester
  <2>8. WithinMax'
    <3>1. \A t : Alive(t)' = Alive(t)
      BY <1>1, <1>7 DEF Alive
    <3> QED
      BY <1>2, <3>1 DEF WorkersInv, WithinMax
  <2> QED
    BY <2>1, <2>2, <2>3, <2>4, <2>5, <2>6, <2>7, <2>8 DEF WorkersInv
<1>10. WaitingInv'
  <2>1. NoneTwice'
    BY <1>1, <1>2, <1>5 DEF NoneTwice
  <2>2. UNCHANGED <<queue, checking, ident, phase, drain>>
    BY <1>1
  <2> QED
    BY <1>1, <1>4, <1>5, <2>1, <2>2, SendMoves
<1>11. QueueWaitsForBusyWorkers'
  <2> SUFFICES ASSUME NEW t \in Subnode, queue[t] # <<>>
               PROVE  workers'[t] # {} /\ \A v \in workers'[t] : Busy(v)'
    BY <1>1 DEF QueueWaitsForBusyWorkers, Busy
  <2>1. workers[t] # {} /\ \A v \in workers[t] : Busy(v)
    BY DEF Inv, QueueWaitsForBusyWorkers, Busy
  <2>2. \A v \in Worker : Busy(v) => Busy(v)'
    BY <1>1, <1>6 DEF Busy
  <2>3. Busy(w)'
    BY <1>6 DEF Busy
  <2>4. workers[t] \subseteq workers'[t] /\ workers'[t] \subseteq workers[t] \cup {w}
    BY <1>3, <1>7
  <2>5. workers[t] \subseteq Worker
    BY <1>2 DEF Shapes
  <2> QED
    BY <2>1, <2>2, <2>3, <2>4, <2>5
<1> QED
  BY <1>8, <1>9, <1>10, <1>11 DEF Inv

LEMMA DrainNextKeeps ==
  ASSUME Inv, NEW w \in Worker, NEW r \in Request, DrainNext(w, r)
  PROVE  Inv'
<1> DEFINE s == home[w]
<1>1. /\ loop[w] /\ queue[s] # <<>> /\ r = Head(queue[s]) /\ creds[w] = ident[r]
      /\ loop' = [loop EXCEPT ![w] = FALSE]
      /\ queue' = [queue EXCEPT ![s] = Tail(@)]
      /\ drain' = [drain EXCEPT ![w] = @ \cup {r}]
      /\ UNCHANGED <<subnodes, workers, lock, stage, home, creds, idle, pending, running,
                     checking, ident, answer, phase>>
  BY DEF DrainNext, Serves, requestVars
<1>2. Shapes /\ NoneTwice /\ WorkersInv
  BY DEF Inv, WaitingInv
<1>3. s \in Subnode
  BY <1>1, <1>2 DEF WorkersInv, Wired
<1>4. Shifted(queue', s)
  BY <1>1, <1>3, Unqueueing
<1>5. /\ queue' \in [Subnode -> Seq(Request)]
      /\ \A t \in Subnode : Distinct(queue'[t]) /\ (queue'[t] # <<>> => queue[t] # <<>>)
      /\ \A q \in Request : \A t \in Subnode :
           q \in Range(queue'[t]) <=> q \in Range(queue[t]) /\ q # r
      /\ r \in Range(queue[s])
  BY <1>1, <1>4 DEF Shifted
<1>6. /\ ident[r] \in Identity /\ answer[r] = "none" /\ r \notin checking
      /\ \A t \in Subnode : r \notin Range(lock[t])
      /\ \A v \in Worker : r \notin drain[v] /\ r \notin pending[v]
  BY <1>3, <1>5, WaitsInQueue
<1>7. /\ loop' \in [Worker -> BOOLEAN]
      /\ \A v \in Worker : (loop'[v] => loop[v]) /\ (v # w => loop'[v] = loop[v])
  BY <1>1, <1>2, Zenon DEF Shapes
<1>8. /\ drain' \in [Worker -> SUBSET Request] /\ drain'[w] = drain[w] \cup {r}
      /\ \A v \in Worker : v # w => drain'[v] = drain[v]
  BY <1>1, <1>2 DEF Shapes
<1>9. Shapes'
  BY <1>1, <1>2, <1>5, <1>7, <1>8 DEF Shapes
<1>10. WorkersInv'
  <2>1. ASSUME NEW v \in Worker
        PROVE  /\ pending'[v] \subseteq running'[v]
               /\ stage[v] # "up" => running'[v] = {}
               /\ loop'[v] \/ drain'[v] # {} => loop[v] \/ drain[v] # {}
               /\ \A q \in running'[v] : ident[q] = creds[v]
               /\ \A q \in drain'[v] : ident[q] = creds[v]
    BY <1>1, <1>2, <1>7, <1>8 DEF WorkersInv, OnlyUpRun, WorkersRunAsRequester, DrainsAsRequester
  <2>2. \A v \in Worker : stage[v] = "starting" =>
          lock'[home[v]] # <<>> /\ Head(lock'[home[v]]) = Head(lock[home[v]])
    BY <1>1, LocksStand
  <2> QED
    BY <1>1, <2>1, <2>2, WorkersWork
<1>11. WaitingInv'
  <2>1. \A q \in Request : q # r => Still(q)
    <3> SUFFICES ASSUME NEW q \in Request, q # r
                 PROVE  Still(q)
      OBVIOUS
    <3>1. \A v \in Worker : q \in drain'[v] <=> q \in drain[v]
      BY <1>8
    <3> QED
      BY <1>1, <1>5, <3>1 DEF Still
  <2>2. /\ r \notin checking' /\ (\A t \in Subnode : r \notin Range(lock'[t]) /\ r \notin Range(queue'[t]))
        /\ \A v \in Worker : r \notin pending'[v] /\ (r \in drain'[v] <=> v = w)
    BY <1>1, <1>5, <1>6, <1>8
  <2>3. /\ Holds(r, "drain", w)'
        /\ \A p, x : Holds(r, p, x)' => p = "drain" /\ x = w
    BY <2>2 DEF Holds
  <2>4. NoneTwice'
    BY <1>1, <1>2, <1>5 DEF NoneTwice
  <2> QED
    BY <1>1, <1>6, <2>1, <2>3, <2>4, OneMoves, AllPlaces DEF Inv
<1>12. QueueWaitsForBusyWorkers'
  <2>1. \A v \in Worker : Busy(v) => Busy(v)'
    BY <1>1, <1>7, <1>8 DEF Busy
  <2> QED
    BY <1>1, <1>5, <2>1, QueuesUnmoved, WorkersOf
<1> QED
  BY <1>9, <1>10, <1>11, <1>12 DEF Inv

LEMMA DrainSendKeeps ==
  ASSUME Inv, NEW w \in Worker, NEW r \in Request, DrainSend(w, r)
  PROVE  Inv'
<1>1. /\ r \in drain[w] /\ drain' = [drain EXCEPT ![w] = @ \ {r}]
      /\ UNCHANGED <<subnodes, workers, queue, lock, stage, home, creds, idle, loop, checking,
                     ident, phase>>
  BY DEF DrainSend
<1>2. Shapes /\ NoneTwice /\ WorkersInv
  BY DEF Inv, WaitingInv
<1>3. /\ ident[r] \in Identity /\ r \notin checking
      /\ \A t \in Subnode : r \notin Range(lock[t]) /\ r \notin Range(queue[t])
      /\ \A v \in Worker : r \notin pending[v] /\ (r \in drain[v] => v = w)
  BY <1>1, WaitsInDrain
<1>4. /\ drain' \in [Worker -> SUBSET Request] /\ drain'[w] = drain[w] \ {r}
      /\ \A v \in Worker : v # w => drain'[v] = drain[v]
  BY <1>1, <1>2 DEF Shapes
<1>5. /\ \A v \in Worker : r \notin drain'[v]
      /\ \A q \in Request : q # r => \A v \in Worker : q \in drain'[v] <=> q \in drain[v]
  BY <1>3, <1>4
<1>6. NoneTwice'
  BY <1>1, <1>2 DEF NoneTwice
<1>7. \A v \in Worker : stage[v] = "starting" =>
        lock'[home[v]] # <<>> /\ Head(lock'[home[v]]) = Head(lock[home[v]])
  BY <1>1, LocksStand
<1>8. creds[w] = ident[r]
  BY <1>1, <1>2 DEF WorkersInv, DrainsAsRequester
<1>9. CASE stage[w] = "up"
  <2>1. Send(w, r, answer)
    BY <1>9 DEF DrainSend
  <2>2. /\ running' \in [Worker -> SUBSET Request] /\ pending' \in [Worker -> SUBSET Request]
        /\ answer' \in [Request -> Answers]
        /\ running'[w] = running[w] \cup {r}
        /\ pending'[w] = pending[w] \cup {r} \/ pending'[w] = pending[w]
        /\ \A v \in Worker : v # w => running'[v] = running[v] /\ pending'[v] = pending[v]
    BY <2>1, Sending
  <2>3. Shapes'
    BY <1>1, <1>2, <1>4, <2>2 DEF Shapes
  <2>4. WorkersInv'
    <3>1. ASSUME NEW v \in Worker
          PROVE  /\ pending'[v] \subseteq running'[v]
                 /\ stage[v] # "up" => running'[v] = {}
                 /\ loop'[v] \/ drain'[v] # {} => loop[v] \/ drain[v] # {}
                 /\ \A q \in running'[v] : ident[q] = creds[v]
                 /\ \A q \in drain'[v] : ident[q] = creds[v]
      BY <1>1, <1>2, <1>4, <1>8, <1>9, <2>2
      DEF WorkersInv, OnlyUpRun, WorkersRunAsRequester, DrainsAsRequester
    <3> QED
      BY <1>1, <1>7, <3>1, WorkersWork
  <2>5. WaitingInv'
    <3>1. UNCHANGED <<queue, checking, ident, phase, lock>>
      BY <1>1
    <3> QED
      BY <1>3, <1>5, <1>6, <2>1, <3>1, SendMoves
  <2>6. QueueWaitsForBusyWorkers'
    <3>1. \A v \in Worker : Busy(v) => Busy(v)'
      BY <1>1, <1>4, <2>2 DEF Busy
    <3> QED
      BY <1>1, <3>1, QueuesUnmoved, WorkersOf
  <2> QED
    BY <2>3, <2>4, <2>5, <2>6 DEF Inv
<1>10. CASE stage[w] # "up"
  <2>1. answer' = Answer(answer, {r}, "unsent") /\ UNCHANGED <<pending, running>>
    BY <1>10 DEF DrainSend
  <2>2. /\ answer' \in [Request -> Answers] /\ answer'[r] # "none"
        /\ \A q \in Request : q # r => answer'[q] = answer[q]
    <3>1. "unsent" \in Answers \ {"none"}
      BY DEF Answers
    <3> QED
      BY <2>1, <3>1, AnswersOne
  <2>3. Shapes'
    BY <1>1, <1>2, <1>4, <2>1, <2>2 DEF Shapes
  <2>4. WorkersInv'
    <3>1. ASSUME NEW v \in Worker
          PROVE  /\ pending'[v] \subseteq running'[v]
                 /\ stage[v] # "up" => running'[v] = {}
                 /\ loop'[v] \/ drain'[v] # {} => loop[v] \/ drain[v] # {}
                 /\ \A q \in running'[v] : ident[q] = creds[v]
                 /\ \A q \in drain'[v] : ident[q] = creds[v]
      BY <1>1, <1>2, <1>4, <2>1
      DEF WorkersInv, OnlyUpRun, WorkersRunAsRequester, DrainsAsRequester
    <3> QED
      BY <1>1, <1>7, <3>1, WorkersWork
  <2>5. WaitingInv'
    <3>1. \A q \in Request : q # r => Still(q)
      BY <1>1, <1>5, <2>1, <2>2 DEF Still
    <3>2. Gone(r)
      BY <1>1, <1>3, <1>5, <2>1 DEF Gone
    <3> QED
      BY <1>1, <1>3, <1>6, <2>2, <3>1, <3>2, OneAnswered DEF Inv
  <2>6. QueueWaitsForBusyWorkers'
    <3> SUFFICES ASSUME NEW s \in Subnode, queue[s] # <<>>
                 PROVE  workers[s] # {} /\ \A v \in workers[s] : Busy(v)'
      BY <1>1 DEF QueueWaitsForBusyWorkers, Busy
    <3>1. workers[s] # {} /\ \A v \in workers[s] : Busy(v)
      BY DEF Inv, QueueWaitsForBusyWorkers, Busy
    <3>2. \A v \in workers[s] : v \in Worker /\ v # w
      BY <1>10, WorkersOf
    <3> QED
      BY <1>1, <1>4, <2>1, <3>1, <3>2 DEF Busy
  <2> QED
    BY <2>3, <2>4, <2>5, <2>6 DEF Inv
<1> QED
  BY <1>9, <1>10

-----------------------------------------------------------------------------
(* The invariant *)

LEMMA InitEstablishes == Init => Inv
<1> SUFFICES ASSUME Init PROVE Inv
  OBVIOUS
<1> USE DEF Init
<1>1. <<>> \in Seq(Request)
  OBVIOUS
<1>2. Shapes
  BY <1>1 DEF Shapes, Stages, Answers
<1>3. WorkersInv
  <2>1. \A s \in Subnode : Alive(s) = {}
    BY DEF Alive
  <2> DEFINE none == {}
  <2>6. IsFiniteSet(none) /\ Cardinality(none) = 0 /\ 0 <= Max
    BY FS_EmptySet, PoolAssumption
  <2>7. \A s \in Subnode : Alive(s) = none
    BY <2>1
  <2> HIDE DEF none, Init
  <2>2. WithinMax
    BY <2>6, <2>7 DEF WithinMax
  <2> USE DEF Init
  <2>3. /\ \A w \in Worker :
             /\ stage[w] = "free" /\ pending[w] = {} /\ running[w] = {} /\ drain[w] = {}
             /\ ~idle[w] /\ ~loop[w]
        /\ \A s \in Subnode : workers[s] = {}
    <3>1. /\ \A w \in Worker :
               stage[w] = "free" /\ pending[w] = {} /\ running[w] = {} /\ drain[w] = {}
          /\ \A s \in Subnode : workers[s] = {}
      OBVIOUS
    <3>2. \A w \in Worker : ~idle[w] /\ ~loop[w]
      BY Zenon
    <3> QED
      BY <3>1, <3>2
  <2> HIDE DEF Init
  <2>4. WorkersAreUp /\ OnlyUpRun /\ Wired /\ StartsForHead /\ OneStarts
    BY <2>3 DEF WorkersAreUp, OnlyUpRun, Wired, StartsForHead, OneStarts
  <2>5. WorkersRunAsRequester /\ DrainsAsRequester
    BY <2>3 DEF WorkersRunAsRequester, DrainsAsRequester
  <2> QED
    BY <2>2, <2>4, <2>5 DEF WorkersInv
<1>4. WaitingInv
  <2>1. \A s \in Subnode : lock[s] = <<>> /\ queue[s] = <<>>
    OBVIOUS
  <2>2. \A r, p, x : ~Holds(r, p, x)
    BY <2>1, NothingInEmpty DEF Holds
  <2>3. NoneTwice
    BY <2>1, NothingInEmpty DEF NoneTwice
  <2> QED
    BY <2>2, <2>3 DEF WaitingInv, OnePlace, HeldIsOpen, OpenIsHeld, AnsweredWasDispatched
<1>5. QueueWaitsForBusyWorkers
  BY DEF QueueWaitsForBusyWorkers
<1> QED
  BY <1>2, <1>3, <1>4, <1>5 DEF Inv

LEMMA StutterKeeps ==
  ASSUME Inv, UNCHANGED vars
  PROVE  Inv'
<1>1. UNCHANGED <<subnodes, workers, queue, lock, stage, home, creds, idle, pending, running,
                  loop, drain, checking, ident, answer, phase>>
  BY DEF vars
<1>2. Shapes'
  BY <1>1 DEF Inv, Shapes
<1>3. WorkersInv'
  BY <1>1, <1>2, LocksStand, WorkersUnmoved DEF Shapes
<1>4. WaitingInv'
  BY <1>1, NothingMoves DEF Inv
<1>5. QueueWaitsForBusyWorkers'
  BY <1>1, QueuesUnmoved DEF Busy
<1> QED
  BY <1>2, <1>3, <1>4, <1>5 DEF Inv

LEMMA NextKeeps == Inv /\ [Next]_vars => Inv'
<1> SUFFICES ASSUME Inv, [Next]_vars PROVE Inv'
  OBVIOUS
<1>1. ASSUME NEW s \in Subnode, Callback(s) PROVE Inv'
  BY <1>1, DropStaleKeeps, ReuseKeeps, SpawnKeeps, ForkFailsKeeps, EnqueueKeeps DEF Callback
<1>2. ASSUME NEW w \in Worker, Round(w) PROVE Inv'
  BY <1>2, DrainEmptyKeeps, DrainNextKeeps, DrainStaleKeeps DEF Round
<1>3. ASSUME NEW r \in Request, Dispatching(r) PROVE Inv'
  BY <1>3, DispatchLateKeeps, DispatchBlockedKeeps, DispatchKeeps, RefuseKeeps,
     RefuseCapacityKeeps, AdmitKeeps DEF Dispatching
<1>4. ASSUME NEW w \in Worker, ChildEvent(w) PROVE Inv'
  BY <1>4, ReadyKeeps, ExitKeeps, RespondKeeps, RespondUnknownKeeps DEF ChildEvent
<1>5. ASSUME NEW w \in Worker, Timer(w) PROVE Inv'
  BY <1>5, ReadyTimeoutKeeps, IdleTimeoutKeeps, RpcTimeoutKeeps DEF Timer
<1>6. ASSUME NEW w \in Worker, Lookup(w) PROVE Inv'
  BY <1>6, DrainSendKeeps, DrainRefuseKeeps DEF Lookup
<1>7. CASE Event
  BY <1>3, <1>4, <1>5, <1>6, <1>7, ExpireQueuedKeeps, ShutdownKeeps, StopKeeps DEF Event
<1>8. CASE UNCHANGED vars
  BY <1>8, StutterKeeps
<1> QED
  BY <1>1, <1>2, <1>7, <1>8 DEF Next

LEMMA Invariance == Spec => []Inv
BY InitEstablishes, NextKeeps, PTL DEF Spec

-----------------------------------------------------------------------------
(* What follows *)

\* Every variable keeps its type, and a process that starts has a request waiting for it.
THEOREM TypeCorrect == Spec => []TypeOK
<1>1. Inv => TypeOK
  BY DEF Inv, Shapes, WorkersInv, StartsForHead, TypeOK
<1> QED
  BY <1>1, Invariance, PTL

\* A process only ever works for the identity it dropped its privileges to, for any number of
\* workers and whatever accounts are created again (subnode.ts, assignAndSend and
\* onRequestComplete).
THEOREM WorkersAreOfRequester == Spec => []WorkersRunAsRequester
<1>1. Inv => WorkersRunAsRequester
  BY DEF Inv, WorkersInv
<1> QED
  BY <1>1, Invariance, PTL

\* The lock keeps dispatches from spawning more than subnode_workers.max workers for one
\* Subnode, however many run concurrently.
THEOREM SubnodesWithinMax == Spec => []SubnodeWithinMax
<1>1. Inv => SubnodeWithinMax
  BY DEF Inv, WorkersInv, WithinMax, Alive, SubnodeWithinMax
<1> QED
  BY <1>1, Invariance, PTL

\* Until the hub stops, a dispatched request is answered or held in a place it will be
\* answered from.
THEOREM RequestsAreKept == Spec => []NoRequestIsLost
<1>1. Inv => NoRequestIsLost
  <2> SUFFICES ASSUME Inv, phase # "stopped", NEW r \in Request,
                      ident[r] # NoIdentity, answer[r] = "none"
               PROVE  \/ r \in checking
                      \/ \E s \in Subnode : r \in Range(lock[s]) \/ r \in Range(queue[s])
                      \/ \E w \in Worker : r \in pending[w] \/ r \in drain[w]
    BY DEF NoRequestIsLost
  <2>1. PICK p \in Places, x \in Holders : Holds(r, p, x)
    BY DEF Inv, WaitingInv, OpenIsHeld
  <2> QED
    BY <2>1 DEF Holds
<1> QED
  BY <1>1, Invariance, PTL

\* No worker idles beside a queue, and no queue is left without workers.
THEOREM QueuesWaitForBusyWorkers == Spec => []QueueWaitsForBusyWorkers
<1>1. Inv => QueueWaitsForBusyWorkers
  BY DEF Inv
<1> QED
  BY <1>1, Invariance, PTL

\* A request that was already answered is not started afterwards: whatever a process gets was
\* waiting until then.
THEOREM AnsweredNotStarted == Spec => AnsweredIsNotStarted
<1> DEFINE Start == \A w \in Worker : \A r \in running'[w] \ running[w] : answer[r] = "none"
<1>1. ASSUME Inv, Next PROVE Start
  <2> SUFFICES ASSUME NEW v \in Worker, NEW q \in running'[v] \ running[v]
               PROVE  answer[q] = "none"
    OBVIOUS
  <2>1. ASSUME NEW w \in Worker, NEW r \in Request, Send(w, r, answer)
        PROVE  q = r
    <3>1. /\ running'[w] = running[w] \cup {r}
          /\ \A u \in Worker : u # w => running'[u] = running[u]
      BY <1>1, <2>1, Sending
    <3> QED
      BY <3>1
  <2>2. ASSUME NEW W \in SUBSET Worker, running' = [w \in Worker |-> IF w \in W THEN {} ELSE running[w]]
        PROVE  FALSE
    BY <2>2
  <2>3. ASSUME NEW W \in SUBSET Worker, NEW a, NEW queues, RemoveWorkers(W, a, queues)
        PROVE  FALSE
    BY <2>2, <2>3 DEF RemoveWorkers
  <2>4. ASSUME running' = running PROVE FALSE
    BY <2>4
  <2>5. ASSUME NEW s \in Subnode, Callback(s) PROVE answer[q] = "none"
    <3>1. CASE DropStale(s)
      <4>1. Stale(s, Head(lock[s])) \in SUBSET Worker
        BY <1>1, WorkersOf DEF Stale
      <4> QED
        BY <2>3, <3>1, <4>1 DEF DropStale
    <3>2. ASSUME NEW r \in Request, NEW w \in Worker, Reuse(s, r, w) PROVE answer[q] = "none"
      <4>1. answer[r] = "none"
        BY <1>1, <3>2, AssigningHead DEF Reuse
      <4> QED
        BY <2>1, <3>2, <4>1 DEF Reuse
    <3> QED
      BY <2>4, <2>5, <3>1, <3>2 DEF Callback, Spawn, ForkFails, Enqueue
  <2>6. ASSUME NEW w \in Worker, Round(w) PROVE answer[q] = "none"
    BY <2>3, <2>4, <2>6 DEF Round, DrainEmpty, DrainNext, DrainStale
  <2>7. ASSUME NEW r \in Request, Dispatching(r) PROVE answer[q] = "none"
    <3>1. ASSUME NEW i \in Identity, DispatchBlocked(r, i) PROVE FALSE
      <4>1. Evicted(UserOf[i]) \in SUBSET Worker
        BY <1>1, EvictedWorkers, PoolAssumption
      <4> QED
        BY <2>3, <3>1, <4>1 DEF DispatchBlocked
    <3>2. CASE Refuse(r)
      <4>1. Evicted(Username(r)) \in SUBSET Worker
        BY <1>1, <3>2, EvictedWorkers, WaitsInCheck DEF Refuse
      <4> QED
        BY <2>3, <3>2, <4>1 DEF Refuse
    <3> QED
      BY <2>4, <2>7, <3>1, <3>2 DEF Dispatching, DispatchLate, Dispatch, RefuseCapacity, Admit
  <2>8. ASSUME NEW w \in Worker, ChildEvent(w) PROVE answer[q] = "none"
    <3>1. CASE Ready(w)
      <4>1. stage[w] = "starting" /\ Send(w, Head(lock[home[w]]), answer)
        BY <3>1 DEF Ready
      <4>2. home[w] \in Subnode /\ lock[home[w]] # <<>>
        BY <1>1, <4>1, LocksStand
      <4>3. Head(lock[home[w]]) \in Request /\ answer[Head(lock[home[w]])] = "none"
        BY <1>1, <4>2, WaitsInLock
      <4> QED
        BY <2>1, <4>1, <4>3
    <3>2. CASE Exit(w)
      BY <2>3, <3>2 DEF Exit
    <3>3. ASSUME NEW r \in Request, Respond(w, r) PROVE FALSE
      <4>1. running' = [running EXCEPT ![w] = @ \ {r}]
        BY <3>3 DEF Respond
      <4> QED
        BY <1>1, <4>1 DEF Inv, Shapes
    <3>4. ASSUME NEW r \in Request, RespondUnknown(w, r) PROVE FALSE
      BY <2>3, <3>4 DEF RespondUnknown
    <3> QED
      BY <2>8, <3>1, <3>2, <3>3, <3>4 DEF ChildEvent
  <2>9. ASSUME NEW w \in Worker, Timer(w) PROVE answer[q] = "none"
    BY <2>3, <2>4, <2>9 DEF Timer, ReadyTimeout, IdleTimeout, RpcTimeout
  <2>10. ASSUME NEW w \in Worker, NEW r \in Request, DrainSend(w, r) PROVE answer[q] = "none"
    <3>1. answer[r] = "none"
      BY <1>1, <2>10, WaitsInDrain DEF DrainSend
    <3> QED
      BY <2>1, <2>4, <2>10, <3>1 DEF DrainSend
  <2>11. ASSUME NEW w \in Worker, NEW r \in Request, DrainRefuse(w, r) PROVE FALSE
    <3>1. Username(r) \in User
      BY <1>1, <2>11, WaitsInDrain DEF DrainRefuse
    <3>2. Evicted(Username(r)) \in SUBSET Worker
      BY <1>1, <3>1, EvictedWorkers
    <3> QED
      BY <2>3, <2>11, <3>2 DEF DrainRefuse
  <2>12. CASE Shutdown
    <3>1. {w \in PooledWorkers : pending[w] = {}} \in SUBSET Worker
      BY <1>1, WorkersOf DEF PooledWorkers, Pooled, Inv, Shapes
    <3> QED
      BY <2>3, <2>12, <3>1 DEF Shutdown
  <2>13. CASE Stop
    BY <2>13 DEF Stop
  <2>14. CASE Event
    BY <2>4, <2>7, <2>8, <2>9, <2>10, <2>11, <2>12, <2>13, <2>14
    DEF Event, Lookup, ExpireQueued
  <2> QED
    BY <1>1, <2>5, <2>6, <2>14 DEF Next
<1>2. Inv /\ [Next]_vars => [Start]_vars
  BY <1>1
<1> QED
  BY <1>2, Invariance, PTL DEF Spec, AnsweredIsNotStarted

=============================================================================
