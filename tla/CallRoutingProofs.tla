-------------------------- MODULE CallRoutingProofs --------------------------
(***************************************************************************)
(* Proofs about CallRouting: types, that a call works only in directories  *)
(* it is allowed in, and that a hub has the audit entries of its answers   *)
(* on disk when it exits, for any executors, users, shares, configurations *)
(* and filters, and any number of changes to them.                         *)
(***************************************************************************)
EXTENDS CallRouting, FiniteSetTheorems, SequenceTheorems, TLAPS

-----------------------------------------------------------------------------
(* The inductive invariant *)

Config == UNION {Configs[e] : e \in Executor}

Request == [user : User, tool : STRING, share : Share, dst : Share \cup {NoShare},
            host : Executor \cup {AnyHost}]

CallStages == {"idle", "own", "hubs", "filters", "checks", "ended"}

CallRecord ==
  [stage : CallStages, request : Request \cup {NoEnvelope}, side : {"source", "destination"},
   to : Executor \cup {NoExecutor}, root : Path \cup {NoShare}, dstRoot : Path \cup {NoShare},
   filters : SUBSET Path, since : SUBSET Filters]

Rpc == [stage : Stage, under : Config \cup {NoConfig}]

\* The types of the variables, each by itself.
ExecShapes ==
  /\ config \in [Executor -> Config] /\ \A e \in Executor : config[e] \in Configs[e]
  /\ phase \in [Hub -> Phase]
  /\ envelope \in [Call -> Envelope \cup {NoEnvelope}]
  /\ rpc \in [Call -> Rpc]
  /\ touched \in [Call -> SUBSET Path]
  /\ toWrite \in [Hub -> Seq(Call)]
  /\ flushing \in [Hub -> Nat]
  /\ log \in [Hub -> SUBSET Call]

RelayShapes ==
  /\ rows \in [Executor -> Config] /\ \A e \in Executor : rows[e] \in Configs[e]
  /\ online \subseteq Executor /\ filters \subseteq Filters
  /\ call \in [Call -> CallRecord]

\* A call that is still with the relay is nowhere else.
Unsent ==
  \A c \in Call : call[c].stage # "ended" =>
    envelope[c] = NoEnvelope /\ rpc[c].stage = "none" /\ touched[c] = {}

\* The caller's own nodes are the only nodes a call is resolved to.
OwnNode(user, e) == e \in Node => OwnerOf[e] = user

\* What the stages of the lookups imply for the record r of a call c.
ResolvedAt(c, r) ==
  /\ r.stage \in {"own", "hubs", "filters", "checks"} => r.request \in Requests[c]
  /\ r.stage \in {"filters", "checks"} \/ r.side = "destination" =>
       /\ r.request \in Requests[c]
       /\ r.to \in Executor /\ r.root \in Path
       /\ OwnNode(r.request.user, r.to)

\* The filters set since the call began are the caller's, and set still; once the filters are
\* read, they are among those the call carries.
FiltersAt(r) ==
  /\ r.since \subseteq filters
  /\ r.stage \in {"own", "hubs", "filters", "checks"} => \A f \in r.since : f.user = r.request.user
  /\ r.stage = "checks" => \A f \in r.since : f.scope \in {AnyHost, r.to} => f.path \in r.filters

Resolved == \A c \in Call : ResolvedAt(c, call[c]) /\ FiltersAt(call[c])

\* What was sent: to whom, and with which filters.
SentTo ==
  \A c \in Call : envelope[c] # NoEnvelope =>
    /\ OwnNode(envelope[c].user, envelope[c].to)
    /\ \A f \in call[c].since : f.scope \in {AnyHost, envelope[c].to} => f.path \in envelope[c].filters

RelayInv == RelayShapes /\ Unsent /\ Resolved

\* An executor works on what was sent; directories are entered by calls it accepted, and on a
\* hub only by calls whose permission was checked.
Accepted ==
  \A c \in Call :
    /\ rpc[c].stage # "none" <=> envelope[c] # NoEnvelope
    /\ touched[c] # {} => rpc[c].stage \notin {"none", "sent", "refused", "identity", "pooled"}
    /\ /\ rpc[c].stage \in {"pooled", "running", "ran", "killed", "orphan"}
       /\ envelope[c].to \in Hub
       => Permitted(c)

\* A call of which the hub's process knows and that it has not answered.
Held == {"identity", "pooled", "running", "ran", "killed"}

\* How many of the entries will certainly be written, unless the process crashes.
Certain(h) == IF phase[h] = "flushing" THEN flushing[h] ELSE Len(toWrite[h])

\* The call has an entry on disk, or will have one before the exit.
Entered(c, h) == c \in log[h] \/ \E i \in 1..Certain(h) : toWrite[h][i] = c

\* Calls are held, and entries yet to be written, by a process that exists; entries belong to
\* calls that were answered; an answered call has its entry, or will have it.
Audited(h) ==
  /\ \A c \in OfHub(h, Held) : Alive(h)
  /\ toWrite[h] # <<>> => Alive(h)
  /\ flushing[h] <= Len(toWrite[h])
  /\ flushing[h] > 0 => phase[h] = "flushing"
  /\ ToSet(toWrite[h]) \cup log[h] \subseteq OfHub(h, {"done", "late"})
  /\ \A c \in OfHub(h, {"done"}) : Entered(c, h)

AuditInv == \A h \in Hub : Audited(h)

Inv == ExecShapes /\ RelayInv /\ SentTo /\ Accepted /\ RunsWhereAllowed /\ AuditInv

-----------------------------------------------------------------------------
(* Sequences of entries *)

\* The entries of a set of calls, in some order: each of them, and no other.
LEMMA SetToSeqIs ==
  ASSUME NEW S, IsFiniteSet(S)
  PROVE  SetToSeq(S) \in Seq(S) /\ ToSet(SetToSeq(S)) = S
<1> DEFINE n == Cardinality(S)
           f == SetToSeq(S)
<1>1. n \in Nat /\ ExistsBijection(1..n, S)
  BY FS_CardinalityType
<1>2. PICK g : g \in Bijection(1..n, S)
  BY <1>1 DEF ExistsBijection
<1>3. g \in [1..n -> S] /\ IsInjective(g)
  BY <1>2 DEF Bijection, Injection
<1>4. f \in [1..n -> S] /\ IsInjective(f)
  BY <1>3 DEF SetToSeq
<1>5. f \in Injection(1..n, S)
  BY <1>4 DEF Injection
<1>6. IsFiniteSet(1..n) /\ Cardinality(1..n) = n
  BY <1>1, FS_Interval
<1>7. f \in Surjection(1..n, S)
  BY <1>5, <1>6, FS_Injection
<1>8. \A x \in S : \E i \in 1..n : f[i] = x
  BY <1>7 DEF Surjection
<1>9. f \in Seq(S)
  BY <1>1, <1>4
<1> QED
  BY <1>4, <1>8, <1>9 DEF ToSet

\* The entries of a sequence are its elements.
LEMMA ToSetIs ==
  ASSUME NEW S, NEW s \in Seq(S)
  PROVE  /\ \A x : x \in ToSet(s) <=> \E i \in 1..Len(s) : s[i] = x
         /\ ToSet(s) \subseteq S
BY DEF ToSet

LEMMA ToSetAppend ==
  ASSUME NEW S, NEW s \in Seq(S), NEW x \in S
  PROVE  ToSet(Append(s, x)) = ToSet(s) \cup {x}
<1>1. Append(s, x) \in Seq(S) /\ Len(Append(s, x)) = Len(s) + 1
  OBVIOUS
<1>2. \A i \in 1..Len(s) : Append(s, x)[i] = s[i]
  OBVIOUS
<1>3. Append(s, x)[Len(s) + 1] = x
  OBVIOUS
<1>4. \A y : y \in ToSet(Append(s, x)) <=> \E i \in 1..(Len(s) + 1) : Append(s, x)[i] = y
  BY <1>1, ToSetIs
<1>5. \A y : y \in ToSet(s) <=> \E i \in 1..Len(s) : s[i] = y
  BY ToSetIs
<1>6. \A i \in 1..(Len(s) + 1) : i \in 1..Len(s) \/ i = Len(s) + 1
  OBVIOUS
<1>7. Len(s) + 1 \in 1..(Len(s) + 1) /\ \A i \in 1..Len(s) : i \in 1..(Len(s) + 1)
  OBVIOUS
<1> QED
  BY <1>2, <1>3, <1>4, <1>5, <1>6, <1>7

LEMMA ToSetConcat ==
  ASSUME NEW S, NEW s \in Seq(S), NEW t \in Seq(S)
  PROVE  ToSet(s \o t) = ToSet(s) \cup ToSet(t)
<1>1. s \o t \in Seq(S) /\ Len(s \o t) = Len(s) + Len(t)
  BY ConcatProperties
<1>2. \A i \in 1..Len(s) : (s \o t)[i] = s[i]
  BY ConcatProperties
<1>3. \A j \in 1..Len(t) : Len(s) + j \in 1..Len(s \o t) /\ (s \o t)[Len(s) + j] = t[j]
  BY <1>1, ConcatProperties
<1>4. \A i \in 1..Len(s \o t) : (s \o t)[i] \in ToSet(s) \cup ToSet(t)
  <2> TAKE i \in 1..Len(s \o t)
  <2>1. CASE i <= Len(s)
    BY <1>1, <1>2, <2>1, ToSetIs
  <2>2. CASE i > Len(s)
    <3>1. i - Len(s) \in 1..Len(t)
      BY <1>1, <2>2
    <3>2. (s \o t)[i] = t[i - Len(s)]
      BY <1>1, <2>2, ConcatProperties
    <3> QED
      BY <3>1, <3>2, ToSetIs
  <2> QED
    BY <1>1, <2>1, <2>2
<1>5. \A i \in 1..Len(s) : i \in 1..Len(s \o t)
  BY <1>1
<1>6. \A x : x \in ToSet(s \o t) <=> \E i \in 1..Len(s \o t) : (s \o t)[i] = x
  BY <1>1, ToSetIs
<1>7. \A x : /\ x \in ToSet(s) <=> \E i \in 1..Len(s) : s[i] = x
             /\ x \in ToSet(t) <=> \E j \in 1..Len(t) : t[j] = x
  BY ToSetIs
<1> QED
  BY <1>2, <1>3, <1>4, <1>5, <1>6, <1>7

LEMMA ToSetHeadTail ==
  ASSUME NEW S, NEW s \in Seq(S), s # <<>>
  PROVE  Head(s) \in ToSet(s) /\ ToSet(Tail(s)) \subseteq ToSet(s)
<1>1. Tail(s) \in Seq(S) /\ Len(Tail(s)) = Len(s) - 1 /\ Len(s) \in Nat /\ Len(s) > 0
  OBVIOUS
<1>2. \A i \in 1..Len(Tail(s)) : i + 1 \in 1..Len(s) /\ Tail(s)[i] = s[i + 1]
  BY <1>1, HeadTailProperties
<1>3. Head(s) = s[1] /\ 1 \in 1..Len(s)
  BY <1>1
<1>4. \A x : /\ x \in ToSet(s) <=> \E i \in 1..Len(s) : s[i] = x
             /\ x \in ToSet(Tail(s)) <=> \E i \in 1..Len(Tail(s)) : Tail(s)[i] = x
  BY <1>1, ToSetIs
<1> QED
  BY <1>2, <1>3, <1>4

-----------------------------------------------------------------------------
(* The initial states *)

LEMMA InitInv == Init => Inv
<1> SUFFICES ASSUME Init
             PROVE  Inv
  OBVIOUS
<1> USE RoutingAssumption DEF RoutingAssumption
<1>1. ExecShapes
  BY DEF Init, ExecutorInit, ExecShapes, Config, Phase, Rpc, Stage
<1>2. RelayShapes
  BY DEF Init, RelayShapes, Config, NoCall, CallRecord, CallStages
<1>3. \A c \in Call :
        /\ call[c] = NoCall /\ envelope[c] = NoEnvelope
        /\ rpc[c].stage = "none" /\ touched[c] = {}
  BY DEF Init, ExecutorInit
<1>4. Unsent /\ Resolved
  BY <1>3 DEF Unsent, Resolved, ResolvedAt, FiltersAt, NoCall
<1>5. SentTo /\ Accepted /\ RunsWhereAllowed
  BY <1>3 DEF SentTo, Accepted, RunsWhereAllowed
<1>6. \A h \in Hub : toWrite[h] = <<>> /\ flushing[h] = 0 /\ log[h] = {}
  BY DEF Init, ExecutorInit
<1>7. \A h \in Hub : \A stages : OfHub(h, stages) = {}
  BY <1>3 DEF OfHub, At
<1>8. AuditInv
  BY <1>6, <1>7 DEF AuditInv, Audited, ToSet
<1> QED
  BY <1>1, <1>2, <1>4, <1>5, <1>8 DEF Inv, RelayInv

-----------------------------------------------------------------------------
(* The relay's steps *)

\* What the relay announces of a share: a directory.
LEMMA AnnouncedIsPath ==
  ASSUME RelayShapes, NEW c \in Call, NEW e \in Executor, Offers(e, Wanted(c))
  PROVE  Announced(e, rows[e][Wanted(c).share].path) \in Path
<1>1. rows[e] \in Configs[e] /\ Wanted(c).share \in DOMAIN rows[e]
  BY DEF RelayShapes, Offers
<1>2. rows[e][Wanted(c).share].path \in Path
  BY <1>1, ExecutorsAssumption DEF ExecutorsAssumption, Executor
<1> QED
  BY <1>2, ExecutorsAssumption DEF ExecutorsAssumption, Announced

\* A step that only moves a call on.
LEMMA MovesInv ==
  ASSUME RelayInv, NEW c \in Call, NEW r \in CallRecord, Moves(c, r),
         r.stage # "ended" => call[c].stage # "ended", ResolvedAt(c, r), FiltersAt(r)
  PROVE  RelayInv'
<1> USE DEF RelayInv
<1>1. call' = [call EXCEPT ![c] = r] /\ UNCHANGED <<execVars, rows, online, filters>>
  BY DEF Moves
<1>2. RelayShapes'
  BY <1>1 DEF RelayShapes
<1>3. call'[c] = r /\ \A k \in Call : k # c => call'[k] = call[k]
  BY <1>1 DEF RelayShapes
<1>4. Unsent'
  BY <1>1, <1>3 DEF Unsent, execVars
<1>5. Resolved'
  BY <1>1, <1>3 DEF Resolved, ResolvedAt, FiltersAt
<1> QED
  BY <1>2, <1>4, <1>5

\* A share is found at one of the caller's nodes, or at a hub; the destination is looked up
\* for the same executor.
LEMMA ResolvesInv ==
  ASSUME RelayInv, NEW c \in Call, NEW e \in Executor, Offers(e, Wanted(c)), Resolves(c, e),
         OwnNode(call[c].request.user, e), call[c].stage \in {"own", "hubs"}
  PROVE  RelayInv'
<1> DEFINE found == Announced(e, rows[e][Wanted(c).share].path)
           two == HasDestination(call[c].request)
<1>1. found \in Path
  BY AnnouncedIsPath DEF RelayInv
<1>2. call[c] \in CallRecord /\ ResolvedAt(c, call[c]) /\ FiltersAt(call[c])
  BY DEF RelayInv, RelayShapes, Resolved
<1>3. CASE call[c].side = "destination"
  <2> DEFINE r == [call[c] EXCEPT !.stage = "filters", !.dstRoot = found]
  <2>1. Moves(c, r)
    BY <1>3 DEF Resolves
  <2> HIDE DEF found
  <2>2. r \in CallRecord
    BY <1>1, <1>2 DEF CallRecord, CallStages
  <2>3. /\ r.stage = "filters" /\ r.request = call[c].request /\ r.side = call[c].side
        /\ r.to = call[c].to /\ r.root = call[c].root /\ r.since = call[c].since
    BY <1>2 DEF CallRecord
  <2>4. ResolvedAt(c, r) /\ FiltersAt(r)
    BY <1>2, <1>3, <2>3 DEF ResolvedAt, FiltersAt
  <2> QED
    BY <2>1, <2>2, <2>3, <2>4, MovesInv
<1>4. CASE call[c].side = "source"
  <2> DEFINE r == [call[c] EXCEPT !.to = e, !.root = found, !.dstRoot = found,
                      !.stage = IF two THEN "own" ELSE "filters",
                      !.side  = IF two THEN "destination" ELSE "source"]
  <2>1. Moves(c, r)
    BY <1>4 DEF Resolves
  <2> HIDE DEF found, two
  <2>2. r \in CallRecord
    BY <1>1, <1>2 DEF CallRecord, CallStages
  <2>3. /\ r.stage \in {"own", "filters"} /\ r.request = call[c].request
        /\ r.to = e /\ r.root = found /\ r.since = call[c].since
    BY <1>2 DEF CallRecord
  <2>4. ResolvedAt(c, r) /\ FiltersAt(r)
    BY <1>1, <1>2, <2>3 DEF ResolvedAt, FiltersAt
  <2> QED
    BY <2>1, <2>2, <2>3, <2>4, MovesInv
<1> QED
  BY <1>2, <1>3, <1>4 DEF CallRecord

LEMMA BeginsInv ==
  ASSUME RelayInv, NEW c \in Call, Begins(c)
  PROVE  RelayInv'
<1>1. PICK q \in Requests[c] :
        Moves(c, [NoCall EXCEPT !.stage = "own", !.request = q,
                    !.since = {f \in filters : f.user = q.user}])
  BY DEF Begins
<1> DEFINE r == [NoCall EXCEPT !.stage = "own", !.request = q,
                   !.since = {f \in filters : f.user = q.user}]
<1>2. q \in Request
  BY RoutingAssumption DEF RoutingAssumption, Request
<1>3. r \in CallRecord
  BY <1>2 DEF RelayInv, RelayShapes, CallRecord, CallStages, NoCall
<1>4. ResolvedAt(c, r) /\ FiltersAt(r)
  BY DEF ResolvedAt, FiltersAt, NoCall
<1>5. call[c].stage # "ended"
  BY DEF Begins, Stands
<1> QED
  BY <1>1, <1>3, <1>4, <1>5, MovesInv

\* A call that is given up is with nobody.
LEMMA RefusedInv ==
  ASSUME RelayInv, NEW c \in Call, Refused(c)
  PROVE  RelayInv'
<1> DEFINE r == [NoCall EXCEPT !.stage = "ended"]
<1>1. r \in CallRecord
  BY DEF CallRecord, CallStages, NoCall
<1>2. r.stage = "ended" /\ ResolvedAt(c, r) /\ FiltersAt(r)
  BY DEF ResolvedAt, FiltersAt, NoCall
<1> QED
  BY <1>1, <1>2, MovesInv DEF Refused

LEMMA ReadFiltersInv ==
  ASSUME RelayInv, NEW c \in Call, ReadFilters(c)
  PROVE  RelayInv'
<1> DEFINE read == {f.path : f \in FiltersFor(call[c].request.user, call[c].to)}
           r == [call[c] EXCEPT !.stage = "checks", !.filters = read]
<1>1. call[c] \in CallRecord /\ ResolvedAt(c, call[c]) /\ FiltersAt(call[c])
  BY DEF RelayInv, RelayShapes, Resolved
<1>2. Moves(c, r) /\ call[c].stage = "filters"
  BY DEF ReadFilters, Stands
<1>3. read \subseteq Path
  BY RoutingAssumption DEF RelayInv, RelayShapes, FiltersFor, RoutingAssumption
<1>4. \A f \in call[c].since : f.scope \in {AnyHost, call[c].to} => f.path \in read
  BY <1>1, <1>2 DEF FiltersAt, FiltersFor
<1> HIDE DEF read
<1>5. r \in CallRecord
  BY <1>1, <1>3 DEF CallRecord, CallStages
<1>6. /\ r.stage = "checks" /\ r.request = call[c].request /\ r.to = call[c].to
      /\ r.root = call[c].root /\ r.since = call[c].since /\ r.filters = read
  BY <1>1 DEF CallRecord
<1>7. ResolvedAt(c, r) /\ FiltersAt(r)
  BY <1>1, <1>2, <1>4, <1>6 DEF ResolvedAt, FiltersAt
<1> QED
  BY <1>2, <1>5, <1>7, MovesInv

\* The steps of the relay up to the dispatch.
LEMMA LookupsInv ==
  ASSUME RelayInv, NEW c \in Call,
         Begins(c) \/ FindOwn(c) \/ FindHub(c) \/ ReadFilters(c) \/ Fails(c)
  PROVE  RelayInv'
<1>1. CASE Begins(c)
  BY <1>1, BeginsInv
<1>2. CASE FindOwn(c)
  <2>1. CASE OwnShares(c) = {}
    <3> DEFINE r == [call[c] EXCEPT !.stage = "hubs"]
    <3>1. call[c] \in CallRecord /\ ResolvedAt(c, call[c]) /\ FiltersAt(call[c])
      BY DEF RelayInv, RelayShapes, Resolved
    <3>2. Moves(c, r) /\ call[c].stage = "own"
      BY <1>2, <2>1 DEF FindOwn, Stands
    <3>3. r \in CallRecord
      BY <3>1 DEF CallRecord, CallStages
    <3>4. /\ r.stage = "hubs" /\ r.request = call[c].request /\ r.to = call[c].to
          /\ r.root = call[c].root /\ r.since = call[c].since /\ r.side = call[c].side
      BY <3>1 DEF CallRecord
    <3>5. ResolvedAt(c, r) /\ FiltersAt(r)
      BY <3>1, <3>2, <3>4 DEF ResolvedAt, FiltersAt
    <3> QED
      BY <3>2, <3>3, <3>5, MovesInv
  <2>2. CASE OwnShares(c) # {}
    <3>1. PICK n \in OwnShares(c) : Resolves(c, n)
      BY <1>2, <2>2 DEF FindOwn
    <3>2. n \in Executor /\ Offers(n, Wanted(c)) /\ OwnNode(call[c].request.user, n)
      BY DEF OwnShares, OwnNode, Executor
    <3> QED
      BY <1>2, <3>1, <3>2, ResolvesInv DEF FindOwn, Stands
  <2> QED
    BY <2>1, <2>2
<1>3. CASE FindHub(c)
  <2>1. CASE Refused(c)
    BY <2>1, RefusedInv
  <2>2. CASE \E h \in accessibleHubShares(c) : Resolves(c, h)
    <3>1. PICK h \in accessibleHubShares(c) : Resolves(c, h)
      BY <2>2
    <3>2. h \in Hub /\ Offers(h, Wanted(c))
      BY DEF accessibleHubShares
    <3>3. h \in Executor /\ OwnNode(call[c].request.user, h)
      BY <3>2, ExecutorsAssumption DEF ExecutorsAssumption, OwnNode, Executor
    <3> QED
      BY <1>3, <3>1, <3>2, <3>3, ResolvesInv DEF FindHub, Stands
  <2> QED
    BY <1>3, <2>1, <2>2 DEF FindHub
<1>4. CASE ReadFilters(c)
  BY <1>4, ReadFiltersInv
<1>5. CASE Fails(c)
  BY <1>5, RefusedInv DEF Fails
<1> QED
  BY <1>1, <1>2, <1>3, <1>4, <1>5

-----------------------------------------------------------------------------
(* What executors do with a call *)

ExecutorStep ==
  \/ \E n \in Node : EditPaths(n) \/ \E c \in Call : NodeRpc(n, c)
  \/ \E h \in Hub : HubLives(h) \/ HubEnds(h) \/ \E c \in Call : HubRpc(h, c)

\* A call's new stage leaves the configuration it is under.
LEMMA StagesTyped ==
  ASSUME ExecShapes, NEW c \in Call, NEW st \in Stage, Step(c, st)
  PROVE  rpc' \in [Call -> Rpc]
<1>1. rpc[c] \in Rpc
  BY DEF ExecShapes
<1>2. [rpc[c] EXCEPT !.stage = st] \in Rpc
  BY <1>1 DEF Rpc
<1> QED
  BY <1>2 DEF ExecShapes, Step

LEMMA ExecShapesNext ==
  ASSUME ExecShapes, ExecutorStep
  PROVE  ExecShapes' /\ envelope' = envelope
<1> USE DEF ExecShapes
<1>0. \A c \in Call : /\ rpc[c] \in Rpc
                     /\ [rpc[c] EXCEPT !.stage = "lost"] \in Rpc
                     /\ [rpc[c] EXCEPT !.stage = "done"] \in Rpc
  BY DEF Rpc, Stage
<1>1. ASSUME NEW n \in Node, EditPaths(n)
      PROVE  ExecShapes' /\ envelope' = envelope
  BY <1>1 DEF EditPaths, Config, Executor
<1>2. \A c \in Call : \A s : execute(c, s) => touched' \in [Call -> SUBSET Path]
  <2> SUFFICES ASSUME NEW c \in Call, NEW s, execute(c, s)
               PROVE  touched' \in [Call -> SUBSET Path]
    OBVIOUS
  <2>1. rpc[c].under \in Config \/ rpc[c].under = NoConfig
    BY DEF Rpc
  <2>2. ASSUME NEW name \in DOMAIN rpc[c].under
        PROVE  Real[rpc[c].under[name].path] \in Path
    <3>1. rpc[c].under \in Config
      BY <2>1, <2>2 DEF NoConfig
    <3>2. rpc[c].under[name].path \in Path
      BY <3>1, ExecutorsAssumption DEF Config, ExecutorsAssumption, Executor
    <3> QED
      BY <3>2, ExecutorsAssumption DEF ExecutorsAssumption
  <2>3. Passes(c, s) => Directories(c, s) \subseteq Path
    BY <2>2 DEF Directories, Passes
  <2> QED
    BY <2>3 DEF execute
<1>3. \A st \in {"refused", "running", "identity", "lost", "killed", "ran", "pooled", "done", "late",
                 "orphan"} : st \in Stage
  BY DEF Stage
<1>4. ASSUME NEW n \in Node, NEW c \in Call, NodeRpc(n, c)
      PROVE  ExecShapes' /\ envelope' = envelope
  <2>1. CASE NodeReceives(n, c)
    BY <2>1 DEF NodeReceives, Rpc, Stage, Config, Executor
  <2>2. CASE NodeRuns(n, c)
    <3>1. touched' \in [Call -> SUBSET Path]
      BY <1>2, <2>2 DEF NodeRuns
    <3>2. rpc' \in [Call -> Rpc]
      BY <1>3, <2>2, StagesTyped DEF NodeRuns
    <3> QED
      BY <2>2, <3>1, <3>2 DEF NodeRuns
  <2> QED
    BY <1>4, <2>1, <2>2 DEF NodeRpc
<1>5. ASSUME NEW h \in Hub, NEW c \in Call, Answers(h, c)
      PROVE  ExecShapes' /\ envelope' = envelope
  <2>1. rpc' \in [Call -> Rpc]
    BY <1>3, <1>5, StagesTyped DEF Answers
  <2>2. toWrite' \in [Hub -> Seq(Call)]
    BY <1>5 DEF Answers
  <2> QED
    BY <1>5, <2>1, <2>2 DEF Answers
<1>6. ASSUME NEW h \in Hub, NEW c \in Call, HubRpc(h, c)
      PROVE  ExecShapes' /\ envelope' = envelope
  <2>1. CASE HubReceives(h, c)
    BY <2>1 DEF HubReceives, Rpc, Stage, Config, Executor
  <2>2. CASE Identified(h, c) \/ WorkerGets(h, c)
    <3>1. rpc' \in [Call -> Rpc]
      BY <1>3, <2>2, StagesTyped DEF Identified, WorkerGets
    <3> QED
      BY <2>2, <3>1 DEF Identified, WorkerGets
  <2>3. CASE WorkerRuns(h, c)
    <3>1. touched' \in [Call -> SUBSET Path]
      BY <1>2, <2>3 DEF WorkerRuns
    <3>2. rpc' \in [Call -> Rpc]
      BY <1>3, <2>3, StagesTyped DEF WorkerRuns
    <3> QED
      BY <2>3, <3>1, <3>2 DEF WorkerRuns
  <2>4. CASE WorkerOutlives(h, c)
    BY <1>2, <2>4 DEF WorkerOutlives
  <2>5. CASE Answers(h, c)
    BY <1>5, <2>5
  <2> QED
    BY <1>6, <2>1, <2>2, <2>3, <2>4, <2>5
       DEF HubRpc, HubRefuses, NotIdentified, PoolFails, WorkerSettles
<1>7. ASSUME NEW h \in Hub, HubStarts(h)
      PROVE  ExecShapes' /\ envelope' = envelope
  <2>1. rpc' \in [Call -> Rpc]
    BY <1>7, <1>0 DEF HubStarts
  <2>2. phase' \in [Hub -> Phase]
    BY <1>7 DEF HubStarts, Phase
  <2>3. config' \in [Executor -> Config] /\ \A e \in Executor : config'[e] \in Configs[e]
    BY <1>7 DEF HubStarts, Config, Executor
  <2> QED
    BY <1>7, <2>1, <2>2, <2>3 DEF HubStarts
<1>8. ASSUME NEW h \in Hub, HubStops(h)
      PROVE  ExecShapes' /\ envelope' = envelope
  BY <1>8 DEF HubStops, Phase
<1>9. ASSUME NEW h \in Hub, Crashes(h) \/ Exits(h)
      PROVE  ExecShapes' /\ envelope' = envelope
  <2>1. \A c \in Call : AfterEnd(h, c) \in Stage
    BY DEF AfterEnd, Rpc, Stage
  <2>2. rpc' \in [Call -> Rpc]
    <3>1. CASE Crashes(h)
      BY <1>3, <2>1, <3>1 DEF Crashes, Rpc
    <3>2. CASE Exits(h)
      BY <2>1, <3>2 DEF Exits, Rpc
    <3> QED
      BY <1>9, <3>1, <3>2
  <2>3. \E last \in Phase : Ends(h, last)
    BY <1>9 DEF Crashes, Exits, Phase
  <2>4. phase' \in [Hub -> Phase]
    BY <2>3 DEF Ends
  <2>5. toWrite' \in [Hub -> Seq(Call)] /\ flushing' \in [Hub -> Nat]
    BY <2>3 DEF Ends
  <2> QED
    BY <2>2, <2>3, <2>4, <2>5 DEF Ends
<1>10. ASSUME NEW h \in Hub, StopsDraining(h)
       PROVE  ExecShapes' /\ envelope' = envelope
  <2>1. rpc' \in [Call -> Rpc]
    BY <1>10 DEF StopsDraining, Rpc, Stage
  <2>2. flushing' \in [Hub -> Nat] /\ phase' \in [Hub -> Phase]
    BY <1>10 DEF StopsDraining, ToFlush, Phase
  <2> QED
    BY <1>10, <2>1, <2>2 DEF StopsDraining
<1>11. ASSUME NEW h \in Hub, PoolShutsDown(h)
       PROVE  ExecShapes' /\ envelope' = envelope
  <2>1. PICK queued \in SUBSET OfHub(h, {"pooled"}) :
          /\ rpc' = [c \in Call |->
                       IF c \in queued THEN [rpc[c] EXCEPT !.stage = "done"] ELSE rpc[c]]
          /\ toWrite' = [toWrite EXCEPT ![h] = @ \o SetToSeq(queued)]
    BY <1>11 DEF PoolShutsDown
  <2>2. IsFiniteSet(queued) /\ queued \subseteq Call
    BY RoutingAssumption, FS_Subset DEF RoutingAssumption, OfHub
  <2>3. SetToSeq(queued) \in Seq(Call)
    BY <2>2, SetToSeqIs
  <2>4. toWrite[h] \o SetToSeq(queued) \in Seq(Call)
    BY <2>3
  <2>5. rpc' \in [Call -> Rpc]
    BY <2>1, <1>0
  <2>6. phase' \in [Hub -> Phase]
    BY <1>11 DEF PoolShutsDown, Phase
  <2> QED
    BY <1>11, <2>1, <2>4, <2>5, <2>6 DEF PoolShutsDown
<1>12. ASSUME NEW h \in Hub, AuditAppends(h)
       PROVE  ExecShapes' /\ envelope' = envelope
  <2>1. Tail(toWrite[h]) \in Seq(Call) /\ Head(toWrite[h]) \in Call
    BY <1>12 DEF AuditAppends
  <2> QED
    BY <1>12, <2>1 DEF AuditAppends
<1> QED
  BY <1>1, <1>4, <1>6, <1>7, <1>8, <1>9, <1>10, <1>11, <1>12 DEF ExecutorStep, HubLives, HubEnds

\* Before a call is at work, and once its permission is checked.
Early   == {"none", "sent", "refused", "identity", "pooled"}
Checked == {"pooled", "running", "ran", "killed", "orphan"}

\* It is accepted, under the configuration of the moment, or refused.
Accepts(c) ==
  /\ rpc[c].stage = "sent" /\ rpc'[c].stage \in {"refused", "running", "identity"}
  /\ envelope[c].to \in Hub => rpc'[c].stage = "identity"
  /\ touched'[c] = touched[c]

\* It only comes further.
Advances(c) ==
  /\ rpc[c].stage # "none" /\ rpc'[c].under = rpc[c].under /\ touched'[c] = touched[c]
  /\ rpc'[c].stage # "none" /\ (rpc'[c].stage \in Early => rpc[c].stage \in Early)
  /\ rpc'[c].stage \in Checked => rpc[c].stage \in Checked \/ Permitted(c)

\* It is at work in the directories of the shares it names; on a hub the source is the share
\* of the envelope.
Works(c) ==
  /\ rpc[c].stage \in {"running", "killed", "orphan"} /\ rpc'[c].under = rpc[c].under
  /\ rpc'[c].stage \in {"ran", "killed", "orphan"}
  /\ \E s \in DOMAIN rpc[c].under :
       /\ envelope[c].to \in Hub => s = envelope[c].share
       /\ Passes(c, s) /\ touched'[c] = Directories(c, s)

Progress(c) == UNCHANGED <<rpc[c], touched[c]>> \/ Accepts(c) \/ Advances(c) \/ Works(c)

\* The record of c has a new stage, the other calls are as they were.
LEMMA StepIs ==
  ASSUME ExecShapes, NEW c \in Call, NEW st, Step(c, st)
  PROVE  /\ rpc'[c].stage = st /\ rpc'[c].under = rpc[c].under
         /\ \A k \in Call : k # c => rpc'[k] = rpc[k]
BY DEF ExecShapes, Rpc, Step

LEMMA executeIs ==
  ASSUME ExecShapes, NEW c \in Call, NEW s, execute(c, s)
  PROVE  /\ \A k \in Call : k # c => touched'[k] = touched[k]
         /\ \/ touched'[c] = touched[c]
            \/ s \in DOMAIN rpc[c].under /\ Passes(c, s) /\ touched'[c] = Directories(c, s)
BY DEF ExecShapes, execute, Passes, Sides

\* Each handler does to the calls one of these, or nothing.
LEMMA ProgressNext ==
  ASSUME Inv, ExecutorStep
  PROVE  \A c \in Call : Progress(c)
<1> USE DEF Inv
<1>1. ASSUME UNCHANGED <<rpc, touched>>
      PROVE  \A c \in Call : Progress(c)
  BY <1>1 DEF Progress
<1>2. ASSUME NEW n \in Node, NEW c \in Call, NodeRpc(n, c)
      PROVE  \A k \in Call : Progress(k)
  <2>1. envelope[c].to = n /\ n \notin Hub
    BY <1>2, ExecutorsAssumption DEF NodeRpc, NodeReceives, NodeRuns, At, ExecutorsAssumption
  <2>2. CASE NodeReceives(n, c)
    <3>1. \A k \in Call : k # c => UNCHANGED <<rpc[k], touched[k]>>
      BY <2>2 DEF NodeReceives, ExecShapes
    <3>2. Accepts(c)
      BY <2>1, <2>2 DEF NodeReceives, ExecShapes, Accepts
    <3> QED
      BY <3>1, <3>2 DEF Progress
  <2>3. CASE NodeRuns(n, c)
    <3>1. PICK s : execute(c, s)
      BY <2>3 DEF NodeRuns
    <3>2. rpc[c].stage = "running" /\ Step(c, "ran")
      BY <2>3 DEF NodeRuns
    <3>3. \A k \in Call : k # c => UNCHANGED <<rpc[k], touched[k]>>
      BY <3>1, <3>2, StepIs, executeIs
    <3>4. rpc'[c].stage = "ran" /\ rpc'[c].under = rpc[c].under
      BY <3>2, StepIs
    <3>5. Works(c) \/ Advances(c)
      BY <2>1, <3>1, <3>2, <3>4, executeIs DEF Works, Advances, Early, Checked
    <3> QED
      BY <3>3, <3>5 DEF Progress
  <2> QED
    BY <1>2, <2>2, <2>3 DEF NodeRpc
<1>3. ASSUME NEW h \in Hub, NEW c \in Call, NEW st \in {"done", "late", "pooled", "running"},
             Step(c, st), touched' = touched, rpc[c].stage # "none",
             st = "pooled" => rpc[c].stage = "identity" /\ Permitted(c),
             st = "running" => rpc[c].stage = "pooled"
      PROVE  \A k \in Call : Progress(k)
  <2>1. rpc'[c].stage = st /\ rpc'[c].under = rpc[c].under
    BY <1>3, StepIs
  <2>2. Advances(c)
    BY <1>3, <2>1 DEF Advances, Early, Checked, ExecShapes
  <2> QED
    BY <1>3, <2>2, StepIs DEF Progress
<1>4. ASSUME NEW h \in Hub, NEW c \in Call, HubRpc(h, c)
      PROVE  \A k \in Call : Progress(k)
  <2>1. envelope[c].to = h
    BY <1>4 DEF HubRpc, HubReceives, HubRefuses, Identified, NotIdentified, PoolFails, WorkerGets,
                WorkerRuns, WorkerOutlives, WorkerSettles, At
  <2>2. CASE HubReceives(h, c)
    <3>1. \A k \in Call : k # c => UNCHANGED <<rpc[k], touched[k]>>
      BY <2>2 DEF HubReceives, ExecShapes
    <3>2. Accepts(c)
      BY <2>1, <2>2 DEF HubReceives, ExecShapes, Accepts
    <3> QED
      BY <3>1, <3>2 DEF Progress
  <2>3. CASE Identified(h, c)
    BY <1>3, <2>3 DEF Identified
  <2>4. CASE WorkerGets(h, c)
    BY <1>3, <2>4 DEF WorkerGets
  <2>5. CASE HubRefuses(h, c) \/ NotIdentified(h, c) \/ PoolFails(h, c) \/ WorkerSettles(h, c)
    <3>1. Answers(h, c) /\ rpc[c].stage # "none"
      BY <2>5 DEF HubRefuses, NotIdentified, PoolFails, WorkerSettles
    <3>2. touched' = touched /\ (Step(c, "late") \/ Step(c, "done"))
      BY <3>1 DEF Answers
    <3> QED
      BY <1>3, <3>1, <3>2
  <2>6. CASE WorkerRuns(h, c)
    <3>1. rpc[c].stage = "running" /\ Step(c, "ran") /\ execute(c, envelope[c].share)
      BY <2>6 DEF WorkerRuns
    <3>2. \A k \in Call : k # c => UNCHANGED <<rpc[k], touched[k]>>
      BY <3>1, StepIs, executeIs
    <3>3. rpc'[c].stage = "ran" /\ rpc'[c].under = rpc[c].under
      BY <3>1, StepIs
    <3>4. Works(c) \/ Advances(c)
      BY <3>1, <3>3, executeIs DEF Works, Advances, Early, Checked
    <3> QED
      BY <3>2, <3>4 DEF Progress
  <2>7. CASE WorkerOutlives(h, c)
    <3>1. rpc[c].stage \in {"killed", "orphan"} /\ rpc' = rpc /\ execute(c, envelope[c].share)
      BY <2>7 DEF WorkerOutlives
    <3>2. \A k \in Call : k # c => UNCHANGED <<rpc[k], touched[k]>>
      BY <3>1, executeIs
    <3>3. Works(c) \/ UNCHANGED <<rpc[c], touched[c]>>
      BY <3>1, executeIs DEF Works
    <3> QED
      BY <3>2, <3>3 DEF Progress
  <2> QED
    BY <1>4, <2>2, <2>3, <2>4, <2>5, <2>6, <2>7 DEF HubRpc
<1>5. ASSUME NEW h \in Hub, HubStarts(h) \/ PoolShutsDown(h) \/ StopsDraining(h)
      PROVE  \A c \in Call : Progress(c)
  <2> TAKE c \in Call
  <2>1. rpc[c] \in Rpc /\ touched'[c] = touched[c]
    BY <1>5 DEF ExecShapes, HubStarts, PoolShutsDown, StopsDraining
  <2>2. CASE HubStarts(h)
    <3>1. \/ rpc'[c] = rpc[c]
          \/ rpc[c].stage = "sent" /\ rpc'[c] = [rpc[c] EXCEPT !.stage = "lost"]
      <4>1. rpc' = [k \in Call |-> IF k \in OfHub(h, {"sent"}) THEN [rpc[k] EXCEPT !.stage = "lost"]
                                                               ELSE rpc[k]]
        BY <2>2 DEF HubStarts
      <4> QED
        BY <4>1 DEF OfHub
    <3> QED
      BY <2>1, <3>1 DEF Progress, Advances, Early, Checked, Rpc
  <2>3. CASE PoolShutsDown(h)
    <3>1. \/ rpc'[c] = rpc[c]
          \/ rpc[c].stage = "pooled" /\ rpc'[c] = [rpc[c] EXCEPT !.stage = "done"]
      <4>1. PICK queued \in SUBSET OfHub(h, {"pooled"}) :
              rpc' = [k \in Call |-> IF k \in queued THEN [rpc[k] EXCEPT !.stage = "done"] ELSE rpc[k]]
        BY <2>3 DEF PoolShutsDown
      <4> QED
        BY <4>1 DEF OfHub
    <3> QED
      BY <2>1, <3>1 DEF Progress, Advances, Early, Checked, Rpc
  <2>4. CASE StopsDraining(h)
    <3>1. \/ rpc'[c] = rpc[c]
          \/ rpc[c].stage \in {"running", "ran"} /\ rpc'[c] = [rpc[c] EXCEPT !.stage = "killed"]
      BY <2>4 DEF StopsDraining, OfHub
    <3> QED
      BY <2>1, <3>1 DEF Progress, Advances, Early, Checked, Rpc
  <2> QED
    BY <1>5, <2>2, <2>3, <2>4
<1>6. ASSUME NEW h \in Hub, Crashes(h) \/ Exits(h)
      PROVE  \A c \in Call : Progress(c)
  <2> TAKE c \in Call
  <2>1. rpc[c] \in Rpc /\ touched'[c] = touched[c]
    BY <1>6 DEF ExecShapes, Crashes, Exits, Ends
  <2>2. \/ rpc[c].stage \in {"running", "killed"} /\ AfterEnd(h, c) = "orphan"
        \/ rpc[c].stage # "none" /\ AfterEnd(h, c) = "lost"
        \/ AfterEnd(h, c) = rpc[c].stage
    BY DEF AfterEnd, OfHub
  <2>3. \/ rpc'[c] = [rpc[c] EXCEPT !.stage = AfterEnd(h, c)]
        \/ c \in ToSet(toWrite[h]) /\ rpc'[c] = [rpc[c] EXCEPT !.stage = "late"]
    BY <1>6 DEF Crashes, Exits
  <2>4. c \in ToSet(toWrite[h]) => rpc[c].stage \in {"done", "late"}
    BY DEF AuditInv, Audited, OfHub
  <2> HIDE DEF Inv
  <2>5. rpc'[c].under = rpc[c].under
    BY <2>1, <2>3 DEF Rpc
  <2>6. \/ rpc'[c].stage = AfterEnd(h, c)
        \/ rpc[c].stage \in {"done", "late"} /\ rpc'[c].stage = "late"
    BY <2>1, <2>3, <2>4 DEF Rpc
  <2>7. rpc'[c].stage = rpc[c].stage => rpc'[c] = rpc[c]
    BY <2>1, <2>3 DEF Rpc
  <2> QED
    BY <2>1, <2>2, <2>5, <2>6, <2>7 DEF Progress, Advances, Early, Checked
<1> QED
  BY <1>1, <1>2, <1>4, <1>5, <1>6 DEF ExecutorStep, HubLives, HubEnds, EditPaths, HubStops, AuditAppends

\* What is granted to a call stays granted: what was sent, and the configuration it was accepted
\* under, are fixed.
LEMMA GrantedStays ==
  ASSUME NEW c \in Call, envelope'[c] = envelope[c], rpc'[c].under = rpc[c].under
  PROVE  /\ \A p : Granted(c, p) => Granted(c, p)'
         /\ Permitted(c) => Permitted(c)'
BY DEF Granted, Permitted, Destination

\* A call at work is granted the directories it works in.
LEMMA WorksGranted ==
  ASSUME Inv, NEW c \in Call, Works(c)
  PROVE  \A p \in touched'[c] : Granted(c, p) /\ p \notin envelope[c].filters
<1>1. PICK s \in DOMAIN rpc[c].under :
        /\ envelope[c].to \in Hub => s = envelope[c].share
        /\ Passes(c, s) /\ touched'[c] = Directories(c, s)
  BY DEF Works
<1>2. TAKE p \in touched'[c]
<1>3. p \notin envelope[c].filters
  BY <1>1 DEF Passes
<1>4. PICK t \in Sides(c, s) : Real[rpc[c].under[t].path] = p
  BY <1>1 DEF Directories
<1>5. t \in DOMAIN rpc[c].under
  BY <1>1 DEF Passes
<1>6. envelope[c] # NoEnvelope
  BY DEF Inv, Accepted, Works
<1>7. envelope[c].to \in Node => OwnerOf[envelope[c].to] = envelope[c].user
  BY <1>6 DEF Inv, SentTo, OwnNode
<1>8. ASSUME envelope[c].to \in Hub
      PROVE  /\ t \in {envelope[c].share, envelope[c].dst}
             /\ checkPermission(subject(envelope[c].user), t, envelope[c].tool, rpc[c].under)
  <2>1. t \in {envelope[c].share} \cup Destination(envelope[c])
    BY <1>1, <1>8 DEF Sides
  <2>2. Permitted(c)
    BY <1>8 DEF Inv, Accepted, Works
  <2>3. checkPermission(subject(envelope[c].user), t, envelope[c].tool, rpc[c].under)
    BY <2>1, <2>2 DEF Permitted, checkRpcPermission
  <2> QED
    BY <2>1, <2>3 DEF Destination
<1> QED
  BY <1>3, <1>4, <1>5, <1>7, <1>8 DEF Granted

\* What the progress of the calls preserves, when filters may go meanwhile.
LEMMA ProgressInv ==
  ASSUME Inv, \A c \in Call : Progress(c), envelope' = envelope,
         \A c \in Call : envelope[c] # NoEnvelope => call'[c].since \subseteq call[c].since
  PROVE  Accepted' /\ RunsWhereAllowed' /\ SentTo'
<1> USE DEF Inv
<1>1. SentTo'
  BY DEF SentTo
<1>2. ASSUME NEW c \in Call
      PROVE  /\ rpc'[c].stage # "none" <=> envelope'[c] # NoEnvelope
             /\ touched'[c] # {} => rpc'[c].stage \notin Early
             /\ /\ rpc'[c].stage \in Checked
                /\ envelope'[c].to \in Hub
                => Permitted(c)'
  <2>1. /\ rpc[c].stage # "none" <=> envelope[c] # NoEnvelope
        /\ touched[c] # {} => rpc[c].stage \notin Early
        /\ rpc[c].stage \in Checked /\ envelope[c].to \in Hub => Permitted(c)
    BY DEF Accepted, Early, Checked
  <2>2. CASE UNCHANGED <<rpc[c], touched[c]>>
    BY <2>1, <2>2, GrantedStays
  <2>3. CASE Accepts(c)
    BY <2>1, <2>3 DEF Accepts, Early, Checked
  <2>4. CASE Advances(c)
    BY <2>1, <2>4, GrantedStays DEF Advances
  <2>5. CASE Works(c)
    <3>1. rpc[c].stage \in Checked /\ rpc'[c].stage \notin Early
      BY <2>5 DEF Works, Checked, Early
    <3> QED
      BY <2>1, <2>5, <3>1, GrantedStays DEF Works, Early
  <2> QED
    BY <2>2, <2>3, <2>4, <2>5 DEF Progress
<1>3. Accepted'
  BY <1>2 DEF Accepted, Early, Checked
<1>4. ASSUME NEW c \in Call, NEW p \in touched'[c]
      PROVE  /\ Granted(c, p)'
             /\ \A f \in call'[c].since : f.scope \in {AnyHost, envelope'[c].to} => f.path # p
  <2>1. CASE touched'[c] = touched[c] /\ rpc'[c].under = rpc[c].under
    <3>1. Granted(c, p) /\ envelope[c] # NoEnvelope
      BY <2>1 DEF RunsWhereAllowed, Accepted
    <3> QED
      BY <2>1, <3>1, GrantedStays DEF RunsWhereAllowed
  <2>2. CASE Works(c)
    <3>1. Granted(c, p) /\ p \notin envelope[c].filters /\ envelope[c] # NoEnvelope
      BY <2>2, WorksGranted DEF Accepted, Works
    <3>2. Granted(c, p)'
      BY <2>2, <3>1, GrantedStays DEF Works
    <3> QED
      BY <3>1, <3>2 DEF SentTo
  <2>3. CASE Accepts(c)
    BY <2>3 DEF Accepts, Accepted
  <2> QED
    BY <2>1, <2>2, <2>3 DEF Progress, Advances
<1>5. RunsWhereAllowed'
  BY <1>4 DEF RunsWhereAllowed
<1> QED
  BY <1>1, <1>3, <1>5

\* The relay's part, when only executors act.
LEMMA RelayUndisturbed ==
  ASSUME Inv, \A c \in Call : Progress(c), UNCHANGED <<envelope, rows, online, filters, call>>
  PROVE  RelayInv'
<1> USE DEF Inv, RelayInv
<1>1. RelayShapes' /\ Resolved'
  BY DEF RelayShapes, Resolved, ResolvedAt, FiltersAt
<1>2. ASSUME NEW c \in Call, call[c].stage # "ended"
      PROVE  envelope'[c] = NoEnvelope /\ rpc'[c].stage = "none" /\ touched'[c] = {}
  <2>1. envelope[c] = NoEnvelope /\ rpc[c].stage = "none" /\ touched[c] = {}
    BY <1>2 DEF Unsent
  <2>2. UNCHANGED <<rpc[c], touched[c]>>
    BY <2>1 DEF Progress, Accepts, Advances, Works
  <2> QED
    BY <2>1, <2>2
<1>3. Unsent'
  BY <1>2 DEF Unsent
<1> QED
  BY <1>1, <1>3

-----------------------------------------------------------------------------
(* What the other steps do to calls *)

OtherStep ==
  \/ \E e \in Executor : HandlesShares(e) \/ Connects(e) \/ Disconnects(e)
  \/ \E f \in Filters : AddFilter(f) \/ DeleteFilter(f)

LEMMA OtherNext ==
  ASSUME Inv, OtherStep
  PROVE  /\ ExecShapes' /\ RelayInv' /\ SentTo' /\ Accepted' /\ RunsWhereAllowed'
         /\ UNCHANGED <<envelope, phase, toWrite, flushing, log>>
         /\ \A c \in Call : rpc'[c].stage # rpc[c].stage => rpc[c].stage = "sent" /\ rpc'[c].stage = "lost"
<1> USE DEF Inv, RelayInv
<1>1. CASE UNCHANGED execVars
  <2>1. \A c \in Call : Progress(c)
    BY <1>1 DEF Progress, execVars
  <2>2. \A c \in Call : /\ call'[c].since \subseteq call[c].since
                        /\ call'[c].stage = call[c].stage
    <3>1. CASE call' = call
      BY <3>1
    <3>2. ASSUME NEW f \in Filters, DeleteFilter(f), NEW c \in Call
          PROVE  call'[c].since \subseteq call[c].since /\ call'[c].stage = call[c].stage
      <4>1. call[c] \in CallRecord /\ call'[c] = [call[c] EXCEPT !.since = @ \ {f}]
        BY <3>2 DEF DeleteFilter, RelayShapes
      <4> QED
        BY <4>1 DEF CallRecord
    <3> QED
      BY <1>1, <3>1, <3>2 DEF OtherStep, HandlesShares, Connects, Disconnects, AddFilter
  <2>3. Accepted' /\ RunsWhereAllowed' /\ SentTo'
    BY <1>1, <2>1, <2>2, ProgressInv DEF execVars
  <2>4. ExecShapes' /\ Unsent'
    BY <1>1, <2>2 DEF ExecShapes, Unsent, execVars
  <2>5. RelayShapes' /\ Resolved'
    <3>1. ASSUME NEW e \in Executor, HandlesShares(e)
          PROVE  RelayShapes' /\ Resolved'
      BY <3>1 DEF HandlesShares, RelayShapes, Resolved, ResolvedAt, FiltersAt, Config
    <3>2. ASSUME NEW e \in Executor, Connects(e)
          PROVE  RelayShapes' /\ Resolved'
      BY <3>2 DEF Connects, RelayShapes, Resolved, ResolvedAt, FiltersAt
    <3>3. ASSUME NEW e \in Executor, Disconnects(e)
          PROVE  RelayShapes' /\ Resolved'
      BY <3>3 DEF Disconnects, RelayShapes, Resolved, ResolvedAt, FiltersAt
    <3>4. ASSUME NEW f \in Filters, AddFilter(f)
          PROVE  RelayShapes' /\ Resolved'
      BY <3>4 DEF AddFilter, RelayShapes, Resolved, ResolvedAt, FiltersAt
    <3>5. ASSUME NEW f \in Filters, DeleteFilter(f)
          PROVE  RelayShapes' /\ Resolved'
      <4>1. ASSUME NEW c \in Call
            PROVE  /\ call'[c] \in CallRecord
                   /\ call'[c].stage = call[c].stage /\ call'[c].request = call[c].request
                   /\ call'[c].side = call[c].side /\ call'[c].to = call[c].to
                   /\ call'[c].root = call[c].root /\ call'[c].filters = call[c].filters
                   /\ call'[c].since = call[c].since \ {f}
        <5>1. call[c] \in CallRecord /\ call'[c] = [call[c] EXCEPT !.since = @ \ {f}]
          BY <3>5 DEF DeleteFilter, RelayShapes
        <5> QED
          BY <5>1 DEF CallRecord
      <4>2. filters' = filters \ {f} /\ UNCHANGED <<rows, online>>
        BY <3>5 DEF DeleteFilter
      <4>3. call' = [c \in Call |-> call'[c]]
        BY <3>5 DEF DeleteFilter
      <4>4. RelayShapes'
        BY <4>1, <4>2, <4>3 DEF RelayShapes
      <4>5. Resolved'
        BY <4>1, <4>2 DEF Resolved, ResolvedAt, FiltersAt
      <4> QED
        BY <4>4, <4>5
    <3> QED
      BY <3>1, <3>2, <3>3, <3>4, <3>5 DEF OtherStep
  <2> QED
    BY <1>1, <2>3, <2>4, <2>5 DEF execVars
<1>2. ASSUME NEW e \in Executor, Disconnects(e)
      PROVE  /\ ExecShapes' /\ RelayInv' /\ SentTo' /\ Accepted' /\ RunsWhereAllowed'
             /\ UNCHANGED <<envelope, phase, toWrite, flushing, log>>
             /\ \A c \in Call : rpc'[c].stage # rpc[c].stage =>
                  rpc[c].stage = "sent" /\ rpc'[c].stage = "lost"
  <2>1. UNCHANGED <<config, phase, envelope, touched, toWrite, flushing, log, rows, filters, call>>
    BY <1>2 DEF Disconnects
  <2>2. ASSUME NEW c \in Call
        PROVE  /\ rpc'[c] \in Rpc /\ rpc'[c].under = rpc[c].under
               /\ \/ rpc'[c] = rpc[c]
                  \/ rpc[c].stage = "sent" /\ rpc'[c].stage = "lost"
    <3>1. \/ rpc'[c] = rpc[c]
          \/ rpc[c].stage = "sent" /\ rpc'[c] = [rpc[c] EXCEPT !.stage = "lost"]
      BY <1>2 DEF Disconnects
    <3>2. rpc[c] \in Rpc
      BY DEF ExecShapes
    <3> QED
      BY <3>1, <3>2 DEF Rpc, Stage
  <2>3. \A c \in Call : Progress(c)
    BY <2>1, <2>2 DEF Progress, Advances, Early, Checked
  <2>4. rpc' = [c \in Call |-> rpc'[c]]
    BY <1>2 DEF Disconnects
  <2>5. ExecShapes'
    BY <2>1, <2>2, <2>4 DEF ExecShapes
  <2>6. SentTo' /\ Accepted' /\ RunsWhereAllowed'
    BY <2>1, <2>3, ProgressInv
  <2>7. RelayShapes' /\ Resolved'
    BY <1>2 DEF Disconnects, RelayShapes, Resolved, ResolvedAt, FiltersAt
  <2>8. Unsent'
    BY <2>1, <2>2 DEF Unsent
  <2> QED
    BY <2>1, <2>2, <2>5, <2>6, <2>7, <2>8
<1> QED
  BY <1>1, <1>2 DEF OtherStep, HandlesShares, Connects, AddFilter, DeleteFilter

LEMMA LookupsNext ==
  ASSUME Inv, NEW c \in Call,
         Begins(c) \/ FindOwn(c) \/ FindHub(c) \/ ReadFilters(c) \/ Fails(c)
  PROVE  /\ ExecShapes' /\ RelayInv' /\ SentTo' /\ Accepted' /\ RunsWhereAllowed'
         /\ UNCHANGED execVars
<1> USE DEF Inv
<1>1. \E r : Moves(c, r)
  BY DEF Begins, FindOwn, FindHub, ReadFilters, Fails, Resolves, Refused
<1>2. UNCHANGED execVars /\ \A k \in Call : k # c => call'[k] = call[k]
  BY <1>1 DEF Moves, RelayInv, RelayShapes
<1>3. call[c].stage # "ended"
  BY DEF Begins, FindOwn, FindHub, ReadFilters, Fails, Stands
<1>4. envelope[c] = NoEnvelope
  BY <1>3 DEF RelayInv, Unsent
<1>5. \A k \in Call : Progress(k)
  BY <1>2 DEF Progress, execVars
<1>6. SentTo' /\ Accepted' /\ RunsWhereAllowed'
  BY <1>2, <1>4, <1>5, ProgressInv DEF execVars
<1> QED
  BY <1>2, <1>6, LookupsInv DEF ExecShapes, execVars

\* The call leaves the relay with what the relay has found out about it.
LEMMA DispatchesNext ==
  ASSUME Inv, NEW c \in Call, Dispatches(c)
  PROVE  /\ ExecShapes' /\ RelayInv' /\ SentTo' /\ Accepted' /\ RunsWhereAllowed'
         /\ UNCHANGED <<phase, toWrite, flushing, log>>
         /\ envelope[c] = NoEnvelope /\ rpc'[c].stage = "sent"
         /\ \A k \in Call : k # c => UNCHANGED <<envelope[k], rpc[k]>>
<1> USE DEF Inv
<1> DEFINE q == call[c].request
           sent == [to |-> call[c].to, user |-> q.user, tool |-> q.tool, share |-> q.share,
                    dst |-> q.dst, root |-> call[c].root, filters |-> call[c].filters]
           ended == [NoCall EXCEPT !.stage = "ended", !.since = call[c].since]
<1>1. call[c] \in CallRecord /\ ResolvedAt(c, call[c]) /\ FiltersAt(call[c])
  BY DEF RelayInv, RelayShapes, Resolved
<1>2. call[c].stage = "checks" /\ envelope' = [envelope EXCEPT ![c] = sent]
  BY DEF Dispatches, Stands
<1>3. call' = [call EXCEPT ![c] = ended]
  BY DEF Dispatches
<1>4. Step(c, "sent")
  BY DEF Dispatches
<1>5. UNCHANGED <<config, phase, touched, toWrite, flushing, log, rows, online, filters>>
  BY DEF Dispatches
<1>6. q \in Request
  BY <1>1, <1>2, RoutingAssumption DEF ResolvedAt, RoutingAssumption, Request
<1>7. sent \in Envelope /\ sent # NoEnvelope
  BY <1>1, <1>2, <1>6, RoutingAssumption
     DEF ResolvedAt, CallRecord, Request, Envelope, RoutingAssumption
<1>8. ended \in CallRecord /\ ended.stage = "ended" /\ ended.side = "source"
        /\ ended.since = call[c].since
  BY <1>1 DEF CallRecord, CallStages, NoCall
<1>9. envelope[c] = NoEnvelope /\ rpc[c].stage = "none" /\ touched[c] = {}
  BY <1>2 DEF RelayInv, Unsent
<1>10. /\ rpc'[c].stage = "sent" /\ \A k \in Call : k # c => rpc'[k] = rpc[k]
       /\ rpc' \in [Call -> Rpc]
  BY <1>4, StepIs, StagesTyped DEF Stage
<1>11. envelope'[c] = sent /\ \A k \in Call : k # c => envelope'[k] = envelope[k]
  BY <1>2 DEF ExecShapes
<1>12. call'[c] = ended /\ \A k \in Call : k # c => call'[k] = call[k]
  BY <1>3 DEF RelayInv, RelayShapes
<1>13. ExecShapes'
  BY <1>2, <1>5, <1>7, <1>10 DEF ExecShapes
<1>14. sent.to = call[c].to /\ sent.user = q.user /\ sent.filters = call[c].filters
  OBVIOUS
<1> HIDE DEF sent, ended
<1>15. RelayShapes' /\ Unsent'
  BY <1>3, <1>5, <1>8, <1>9, <1>10, <1>11, <1>12 DEF RelayInv, RelayShapes, Unsent
<1>16. Resolved'
  BY <1>1, <1>5, <1>8, <1>12 DEF RelayInv, Resolved, ResolvedAt, FiltersAt
<1>17. SentTo'
  BY <1>1, <1>2, <1>8, <1>11, <1>12, <1>14 DEF SentTo, ResolvedAt, FiltersAt
<1>18. \A k \in Call : k # c => /\ \A p : Granted(k, p) => Granted(k, p)'
                                /\ Permitted(k) => Permitted(k)'
  BY <1>10, <1>11, GrantedStays
<1>19. Accepted'
  BY <1>5, <1>7, <1>9, <1>10, <1>11, <1>18 DEF Accepted
<1>20. RunsWhereAllowed'
  BY <1>5, <1>9, <1>11, <1>12, <1>18 DEF RunsWhereAllowed
<1> QED
  BY <1>5, <1>9, <1>10, <1>11, <1>13, <1>15, <1>16, <1>17, <1>19, <1>20 DEF RelayInv

-----------------------------------------------------------------------------
(* The audit log *)

\* What leaves a hub's audit as it is: no call of it gets or loses an answer.
Quiet(c, h) ==
  \/ envelope'[c] = envelope[c] /\ rpc'[c].stage = rpc[c].stage
  \/ /\ envelope'[c] = envelope[c]
     /\ rpc[c].stage \notin {"done", "late"} /\ rpc'[c].stage \notin {"done", "late"}
     /\ At(c, h) /\ rpc'[c].stage \in Held => Alive(h)
  \/ envelope[c] = NoEnvelope /\ rpc'[c].stage = "sent"
  \/ UNCHANGED envelope[c] /\ ~At(c, h)

LEMMA QuietAudit ==
  ASSUME NEW h \in Hub, Audited(h), \A c \in Call : Quiet(c, h),
         UNCHANGED <<phase[h], toWrite[h], flushing[h], log[h]>>
  PROVE  Audited(h)'
<1>1. /\ \A c \in OfHub(h, {"done"})' : c \in OfHub(h, {"done"})
      /\ \A c \in OfHub(h, {"done", "late"}) : c \in OfHub(h, {"done", "late"})'
      /\ (\E c \in Call : c \in OfHub(h, Held)') => Alive(h)
  BY DEF Quiet, OfHub, At, Held, Audited
<1>2. Alive(h)' <=> Alive(h)
  BY DEF Alive
<1>3. \A c : Entered(c, h)' <=> Entered(c, h)
  BY DEF Entered, Certain
<1>4. ToSet(toWrite[h])' = ToSet(toWrite[h])
  OBVIOUS
<1>5. \A c \in OfHub(h, Held)' : Alive(h)'
  BY <1>1, <1>2 DEF OfHub
<1> QED
  BY <1>1, <1>2, <1>3, <1>4, <1>5 DEF Audited

\* The answer to a call: its entry is the last one that is to be written, and a call whose entry
\* the exit does not wait for is late.
LEMMA AnswersAudit ==
  ASSUME ExecShapes, AuditInv, NEW h \in Hub, NEW c \in Call, At(c, h), Alive(h), Answers(h, c)
  PROVE  AuditInv'
<1> USE DEF ExecShapes
<1> DEFINE w == toWrite[h]
<1>1. w \in Seq(Call) /\ toWrite'[h] = Append(w, c)
  BY DEF Answers
<1>2. UNCHANGED <<phase, envelope, flushing, log>>
  BY DEF Answers
<1>3. /\ rpc'[c].stage = IF phase[h] = "flushing" THEN "late" ELSE "done"
      /\ \A k \in Call : k # c => rpc'[k] = rpc[k]
  BY StepIs DEF Answers
<1>4. Audited(h)
  BY DEF AuditInv
<1>5. Len(w) \in Nat /\ Len(Append(w, c)) = Len(w) + 1 /\ Append(w, c)[Len(w) + 1] = c
  BY <1>1
<1>6. \A i \in 1..Len(w) : Append(w, c)[i] = w[i]
  BY <1>1
<1>7. ToSet(toWrite'[h]) = ToSet(w) \cup {c}
  BY <1>1, ToSetAppend
<1>8. \A k \in Call : \A stages :
        /\ k # c => (k \in OfHub(h, stages)' <=> k \in OfHub(h, stages))
        /\ c \in OfHub(h, stages)' <=> rpc'[c].stage \in stages
  BY <1>2, <1>3 DEF OfHub, At
<1>9. Alive(h)'
  BY <1>2 DEF Alive
<1>10. flushing'[h] <= Len(toWrite'[h]) /\ (flushing'[h] > 0 => phase'[h] = "flushing")
  BY <1>1, <1>2, <1>4, <1>5 DEF Audited
<1>11. ToSet(toWrite'[h]) \cup log'[h] \subseteq OfHub(h, {"done", "late"})'
  <2>1. \A k \in OfHub(h, {"done", "late"}) \cup {c} : k \in OfHub(h, {"done", "late"})'
    <3>1. c \in OfHub(h, {"done", "late"})'
      BY <1>3, <1>8
    <3>2. \A k \in OfHub(h, {"done", "late"}) : k \in Call
      BY DEF OfHub
    <3> QED
      BY <1>8, <3>1, <3>2
  <2> QED
    BY <1>2, <1>4, <1>7, <2>1 DEF Audited
<1>12. \A i \in 1..Certain(h) : i \in 1..Certain(h)' /\ toWrite'[h][i] = w[i]
  BY <1>1, <1>2, <1>4, <1>5, <1>6 DEF Certain, Audited
<1>13. \A k : Entered(k, h) => Entered(k, h)'
  BY <1>2, <1>12 DEF Entered
<1>14. phase[h] # "flushing" => Entered(c, h)'
  <2>1. phase[h] # "flushing" => Certain(h)' = Len(w) + 1
    BY <1>1, <1>2, <1>5 DEF Certain
  <2>2. toWrite'[h][Len(w) + 1] = c /\ Len(w) + 1 \in 1..(Len(w) + 1)
    BY <1>1, <1>5
  <2> QED
    BY <2>1, <2>2 DEF Entered
<1>15. \A k \in OfHub(h, {"done"})' : Entered(k, h)'
  BY <1>3, <1>4, <1>8, <1>13, <1>14 DEF Audited, OfHub
<1>16. Audited(h)'
  BY <1>9, <1>10, <1>11, <1>15 DEF Audited
<1>17. ASSUME NEW g \in Hub, g # h
       PROVE  Audited(g)'
  <2>1. \A k \in Call : Quiet(k, g)
    BY <1>2, <1>3, <1>17 DEF Quiet, At
  <2>2. UNCHANGED <<phase[g], toWrite[g], flushing[g], log[g]>>
    BY <1>17 DEF Answers
  <2> QED
    BY <2>1, <2>2, QuietAudit DEF AuditInv
<1> QED
  BY <1>16, <1>17 DEF AuditInv

\* One entry is on disk; the exit waits for one fewer.
LEMMA AppendsAudit ==
  ASSUME ExecShapes, AuditInv, NEW h \in Hub, AuditAppends(h)
  PROVE  AuditInv'
<1> USE DEF ExecShapes
<1> DEFINE w == toWrite[h]
<1>1. w \in Seq(Call) /\ w # <<>> /\ toWrite'[h] = Tail(w) /\ log'[h] = log[h] \cup {Head(w)}
  BY DEF AuditAppends
<1>2. flushing'[h] = IF flushing[h] > 0 THEN flushing[h] - 1 ELSE 0
  BY DEF AuditAppends
<1>3. UNCHANGED <<phase, envelope, rpc>>
  BY DEF AuditAppends
<1>4. Audited(h)
  BY DEF AuditInv
<1>5. Len(w) \in Nat /\ Len(w) > 0 /\ Len(Tail(w)) = Len(w) - 1 /\ Head(w) = w[1]
  BY <1>1
<1>6. \A i \in 1..(Len(w) - 1) : Tail(w)[i] = w[i + 1]
  BY <1>1, <1>5, HeadTailProperties
<1>7. ToSet(toWrite'[h]) \cup log'[h] \subseteq ToSet(w) \cup log[h]
  BY <1>1, ToSetHeadTail
<1>8. \A stages : OfHub(h, stages)' = OfHub(h, stages)
  BY <1>3 DEF OfHub, At
<1>9. Alive(h)' /\ (\A c \in OfHub(h, Held) : Alive(h)')
  BY <1>1, <1>3, <1>4 DEF Alive, Audited
<1>10. flushing'[h] <= Len(toWrite'[h]) /\ (flushing'[h] > 0 => phase'[h] = "flushing")
  BY <1>1, <1>2, <1>3, <1>4, <1>5 DEF Audited
<1>11. ASSUME NEW k, Entered(k, h)
       PROVE  Entered(k, h)'
  <2>1. CASE k \in log[h]
    BY <1>1, <2>1 DEF Entered
  <2>2. CASE \E i \in 1..Certain(h) : w[i] = k
    <3>1. PICK i \in 1..Certain(h) : w[i] = k
      BY <2>2
    <3>2. CASE i = 1
      BY <1>1, <1>5, <3>1, <3>2 DEF Entered
    <3>3. CASE i # 1
      <4>1. Certain(h) \in Nat /\ Certain(h) <= Len(w) /\ Certain(h)' = Certain(h) - 1
        BY <1>1, <1>2, <1>3, <1>4, <1>5, <3>1 DEF Certain, Audited
      <4>2. i - 1 \in 1..Certain(h)' /\ i - 1 \in 1..(Len(w) - 1)
        BY <1>5, <3>1, <3>3, <4>1
      <4>3. toWrite'[h][i - 1] = k
        BY <1>1, <1>6, <3>1, <4>2
      <4> QED
        BY <4>2, <4>3 DEF Entered
    <3> QED
      BY <3>2, <3>3
  <2> QED
    BY <1>11, <2>1, <2>2 DEF Entered
<1>12. Audited(h)'
  BY <1>4, <1>7, <1>8, <1>9, <1>10, <1>11 DEF Audited
<1>13. ASSUME NEW g \in Hub, g # h
       PROVE  Audited(g)'
  <2>1. \A k \in Call : Quiet(k, g)
    BY <1>3 DEF Quiet
  <2>2. UNCHANGED <<phase[g], toWrite[g], flushing[g], log[g]>>
    BY <1>13 DEF AuditAppends
  <2> QED
    BY <2>1, <2>2, QuietAudit DEF AuditInv
<1> QED
  BY <1>12, <1>13 DEF AuditInv

\* The pool answers what is queued.
LEMMA PoolShutsDownAudit ==
  ASSUME ExecShapes, AuditInv, NEW h \in Hub, PoolShutsDown(h)
  PROVE  AuditInv'
<1> USE DEF ExecShapes
<1> DEFINE w == toWrite[h]
<1>1. PICK queued \in SUBSET OfHub(h, {"pooled"}) :
        /\ rpc' = [c \in Call |-> IF c \in queued THEN [rpc[c] EXCEPT !.stage = "done"] ELSE rpc[c]]
        /\ toWrite' = [toWrite EXCEPT ![h] = @ \o SetToSeq(queued)]
  BY DEF PoolShutsDown
<1> DEFINE t == SetToSeq(queued)
<1>2. /\ phase[h] = "closing" /\ phase' = [phase EXCEPT ![h] = "draining"]
      /\ UNCHANGED <<envelope, flushing, log>>
  BY DEF PoolShutsDown
<1>3. IsFiniteSet(queued) /\ queued \subseteq Call
  BY RoutingAssumption, FS_Subset DEF RoutingAssumption, OfHub
<1>4. t \in Seq(Call) /\ ToSet(t) = queued
  BY <1>3, SetToSeqIs
<1> HIDE DEF t
<1>5. w \in Seq(Call) /\ toWrite'[h] = w \o t
  BY <1>1 DEF t
<1>6. Len(w) \in Nat /\ Len(t) \in Nat /\ Len(w \o t) = Len(w) + Len(t)
  BY <1>4, <1>5
<1>7. /\ \A i \in 1..Len(w) : (w \o t)[i] = w[i]
      /\ \A j \in 1..Len(t) : (w \o t)[Len(w) + j] = t[j]
  BY <1>4, <1>5, <1>6, ConcatProperties
<1>8. ToSet(toWrite'[h]) = ToSet(w) \cup queued
  BY <1>4, <1>5, ToSetConcat
<1>9. \A c \in Call : /\ c \in queued => rpc[c].stage = "pooled" /\ rpc'[c].stage = "done" /\ At(c, h)
                      /\ c \notin queued => rpc'[c] = rpc[c]
  BY <1>1 DEF OfHub, Rpc
<1>10. Audited(h)
  BY DEF AuditInv
<1>11. Alive(h) /\ Alive(h)'
  BY <1>2 DEF Alive
<1>12. flushing[h] = 0 /\ flushing'[h] = 0
  BY <1>2, <1>10 DEF Audited
<1>13. \A c \in Call : /\ c \in OfHub(h, {"done", "late"}) \cup queued <=> c \in OfHub(h, {"done", "late"})'
                       /\ c \in OfHub(h, {"done"}) \cup queued <=> c \in OfHub(h, {"done"})'
  BY <1>2, <1>9 DEF OfHub, At
<1>14. ToSet(toWrite'[h]) \cup log'[h] \subseteq OfHub(h, {"done", "late"})'
  BY <1>2, <1>3, <1>8, <1>10, <1>13 DEF Audited, OfHub
<1>15. Certain(h) = Len(w) /\ Certain(h)' = Len(w) + Len(t)
  BY <1>2, <1>5, <1>6 DEF Certain
<1>16. ASSUME NEW c, Entered(c, h) \/ c \in queued
       PROVE  Entered(c, h)'
  <2>1. CASE c \in log[h]
    BY <1>2, <2>1 DEF Entered
  <2>2. CASE \E i \in 1..Certain(h) : w[i] = c
    <3>1. PICK i \in 1..Certain(h) : w[i] = c
      BY <2>2
    <3>2. i \in 1..Certain(h)' /\ toWrite'[h][i] = c
      BY <1>5, <1>6, <1>7, <1>15, <3>1
    <3> QED
      BY <3>2 DEF Entered
  <2>3. CASE c \in queued
    <3>1. PICK j \in 1..Len(t) : t[j] = c
      BY <1>4, <2>3, ToSetIs
    <3>2. Len(w) + j \in 1..Certain(h)' /\ toWrite'[h][Len(w) + j] = c
      BY <1>5, <1>6, <1>7, <1>15, <3>1
    <3> QED
      BY <3>2 DEF Entered
  <2> QED
    BY <1>16, <2>1, <2>2, <2>3 DEF Entered
<1>17. \A c \in OfHub(h, {"done"})' : Entered(c, h)'
  <2>1. \A c \in OfHub(h, {"done"})' : c \in Call
    BY DEF OfHub
  <2> QED
    BY <1>10, <1>13, <1>16, <2>1 DEF Audited
<1>18. Audited(h)'
  BY <1>6, <1>5, <1>11, <1>12, <1>14, <1>17 DEF Audited
<1>19. ASSUME NEW g \in Hub, g # h
       PROVE  Audited(g)'
  <2>1. \A k \in Call : Quiet(k, g)
    BY <1>2, <1>9, <1>19 DEF Quiet, At
  <2>2. UNCHANGED <<phase[g], toWrite[g], flushing[g], log[g]>>
    BY <1>1, <1>2, <1>19
  <2> QED
    BY <2>1, <2>2, QuietAudit DEF AuditInv
<1> QED
  BY <1>18, <1>19 DEF AuditInv

\* The process starts, is told to stop, or stops draining: no entry is added or written.
LEMMA PhaseAudit ==
  ASSUME ExecShapes, AuditInv, NEW h \in Hub, HubStarts(h) \/ HubStops(h) \/ StopsDraining(h)
  PROVE  AuditInv'
<1> USE DEF ExecShapes
<1>1. UNCHANGED <<envelope, toWrite, log>>
  BY DEF HubStarts, HubStops, StopsDraining
<1>2. Audited(h) /\ toWrite[h] \in Seq(Call)
  BY DEF AuditInv
<1>3. \A g \in Hub : g # h => UNCHANGED <<phase[g], flushing[g]>>
  BY DEF HubStarts, HubStops, StopsDraining
<1>4. ASSUME NEW c \in Call
      PROVE  \/ rpc'[c] = rpc[c]
             \/ /\ At(c, h) /\ rpc[c].stage \in {"sent", "running", "ran"}
                /\ rpc'[c].stage \in {"lost", "killed"}
  <2>1. rpc[c] \in Rpc
    OBVIOUS
  <2>2. CASE HubStarts(h)
    <3>1. rpc' = [k \in Call |-> IF k \in OfHub(h, {"sent"}) THEN [rpc[k] EXCEPT !.stage = "lost"]
                                                             ELSE rpc[k]]
      BY <2>2 DEF HubStarts
    <3> QED
      BY <2>1, <3>1 DEF OfHub, Rpc
  <2>3. CASE HubStops(h)
    BY <2>3 DEF HubStops
  <2>4. CASE StopsDraining(h)
    <3>1. rpc' = [k \in Call |->
            IF k \in OfHub(h, {"running", "ran"}) THEN [rpc[k] EXCEPT !.stage = "killed"] ELSE rpc[k]]
      BY <2>4 DEF StopsDraining
    <3> QED
      BY <2>1, <3>1 DEF OfHub, Rpc
  <2> QED
    BY <2>2, <2>3, <2>4
<1>5. Alive(h)'
  BY DEF HubStarts, HubStops, StopsDraining, Alive
<1>6. Certain(h)' = Certain(h) /\ flushing'[h] <= Len(toWrite[h])
        /\ (flushing'[h] > 0 => phase'[h] = "flushing")
  <2>1. CASE HubStarts(h)
    BY <1>2, <2>1 DEF HubStarts, Audited, Certain, Alive
  <2>2. CASE HubStops(h)
    BY <1>2, <2>2 DEF HubStops, Audited, Certain
  <2>3. CASE StopsDraining(h)
    BY <1>2, <2>3 DEF StopsDraining, Audited, Certain, ToFlush
  <2> QED
    BY <2>1, <2>2, <2>3
<1>7. \A c : Entered(c, h)' <=> Entered(c, h)
  BY <1>1, <1>6 DEF Entered
<1>8. \A c \in Call : /\ c \in OfHub(h, {"done"})' <=> c \in OfHub(h, {"done"})
                      /\ c \in OfHub(h, {"done", "late"})' <=> c \in OfHub(h, {"done", "late"})
  BY <1>1, <1>4 DEF OfHub, At
<1>9. OfHub(h, {"done"})' = OfHub(h, {"done"}) /\ OfHub(h, {"done", "late"})' = OfHub(h, {"done", "late"})
  BY <1>8 DEF OfHub
<1>10. Audited(h)'
  BY <1>1, <1>2, <1>5, <1>6, <1>7, <1>9 DEF Audited
<1>11. ASSUME NEW g \in Hub, g # h
       PROVE  Audited(g)'
  <2>1. \A k \in Call : Quiet(k, g)
    BY <1>1, <1>4, <1>11 DEF Quiet, At
  <2>2. UNCHANGED <<phase[g], toWrite[g], flushing[g], log[g]>>
    BY <1>1, <1>3, <1>11
  <2> QED
    BY <2>1, <2>2, QuietAudit DEF AuditInv
<1> QED
  BY <1>10, <1>11 DEF AuditInv

\* The process ends: what it has answered is on disk or, after a crash, late.
LEMMA EndsAudit ==
  ASSUME ExecShapes, AuditInv, NEW h \in Hub, Exits(h) \/ Crashes(h)
  PROVE  AuditInv'
<1> USE DEF ExecShapes
<1>1. UNCHANGED <<envelope, log>>
  BY DEF Exits, Crashes, Ends
<1>2. Audited(h) /\ toWrite[h] \in Seq(Call)
  BY DEF AuditInv
<1>3. /\ toWrite'[h] = <<>> /\ flushing'[h] = 0 /\ phase'[h] # "flushing"
      /\ \A g \in Hub : g # h => UNCHANGED <<phase[g], toWrite[g], flushing[g]>>
  BY DEF Exits, Crashes, Ends
<1>4. ASSUME NEW c \in Call
      PROVE  /\ ~At(c, h) => rpc'[c].stage = rpc[c].stage
             /\ rpc'[c].stage \in {"orphan", "lost", "late"} \/ rpc'[c].stage = rpc[c].stage
             /\ rpc[c].stage \in {"done", "late"} => rpc'[c].stage \in {"done", "late"}
             /\ At(c, h) => rpc'[c].stage \notin Held
             /\ Crashes(h) /\ c \in ToSet(toWrite[h]) => rpc'[c].stage = "late"
  <2>1. rpc[c] \in Rpc
    OBVIOUS
  <2>2. /\ AfterEnd(h, c) \in {"orphan", "lost"} \/ AfterEnd(h, c) = rpc[c].stage
        /\ ~At(c, h) \/ rpc[c].stage \in {"done", "late"} => AfterEnd(h, c) = rpc[c].stage
        /\ At(c, h) => AfterEnd(h, c) \notin Held
    BY DEF AfterEnd, OfHub, Held
  <2>3. \/ Exits(h) /\ rpc'[c].stage = AfterEnd(h, c)
        \/ /\ Crashes(h)
           /\ rpc'[c].stage = IF c \in ToSet(toWrite[h]) THEN "late" ELSE AfterEnd(h, c)
    BY <2>1 DEF Exits, Crashes, Rpc
  <2>4. Exits(h) => ~Crashes(h)
    BY DEF Exits, Crashes, Ends
  <2>5. c \in ToSet(toWrite[h]) => At(c, h)
    BY <1>2 DEF Audited, OfHub
  <2> QED
    BY <2>2, <2>3, <2>4, <2>5 DEF Held
<1>5. \A c \in OfHub(h, Held)' : FALSE
  BY <1>1, <1>4 DEF OfHub, At
<1>6. ASSUME NEW c \in OfHub(h, {"done"})'
      PROVE  c \in log[h]
  <2>1. c \in Call /\ At(c, h) /\ rpc'[c].stage = "done"
    BY <1>1 DEF OfHub, At
  <2>2. rpc[c].stage = "done"
    BY <1>4, <2>1
  <2>3. Entered(c, h)
    BY <1>2, <2>1, <2>2 DEF Audited, OfHub
  <2>4. CASE Exits(h)
    <3>1. Certain(h) = 0
      BY <2>4 DEF Exits, Certain
    <3> QED
      BY <2>3, <3>1 DEF Entered
  <2>5. CASE Crashes(h)
    <3>1. c \notin ToSet(toWrite[h])
      BY <1>4, <2>1, <2>5
    <3>2. Certain(h) \in Nat /\ Certain(h) <= Len(toWrite[h])
      BY <1>2 DEF Certain, Audited
    <3>3. \A i \in 1..Certain(h) : toWrite[h][i] \in ToSet(toWrite[h])
      BY <1>2, <3>2, ToSetIs
    <3> QED
      BY <2>3, <3>1, <3>3 DEF Entered
  <2> QED
    BY <2>4, <2>5
<1>7. log[h] \subseteq OfHub(h, {"done", "late"})'
  <2>1. \A c \in log[h] : c \in Call /\ At(c, h) /\ rpc[c].stage \in {"done", "late"}
    BY <1>2 DEF Audited, OfHub
  <2> QED
    BY <1>1, <1>4, <2>1 DEF OfHub, At
<1>8. ToSet(toWrite'[h]) = {}
  BY <1>3 DEF ToSet
<1>9. Audited(h)'
  BY <1>1, <1>3, <1>5, <1>6, <1>7, <1>8 DEF Audited, Entered
<1>10. ASSUME NEW g \in Hub, g # h
       PROVE  Audited(g)'
  <2>1. \A k \in Call : Quiet(k, g)
    BY <1>1, <1>4, <1>10 DEF Quiet, At
  <2>2. UNCHANGED <<phase[g], toWrite[g], flushing[g], log[g]>>
    BY <1>1, <1>3, <1>10
  <2> QED
    BY <2>1, <2>2, QuietAudit DEF AuditInv
<1> QED
  BY <1>9, <1>10 DEF AuditInv

\* The other handlers answer no call, and give the process none it does not have.
LEMMA HandlersAudit ==
  ASSUME ExecShapes, AuditInv, NEW c \in Call,
         \/ \E n \in Node : NodeRpc(n, c)
         \/ \E h \in Hub : \/ HubReceives(h, c) \/ Identified(h, c) \/ WorkerGets(h, c)
                           \/ WorkerRuns(h, c) \/ WorkerOutlives(h, c)
  PROVE  AuditInv'
<1> USE DEF ExecShapes
<1>1. UNCHANGED <<phase, envelope, toWrite, flushing, log>>
  BY DEF NodeRpc, NodeReceives, NodeRuns, HubReceives, Identified, WorkerGets, WorkerRuns,
         WorkerOutlives
<1>2. \A k \in Call : k # c => rpc'[k] = rpc[k]
  BY DEF NodeRpc, NodeReceives, NodeRuns, HubReceives, Identified, WorkerGets, WorkerRuns,
         WorkerOutlives, Step
<1>3. ASSUME NEW g \in Hub
      PROVE  Quiet(c, g)
  <2>1. Audited(g)
    BY DEF AuditInv
  <2>2. ASSUME NEW n \in Node, NodeRpc(n, c)
        PROVE  Quiet(c, g)
    <3>1. ~At(c, g)
      BY <2>2, ExecutorsAssumption DEF NodeRpc, NodeReceives, NodeRuns, At, ExecutorsAssumption
    <3> QED
      BY <1>1, <3>1 DEF Quiet
  <2>3. ASSUME NEW h \in Hub, HubReceives(h, c)
        PROVE  Quiet(c, g)
    <3>1. rpc[c].stage = "sent" /\ rpc'[c].stage = "identity" /\ phase[h] = "up" /\ At(c, h)
      BY <2>3 DEF HubReceives
    <3> QED
      BY <1>1, <3>1 DEF Quiet, At, Alive
  <2>4. ASSUME NEW h \in Hub, Identified(h, c) \/ WorkerGets(h, c) \/ WorkerRuns(h, c)
        PROVE  Quiet(c, g)
    <3>1. /\ rpc[c].stage \in {"identity", "pooled", "running"} /\ At(c, h)
          /\ rpc'[c].stage \in {"pooled", "running", "ran"}
      BY <2>4, StepIs DEF Identified, WorkerGets, WorkerRuns
    <3>2. At(c, g) => Alive(g)
      BY <2>1, <3>1 DEF Audited, OfHub, Held
    <3> QED
      BY <1>1, <3>1, <3>2 DEF Quiet
  <2>5. ASSUME NEW h \in Hub, WorkerOutlives(h, c)
        PROVE  Quiet(c, g)
    BY <1>1, <2>5 DEF Quiet, WorkerOutlives
  <2> QED
    BY <2>2, <2>3, <2>4, <2>5
<1>4. \A g \in Hub, k \in Call : Quiet(k, g)
  BY <1>1, <1>2, <1>3 DEF Quiet
<1> QED
  BY <1>1, <1>4, QuietAudit DEF AuditInv

\* The executors' part of the audit.
LEMMA ExecutorAudit ==
  ASSUME Inv, ExecutorStep
  PROVE  AuditInv'
<1> USE DEF Inv
<1>1. ASSUME NEW n \in Node, EditPaths(n)
      PROVE  AuditInv'
  <2>1. UNCHANGED <<phase, envelope, rpc, toWrite, flushing, log>>
    BY <1>1 DEF EditPaths
  <2> QED
    BY <2>1, QuietAudit DEF AuditInv, Quiet
<1>2. ASSUME NEW h \in Hub, NEW c \in Call,
             HubRefuses(h, c) \/ NotIdentified(h, c) \/ PoolFails(h, c) \/ WorkerSettles(h, c)
      PROVE  AuditInv'
  <2>1. At(c, h) /\ Answers(h, c)
    BY <1>2 DEF HubRefuses, NotIdentified, PoolFails, WorkerSettles
  <2>2. Alive(h)
    <3>1. CASE HubRefuses(h, c)
      BY <3>1 DEF HubRefuses, ShuttingDown
    <3>2. CASE rpc[c].stage \in Held
      BY <2>1, <3>2 DEF AuditInv, Audited, OfHub
    <3> QED
      BY <1>2, <3>1, <3>2 DEF NotIdentified, PoolFails, WorkerSettles, Held
  <2> QED
    BY <2>1, <2>2, AnswersAudit
<1>3. ASSUME NEW h \in Hub, HubLives(h) \/ HubEnds(h)
      PROVE  AuditInv'
  BY <1>3, PhaseAudit, EndsAudit, PoolShutsDownAudit, AppendsAudit DEF HubLives, HubEnds
<1> QED
  BY <1>1, <1>2, <1>3, HandlersAudit DEF ExecutorStep, HubRpc

-----------------------------------------------------------------------------
(* Theorems *)

LEMMA NextInv == Inv /\ [Next]_vars => Inv'
<1> SUFFICES ASSUME Inv, [Next]_vars
             PROVE  Inv'
  OBVIOUS
<1>1. ASSUME NEW c \in Call, Relay(c)
      PROVE  Inv'
  <2>1. CASE Dispatches(c)
    <3>1. /\ ExecShapes' /\ RelayInv' /\ SentTo' /\ Accepted' /\ RunsWhereAllowed'
          /\ UNCHANGED <<phase, toWrite, flushing, log>>
          /\ envelope[c] = NoEnvelope /\ rpc'[c].stage = "sent"
          /\ \A k \in Call : k # c => UNCHANGED <<envelope[k], rpc[k]>>
      BY <2>1, DispatchesNext
    <3>2. \A h \in Hub, k \in Call : Quiet(k, h)
      BY <3>1 DEF Quiet
    <3> QED
      BY <3>1, <3>2, QuietAudit DEF Inv, AuditInv
  <2>2. CASE Begins(c) \/ FindOwn(c) \/ FindHub(c) \/ ReadFilters(c) \/ Fails(c)
    <3>1. /\ ExecShapes' /\ RelayInv' /\ SentTo' /\ Accepted' /\ RunsWhereAllowed'
          /\ UNCHANGED execVars
      BY <2>2, LookupsNext
    <3>2. \A h \in Hub, k \in Call : Quiet(k, h)
      BY <3>1 DEF Quiet, execVars
    <3> QED
      BY <3>1, <3>2, QuietAudit DEF Inv, AuditInv, execVars
  <2> QED
    BY <1>1, <2>1, <2>2 DEF Relay
<1>2. CASE OtherStep
  <2>1. /\ ExecShapes' /\ RelayInv' /\ SentTo' /\ Accepted' /\ RunsWhereAllowed'
        /\ UNCHANGED <<envelope, phase, toWrite, flushing, log>>
        /\ \A c \in Call : rpc'[c].stage # rpc[c].stage =>
             rpc[c].stage = "sent" /\ rpc'[c].stage = "lost"
    BY <1>2, OtherNext
  <2>2. \A h \in Hub, k \in Call : Quiet(k, h)
    BY <2>1 DEF Quiet, Held
  <2> QED
    BY <2>1, <2>2, QuietAudit DEF Inv, AuditInv
<1>3. CASE ExecutorStep /\ Unrouted
  <2>1. ExecShapes' /\ envelope' = envelope
    BY <1>3, ExecShapesNext DEF Inv
  <2>2. \A c \in Call : Progress(c)
    BY <1>3, ProgressNext
  <2>3. SentTo' /\ Accepted' /\ RunsWhereAllowed'
    BY <1>3, <2>1, <2>2, ProgressInv DEF Unrouted
  <2>4. RelayInv'
    BY <1>3, <2>1, <2>2, RelayUndisturbed DEF Unrouted
  <2>5. AuditInv'
    BY <1>3, ExecutorAudit
  <2> QED
    BY <2>1, <2>3, <2>4, <2>5 DEF Inv
<1>4. CASE UNCHANGED vars
  <2>1. UNCHANGED <<execVars, rows, online, filters, call>>
    BY <1>4 DEF vars
  <2>2. \A c \in Call : Progress(c)
    BY <2>1 DEF Progress, execVars
  <2>3. SentTo' /\ Accepted' /\ RunsWhereAllowed'
    BY <2>1, <2>2, ProgressInv DEF execVars
  <2>4. RelayInv'
    BY <2>1, <2>2, RelayUndisturbed DEF execVars
  <2>5. ExecShapes' /\ AuditInv'
    BY <2>1, QuietAudit DEF Inv, ExecShapes, AuditInv, Quiet, execVars
  <2> QED
    BY <2>3, <2>4, <2>5 DEF Inv
<1> QED
  BY <1>1, <1>2, <1>3, <1>4 DEF Next, OtherStep, ExecutorStep, HubLives, HubEnds

LEMMA Invariance == Spec => []Inv
BY InitInv, NextInv, PTL DEF Spec

\* Every variable has its type, and each stage of a call what it implies (router.ts, hub/index.ts).
THEOREM TypeCorrect == Spec => []TypeOK
<1> SUFFICES Inv => TypeOK
  BY Invariance, PTL
<1> SUFFICES ASSUME Inv
             PROVE  TypeOK
  OBVIOUS
<1> USE DEF Inv, RelayInv
<1>1. \A e \in Executor : config[e] \in Configs[e] /\ rows[e] \in Configs[e]
  BY DEF ExecShapes, RelayShapes
<1>2. phase \in [Hub -> Phase] /\ online \subseteq Executor /\ filters \subseteq Filters
  BY DEF ExecShapes, RelayShapes
<1>3. ASSUME NEW c \in Call
      PROVE  /\ rpc[c].stage \in Stage
             /\ rpc[c].stage # "none" <=> envelope[c] # NoEnvelope
             /\ touched[c] # {} =>
                  rpc[c].stage \notin {"none", "sent", "refused", "identity", "pooled"}
  BY DEF ExecShapes, Rpc, Accepted
<1>4. ASSUME NEW c \in Call
      PROVE  /\ call[c].stage \in {"own", "hubs", "filters", "checks"} =>
                  call[c].request \in Requests[c] /\ envelope[c] = NoEnvelope
             /\ call[c].stage \in {"filters", "checks"} \/ call[c].side = "destination" =>
                  call[c].to \in Executor /\ call[c].root \in Path
             /\ call[c].since \subseteq filters
  BY DEF Unsent, Resolved, ResolvedAt, FiltersAt
<1>5. ASSUME NEW h \in Hub
      PROVE  /\ flushing[h] \in 0..Len(toWrite[h])
             /\ flushing[h] > 0 => phase[h] = "flushing"
             /\ toWrite[h] # <<>> => Alive(h)
             /\ ToSet(toWrite[h]) \cup log[h] \subseteq OfHub(h, {"done", "late"})
  <2>1. flushing[h] \in Nat /\ toWrite[h] \in Seq(Call)
    BY DEF ExecShapes
  <2> QED
    BY <2>1 DEF AuditInv, Audited
<1> QED
  BY <1>1, <1>2, <1>3, <1>4, <1>5 DEF TypeOK

\* A call works only in directories that the executor's own configuration grants the caller, and
\* in none that a filter blocks which has been set since the call began, whatever the relay knew
\* (router.ts, executor.ts, permissions.ts).
THEOREM CallsRunWhereAllowed == Spec => []RunsWhereAllowed
<1>1. Inv => RunsWhereAllowed
  BY DEF Inv
<1> QED
  BY <1>1, Invariance, PTL

\* A hub that exits has the entry of every call it answered before the drain ended (audit.ts,
\* flush).
THEOREM CompletedCallsAreAudited == Spec => []CompletedIsAudited
<1>1. Inv => CompletedIsAudited
  <2> SUFFICES ASSUME Inv, NEW h \in Hub, phase[h] = "exited", NEW c \in OfHub(h, {"done"})
               PROVE  c \in log[h]
    BY DEF CompletedIsAudited
  <2>1. Audited(h) /\ toWrite[h] \in Seq(Call)
    BY DEF Inv, AuditInv, ExecShapes
  <2>2. toWrite[h] = <<>>
    BY <2>1 DEF Audited, Alive
  <2>3. Certain(h) = 0
    BY <2>2 DEF Certain
  <2>4. Entered(c, h)
    BY <2>1 DEF Audited
  <2> QED
    BY <2>3, <2>4 DEF Entered
<1> QED
  BY <1>1, Invariance, PTL

=============================================================================
