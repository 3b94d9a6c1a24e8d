---------------------------- MODULE CallRouting -----------------------------
(***************************************************************************)
(* A tool call from the MCP client to the directory it works in: the relay  *)
(* resolves the share, reads the caller's filters and sends the call to an  *)
(* executor (relay/router.ts), which decides for itself (Executors).        *)
(*                                                                         *)
(* The relay works with copies: the shares that executors announced when    *)
(* they connected (rows), and the filters of the caller as they were when   *)
(* it read them.  Each await of routeToolCall is between two actions, and   *)
(* anything may have changed before the second.                             *)
(***************************************************************************)
EXTENDS Executors, FiniteSets

CONSTANTS
  OwnerOf,    \* Node -> User
  Filters,    \* filters that users may set: records with user, scope, path
  Requests,   \* Call -> what the client may ask for
  MaxChanges, \* bound on what executors, users and the network change
  AnyHost,    \* a request without a host; a filter for every executor
  NoExecutor

\* What routeToolCall sends.
Envelope == [to : Executor, user : User, tool : STRING, share : Share, dst : Share \cup {NoShare},
             root : Path, filters : SUBSET Path]

RoutingAssumption ==
  /\ IsFiniteSet(Call)
  /\ OwnerOf \in [Node -> User]
  /\ Requests \in [Call -> SUBSET [user : User, tool : STRING, share : Share,
                                   dst : Share \cup {NoShare}, host : Executor \cup {AnyHost}]]
  /\ NoEnvelope \notin Envelope
  /\ {AnyHost, NoExecutor} \cap Executor = {}
  /\ MaxChanges \in Nat
  /\ \A f \in Filters : /\ f.user \in User /\ f.path \in Path
                        /\ f.scope \in {AnyHost} \cup {n \in Node : OwnerOf[n] = f.user}
ASSUME RoutingAssumption

VARIABLES
  rows,       \* executor -> its shares in the relay's tables
  online,     \* executors with a registered connection
  filters,    \* filters that are set
  call,       \* call -> how far routeToolCall has come with it, and what it has found
  changes     \* how many changes there were

vars == <<execVars, rows, online, filters, call, changes>>

NoCall == [stage |-> "idle", request |-> NoEnvelope, side |-> "source", to |-> NoExecutor,
           root |-> NoShare, dstRoot |-> NoShare, filters |-> {}, since |-> {}]

\* A name belongs to one node of a user: the key of path_shares (ShareSync).
Distinct(shares) ==
  \A m, n \in Node : m # n /\ OwnerOf[m] = OwnerOf[n] => DOMAIN shares[m] \cap DOMAIN shares[n] = {}

Init ==
  /\ ExecutorInit
  /\ rows \in [Executor -> UNION {Configs[e] : e \in Executor}]
  /\ \A e \in Executor : rows[e] \in Configs[e]
  /\ Distinct(rows)
  /\ online = Executor
  /\ filters \in SUBSET Filters
  /\ call = [c \in Call |-> NoCall]
  /\ changes = 0

-----------------------------------------------------------------------------
(* What changes meanwhile. *)

Changes == changes < MaxChanges /\ changes' = changes + 1

\* The relay handles a config_update or hub_share_sync: the rows become those of the message.
\* Executors send one whenever they connect, and a node before it writes paths.yaml; the message
\* may be late, so that it holds any configuration the executor may have had.
HandlesShares(e) ==
  /\ \E cfg \in Configs[e] \ {rows[e]} : rows' = [rows EXCEPT ![e] = cfg]
  /\ Distinct(rows')
  /\ UNCHANGED <<execVars, online, filters, call>>

Connects(e) ==
  /\ e \notin online
  /\ e \in Hub => phase[e] = "up"
  /\ online' = online \cup {e}
  /\ UNCHANGED <<execVars, rows, filters, call>>

\* What was under way on the connection is lost.
Disconnects(e) ==
  /\ e \in online
  /\ online' = online \ {e}
  /\ rpc' = [c \in Call |->
       IF At(c, e) /\ rpc[c].stage = "sent" THEN [rpc[c] EXCEPT !.stage = "lost"] ELSE rpc[c]]
  /\ UNCHANGED <<config, phase, envelope, touched, toWrite, flushing, log, rows, filters, call>>

AddFilter(f) ==
  /\ f \notin filters
  /\ filters' = filters \cup {f}
  /\ UNCHANGED <<execVars, rows, online, call>>

\* "since" are the filters that have been set all the time since the call began.
DeleteFilter(f) ==
  /\ f \in filters
  /\ filters' = filters \ {f}
  /\ call' = [c \in Call |-> [call[c] EXCEPT !.since = @ \ {f}]]
  /\ UNCHANGED <<execVars, rows, online>>

-----------------------------------------------------------------------------
(* routeToolCall, after the rate limit let the call pass. *)

Stands(c, stage) == call[c].stage = stage

Moves(c, record) ==
  /\ call' = [call EXCEPT ![c] = record]
  /\ UNCHANGED <<execVars, rows, online, filters, changes>>

Refused(c) == Moves(c, [NoCall EXCEPT !.stage = "ended"])

Begins(c) ==
  /\ Stands(c, "idle")
  /\ \E r \in Requests[c] :
       Moves(c, [NoCall EXCEPT !.stage = "own", !.request = r,
                               !.since = {f \in filters : f.user = r.user}])

\* What is being resolved: the source, anywhere or on the host asked for, then the
\* destination, on the source's host.
Wanted(c) ==
  IF call[c].side = "source" THEN [share |-> call[c].request.share, host |-> call[c].request.host]
                             ELSE [share |-> call[c].request.dst, host |-> call[c].to]

Offers(e, wanted) == wanted.share \in DOMAIN rows[e] /\ wanted.host \in {e, AnyHost}

OwnShares(c) == {n \in Node : OwnerOf[n] = call[c].request.user /\ Offers(n, Wanted(c))}

\* The relay evaluates the permissions that the hub announced; the hub evaluates its own.
accessibleHubShares(c) == {h \in Hub :
  /\ Offers(h, Wanted(c))
  /\ evaluatePermissionBlob(rows[h][Wanted(c).share].permissions, subject(call[c].request.user))
       # "none"}

HasDestination(r) == r.tool \in TwoPathTools /\ r.dst # NoShare

\* Nodes announce paths as configured, hubs what realpath() made of them.
Announced(e, path) == IF e \in Hub THEN Real[path] ELSE path

Resolves(c, e) ==
  LET found == Announced(e, rows[e][Wanted(c).share].path)
      here  == call[c]
  IN Moves(c,
       IF here.side = "destination" THEN [here EXCEPT !.stage = "filters", !.dstRoot = found]
       ELSE [here EXCEPT !.to = e, !.root = found, !.dstRoot = found,
               !.stage = IF HasDestination(here.request) THEN "own" ELSE "filters",
               !.side  = IF HasDestination(here.request) THEN "destination" ELSE "source"])

\* Shares of the caller's nodes come first.
FindOwn(c) ==
  /\ Stands(c, "own")
  /\ IF OwnShares(c) = {} THEN Moves(c, [call[c] EXCEPT !.stage = "hubs"])
                          ELSE \E n \in OwnShares(c) : Resolves(c, n)

\* Of hubs' shares there must be exactly one.
FindHub(c) ==
  /\ Stands(c, "hubs")
  /\ IF Cardinality(accessibleHubShares(c)) = 1
     THEN \E h \in accessibleHubShares(c) : Resolves(c, h)
     ELSE Refused(c)

\* loadPathFilterSources
FiltersFor(user, e) == {f \in filters : f.user = user /\ f.scope \in {AnyHost, e}}

ReadFilters(c) ==
  /\ Stands(c, "filters")
  /\ Moves(c, [call[c] EXCEPT !.stage = "checks",
                 !.filters = {f.path : f \in FiltersFor(call[c].request.user, call[c].to)}])

\* Early checks: the path as it is written, and the connection.
PreChecked(c) ==
  /\ {call[c].root, call[c].dstRoot} \cap call[c].filters = {}
  /\ call[c].to \in online

Dispatches(c) ==
  /\ Stands(c, "checks") /\ PreChecked(c)
  /\ LET r == call[c].request
     IN envelope' = [envelope EXCEPT ![c] =
          [to |-> call[c].to, user |-> r.user, tool |-> r.tool, share |-> r.share, dst |-> r.dst,
           root |-> call[c].root, filters |-> call[c].filters]]
  /\ Step(c, "sent")
  /\ call' = [call EXCEPT ![c] = [NoCall EXCEPT !.stage = "ended", !.since = call[c].since]]
  /\ UNCHANGED <<config, phase, touched, toWrite, flushing, log, rows, online, filters, changes>>

Fails(c) == Stands(c, "checks") /\ ~PreChecked(c) /\ Refused(c)

Relay(c) == Begins(c) \/ FindOwn(c) \/ FindHub(c) \/ ReadFilters(c) \/ Dispatches(c) \/ Fails(c)

Unrouted == UNCHANGED <<rows, online, filters, call>>

Next ==
  \/ \E c \in Call : Relay(c)
  \/ \E e \in Executor : Changes /\ (HandlesShares(e) \/ Connects(e) \/ Disconnects(e))
  \/ \E f \in Filters : Changes /\ (AddFilter(f) \/ DeleteFilter(f))
  \/ \E n \in Node : Changes /\ EditPaths(n) /\ Unrouted
  \/ \E h \in Hub : Changes /\ HubLives(h) /\ Unrouted
  \/ \E n \in Node, c \in Call : NodeRpc(n, c) /\ Unrouted /\ UNCHANGED changes
  \/ \E h \in Hub : (HubEnds(h) \/ \E c \in Call : HubRpc(h, c)) /\ Unrouted /\ UNCHANGED changes

Spec == Init /\ [][Next]_vars

-----------------------------------------------------------------------------
(* Properties *)

\* Types, with what each stage of a call implies: one that is being resolved or checked has a
\* request; after the lookups it has an executor and a root; an executor works on a call only
\* if the relay has sent it, and a directory was entered only by a call it accepted.
TypeOK ==
  /\ \A e \in Executor : config[e] \in Configs[e] /\ rows[e] \in Configs[e]
  /\ phase \in [Hub -> Phase]
  /\ online \subseteq Executor /\ filters \subseteq Filters
  /\ \A c \in Call :
       /\ rpc[c].stage \in Stage
       /\ rpc[c].stage # "none" <=> envelope[c] # NoEnvelope
       /\ touched[c] # {} => rpc[c].stage \notin {"none", "sent", "refused", "identity", "pooled"}
       /\ call[c].stage \in {"own", "hubs", "filters", "checks"} =>
            call[c].request \in Requests[c] /\ envelope[c] = NoEnvelope
       /\ call[c].stage \in {"filters", "checks"} \/ call[c].side = "destination" =>
            call[c].to \in Executor /\ call[c].root \in Path
       /\ call[c].since \subseteq filters
  /\ \A h \in Hub :
       /\ flushing[h] \in 0..Len(toWrite[h])
       /\ flushing[h] > 0 => phase[h] = "flushing"
       /\ toWrite[h] # <<>> => Alive(h)
       /\ ToSet(toWrite[h]) \cup log[h] \subseteq OfHub(h, {"done", "late"})

\* Why a call may be at work in the directories it is in.  On a node, the node is the caller's
\* and the directory that of a share of it; on a hub, its configuration grants the caller the
\* tool on the share the call names, and on the destination.  "under" is the configuration of
\* the process that accepted the call, not what the relay knew.
Granted(c, directory) ==
  LET env    == envelope[c]
      shares == rpc[c].under
  IN \E s \in DOMAIN shares :
       /\ Real[shares[s].path] = directory
       /\ env.to \in Node => OwnerOf[env.to] = env.user
       /\ env.to \in Hub => /\ s \in {env.share, env.dst}
                             /\ checkPermission(subject(env.user), s, env.tool, shares)

\* Whatever executors announced and withdrew, and users shared and filtered, meanwhile: a call
\* works only in directories that the executor's own configuration grants the caller, and in
\* none that a filter of the caller blocks which has been set since the call began.
RunsWhereAllowed ==
  \A c \in Call : \A directory \in touched[c] :
    /\ Granted(c, directory)
    /\ \A f \in call[c].since : f.scope \in {AnyHost, envelope[c].to} => f.path # directory

\* A hub that has shut down by itself leaves an audit entry of every call it answered before the
\* drain ended, of those answered during the shutdown too.
CompletedIsAudited ==
  \A h \in Hub : phase[h] = "exited" => OfHub(h, {"done"}) \subseteq log[h]

=============================================================================
