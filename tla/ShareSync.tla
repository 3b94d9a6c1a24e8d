------------------------------ MODULE ShareSync ------------------------------
(***************************************************************************)
(* The shares of one user's nodes: config_update as the relay's database   *)
(* executes it, the daemon that sends it on every connect, and the CLI     *)
(* that edits paths.yaml (node paths add / remove, node sync) through the  *)
(* daemon's control channel or over a connection of its own.               *)
(*                                                                         *)
(* Atomicity.  A transaction runs statement by statement under READ        *)
(* COMMITTED: a statement sees what is committed when it starts and what   *)
(* its own transaction wrote, and waits for the row locks it needs.  An    *)
(* upsert is one statement, INSERT ... ON CONFLICT DO UPDATE.              *)
(*                                                                         *)
(* Left out: a share keeps its directory, so a reported path stands for    *)
(* the node that reported it; messages arrive as soon as they are sent     *)
(* (a slow one is a transaction that starts late or lasts long); one CLI   *)
(* command per node at a time.                                             *)
(***************************************************************************)
EXTENDS Naturals, FiniteSets

CONSTANTS
  Node, Share,
  Update,              \* bound: config_updates in progress at once
  MaxEdits,            \* bound: commands of the CLI
  NoNode, NoRow, Untouched

ASSUME ShareAssumption ==
  MaxEdits \in Nat /\ NoNode \notin Node /\ NoRow # Untouched /\ {NoRow, Untouched} \cap [owner : Node, path : Node] = {}

VARIABLES
  rows,     \* path_shares: for each share its executor and reported_path
  tx,       \* the transactions of config_updates in progress
  up,       \* node: the daemon's connection is the registered one
  waiting,  \* node: configUpdateState of the daemon
  cli,      \* node: the CLI command, and the paths it is to sync and to write
  disk,     \* node: paths.yaml
  edits     \* commands so far

vars == <<rows, tx, up, waiting, cli, disk, edits>>

Row == [owner : Node, path : Node]

\* by: whose connection it came over, nobody's once that is gone; alone: no
\* other update of the node overlaps it.
NoTx == [node |-> NoNode, shares |-> {}, step |-> "free", todo |-> {}, by |-> "nobody",
         wrote |-> [s \in Share |-> Untouched], alone |-> FALSE]

Tx == [node : Node \cup {NoNode}, shares : SUBSET Share,
       step : {"free", "check", "write", "list", "prune"}, todo : SUBSET Share,
       by : {"daemon", "cli", "nobody"}, wrote : [Share -> Row \cup {NoRow, Untouched}],
       alone : BOOLEAN]

\* The command waits for the daemon, opens a connection of its own, waits for
\* the answer on it, or writes.
Command == [step : {"idle", "asked", "direct", "sent", "write"}, want : SUBSET Share]
NoCommand == [step |-> "idle", want |-> {}]

Owned(e) == {s \in Share : rows[s] # NoRow /\ rows[s].owner = e}

\* Every node has synced its list.
Init ==
  /\ rows \in [Share -> {NoRow} \cup {[owner |-> e, path |-> e] : e \in Node}]
  /\ tx = [t \in Update |-> NoTx]
  /\ up = [e \in Node |-> FALSE]
  /\ waiting = [e \in Node |-> FALSE]
  /\ cli = [e \in Node |-> NoCommand]
  /\ disk = [e \in Node |-> Owned(e)]
  /\ edits = 0

-----------------------------------------------------------------------------
(* Helpers *)

Active(t) == tx[t].step # "free"
Updates(e) == {t \in Update : Active(t) /\ tx[t].node = e}

\* What the transaction sees of a share.
Seen(t, s) == IF tx[t].wrote[s] = Untouched THEN rows[s] ELSE tx[t].wrote[s]

\* Another transaction has written the row, or inserted the key.
Locked(t, s) == \E u \in Update \ {t} : tx[u].wrote[s] # Untouched

\* The socket that node e's daemon or CLI (by) had is gone.
Unheard(e, by, txs) ==
  [t \in Update |-> IF txs[t].node = e /\ txs[t].by = by THEN [txs[t] EXCEPT !.by = "nobody"]
                    ELSE txs[t]]

\* handleConfigUpdate has validated the shares S and starts its transaction.
Started(t, e, S, by, txs) ==
  LET overlapping == Updates(e)
      new == [NoTx EXCEPT !.node = e, !.shares = S, !.todo = S, !.by = by,
                          !.step = IF S = {} THEN "list" ELSE "check",
                          !.alone = overlapping = {}]
  IN  [u \in Update |-> IF u = t THEN new
                        ELSE IF u \in overlapping THEN [txs[u] EXCEPT !.alone = FALSE]
                        ELSE txs[u]]

\* The answer of the update t settles what the CLI waits for: the daemon takes
\* any answer for that of the update its CLI asked for.
Settles(t) ==
  <<tx[t].by, cli[tx[t].node].step>> \in {<<"daemon", "asked">>, <<"cli", "sent">>}

\* Mutant: resolveConfigUpdate leaves configUpdateState set.
StillWaiting(t) == waiting

\* configUpdateState once the update t is answered.
Answered(t) ==
  IF Settles(t) /\ tx[t].by = "daemon" THEN [waiting EXCEPT ![tx[t].node] = FALSE] ELSE waiting

Answer(t, ok) ==
  LET e == tx[t].node
  IN  /\ cli' = IF ~Settles(t) THEN cli
                ELSE IF ok THEN [cli EXCEPT ![e].step = "write"] ELSE [cli EXCEPT ![e] = NoCommand]
      /\ waiting' = Answered(t)

-----------------------------------------------------------------------------
(* handleConfigUpdate *)

\* The share belongs to another executor.
Foreign(t, s) == Seen(t, s) # NoRow /\ Seen(t, s).owner # tx[t].node

\* The next step of a loop over the shares, once s is done.
Done(t, s, next, left) ==
  [tx[t] EXCEPT !.todo = IF @ = {s} THEN left ELSE @ \ {s},
                !.step = IF tx[t].todo = {s} THEN next ELSE @]

CheckShare(t, s) ==
  /\ tx[t].step = "check" /\ s \in tx[t].todo /\ ~Foreign(t, s)
  /\ tx' = [tx EXCEPT ![t] = Done(t, s, "write", tx[t].shares)]
  /\ UNCHANGED <<rows, up, waiting, cli, disk, edits>>

\* ShareConflictError: the transaction is rolled back.
Refuse(t, s) ==
  /\ tx[t].step = "check" /\ s \in tx[t].todo /\ Foreign(t, s)
  /\ tx' = [tx EXCEPT ![t] = NoTx]
  /\ Answer(t, FALSE)
  /\ UNCHANGED <<rows, up, disk, edits>>

\* Mutant: the update also writes executorId.
TakenOver(t, s) == [owner |-> tx[t].node, path |-> tx[t].node]

\* The row after the upsert: an existing row keeps its executor.
Upserted(t, s) ==
  [owner |-> IF rows[s] = NoRow THEN tx[t].node ELSE rows[s].owner, path |-> tx[t].node]

UpsertShare(t, s) ==
  /\ tx[t].step = "write" /\ s \in tx[t].todo /\ ~Locked(t, s)
  /\ tx' = [tx EXCEPT ![t] = [Done(t, s, "list", {}) EXCEPT !.wrote[s] = Upserted(t, s)]]
  /\ UNCHANGED <<rows, up, waiting, cli, disk, edits>>

\* Mutant: only rows that report the node's own path are withdrawn.
WithdrawnPaths(t) ==
  {s \in Owned(tx[t].node) \ tx[t].shares : rows[s].path # rows[s].owner}

\* The rows the deleteMany statement finds when it starts.
Withdrawn(t) == Owned(tx[t].node) \ tx[t].shares

ListWithdrawn(t) ==
  /\ tx[t].step = "list"
  /\ tx' = [tx EXCEPT ![t].step = "prune", ![t].todo = Withdrawn(t)]
  /\ UNCHANGED <<rows, up, waiting, cli, disk, edits>>

DeleteRow(t, s) ==
  /\ tx[t].step = "prune" /\ s \in tx[t].todo /\ ~Locked(t, s)
  /\ tx' = [tx EXCEPT ![t].todo = @ \ {s}, ![t].wrote[s] = NoRow]
  /\ UNCHANGED <<rows, up, waiting, cli, disk, edits>>

\* A statement that waited for a row which is now deleted skips it.
Remaining(u, gone) == IF tx[u].step = "prune" THEN tx[u].todo \ gone ELSE tx[u].todo

Commit(t) ==
  /\ tx[t].step = "prune" /\ tx[t].todo = {}
  /\ rows' = [s \in Share |-> Seen(t, s)]
  /\ tx' = [u \in Update |->
              IF u = t THEN NoTx
              ELSE [tx[u] EXCEPT !.todo = Remaining(u, {s \in Share : tx[t].wrote[s] = NoRow})]]
  /\ Answer(t, TRUE)
  /\ UNCHANGED <<up, disk, edits>>

\* The victim of a deadlock, the transaction's timeout, a database error.
Abort(t) ==
  /\ Active(t)
  /\ tx' = [tx EXCEPT ![t] = NoTx]
  /\ Answer(t, FALSE)
  /\ UNCHANGED <<rows, up, disk, edits>>

-----------------------------------------------------------------------------
(* The daemon *)

\* onOpen: the relay terminates the executor's other connection, and the
\* daemon sends what is on disk; lost if the connection adopts a token first.
DaemonConnects(e) ==
  /\ ~up[e]
  /\ up' = [up EXCEPT ![e] = TRUE]
  /\ \/ tx' = Unheard(e, "cli", tx)
     \/ \E t \in Update : ~Active(t) /\ tx' = Started(t, e, disk[e], "daemon", Unheard(e, "cli", tx))
  /\ UNCHANGED <<rows, waiting, cli, disk, edits>>

DaemonDisconnects(e) ==
  /\ up[e]
  /\ up' = [up EXCEPT ![e] = FALSE]
  /\ tx' = Unheard(e, "daemon", tx)
  /\ UNCHANGED <<rows, waiting, cli, disk, edits>>

\* CONTROL_OP_TIMEOUT_MS, or conn.stop().
UpdateTimesOut(e) ==
  /\ waiting[e]
  /\ waiting' = [waiting EXCEPT ![e] = FALSE]
  /\ cli' = [cli EXCEPT ![e] = NoCommand]
  /\ UNCHANGED <<rows, tx, up, disk, edits>>

\* The daemon is killed: its CLI finds nobody and connects itself.
DaemonDies(e) ==
  /\ up[e] \/ waiting[e]
  /\ up' = [up EXCEPT ![e] = FALSE]
  /\ waiting' = [waiting EXCEPT ![e] = FALSE]
  /\ tx' = Unheard(e, "daemon", tx)
  /\ cli' = IF cli[e].step = "asked" THEN [cli EXCEPT ![e].step = "direct"] ELSE cli
  /\ UNCHANGED <<rows, disk, edits>>

-----------------------------------------------------------------------------
(* The CLI: node paths add, node paths remove, node sync *)

\* What a command may leave in paths.yaml: the same, a share more, or one less.
Edits(e) == {S \in SUBSET Share : Cardinality((S \ disk[e]) \cup (disk[e] \ S)) <= 1}

\* The running daemon is asked to send the new list.
AskDaemon(e, S) ==
  /\ cli[e] = NoCommand /\ up[e] /\ ~waiting[e]
  /\ cli' = [cli EXCEPT ![e] = [step |-> "asked", want |-> S]]
  /\ edits < MaxEdits /\ edits' = edits + 1
  /\ waiting' = [waiting EXCEPT ![e] = TRUE]
  /\ \E t \in Update : ~Active(t) /\ tx' = Started(t, e, S, "daemon", tx)
  /\ UNCHANGED <<rows, up, disk>>

\* No daemon runs, or it is not connected.
GoDirect(e, S) ==
  /\ cli[e] = NoCommand /\ ~up[e]
  /\ cli' = [cli EXCEPT ![e] = [step |-> "direct", want |-> S]]
  /\ edits < MaxEdits /\ edits' = edits + 1
  /\ UNCHANGED <<rows, tx, up, waiting, disk>>

\* The CLI's own connection evicts the daemon's.
CliConnects(e) ==
  /\ cli[e].step = "direct"
  /\ cli' = [cli EXCEPT ![e].step = "sent"]
  /\ up' = [up EXCEPT ![e] = FALSE]
  /\ \E t \in Update :
       ~Active(t) /\ tx' = Started(t, e, cli[e].want, "cli", Unheard(e, "daemon", tx))
  /\ UNCHANGED <<rows, waiting, disk, edits>>

\* No answer within 15 s, or the connection fails: the command ends.
CliGivesUp(e) ==
  /\ cli[e].step \in {"direct", "sent"}
  /\ cli' = [cli EXCEPT ![e] = NoCommand]
  /\ tx' = Unheard(e, "cli", tx)
  /\ UNCHANGED <<rows, up, waiting, disk, edits>>

\* The relay has acknowledged: paths.yaml is written.
WritePaths(e) ==
  /\ cli[e].step = "write"
  /\ disk' = [disk EXCEPT ![e] = cli[e].want]
  /\ cli' = [cli EXCEPT ![e] = NoCommand]
  /\ UNCHANGED <<rows, tx, up, waiting, edits>>

RelayRestarts ==
  /\ tx' = [t \in Update |-> NoTx]
  /\ up' = [e \in Node |-> FALSE]
  /\ UNCHANGED <<rows, waiting, cli, disk, edits>>

-----------------------------------------------------------------------------
Transaction(t) ==
  \/ \E s \in Share : CheckShare(t, s) \/ Refuse(t, s) \/ UpsertShare(t, s) \/ DeleteRow(t, s)
  \/ ListWithdrawn(t) \/ Commit(t) \/ Abort(t)

Daemon(e) == DaemonConnects(e) \/ DaemonDisconnects(e) \/ UpdateTimesOut(e) \/ DaemonDies(e)

Edit(e) ==
  \/ \E S \in Edits(e) : AskDaemon(e, S) \/ GoDirect(e, S)
  \/ CliConnects(e) \/ CliGivesUp(e) \/ WritePaths(e)

Next ==
  \/ \E t \in Update : Transaction(t)
  \/ \E e \in Node : Daemon(e) \/ Edit(e)
  \/ RelayRestarts

Spec == Init /\ [][Next]_vars

-----------------------------------------------------------------------------
(* Safety *)

\* Every variable has its type, and the daemon waits for an answer exactly
\* while its CLI waits for the daemon.
TypeOK ==
  /\ rows \in [Share -> Row \cup {NoRow}]
  /\ tx \in [Update -> Tx]
  /\ up \in [Node -> BOOLEAN] /\ waiting \in [Node -> BOOLEAN]
  /\ cli \in [Node -> Command] /\ disk \in [Node -> SUBSET Share]
  /\ edits \in 0..MaxEdits
  /\ \A e \in Node : waiting[e] <=> cli[e].step = "asked"

\* The update t commits in this step.
Commits(t) == tx[t].step = "prune" /\ tx[t].todo = {} /\ tx'[t] = NoTx /\ rows' # rows

\* A share belongs to the node that registered it until an update of that
\* very node withdraws it, whatever the other nodes announce meanwhile
\* (hub.ts, the conflict check, the update branch of the upsert, deleteMany).
OwnerKeepsItsShares ==
  [][\A s \in Share : rows[s] # NoRow =>
       \/ rows'[s] # NoRow /\ rows'[s].owner = rows[s].owner
       \/ \E t \in Update : Commits(t) /\ tx[t].node = rows[s].owner /\ s \notin tx[t].shares]_vars

\* An accepted update that no other update of its node overlaps leaves all
\* of its shares registered, and none of its node's others (docs/relay.md:412).
LoneUpdateReplaces ==
  [][\A t \in Update : Commits(t) /\ tx[t].alone =>
       \A s \in Share : IF s \in tx[t].shares THEN rows'[s] # NoRow
                        ELSE rows'[s] # NoRow => rows'[s].owner # tx[t].node]_vars

=============================================================================
