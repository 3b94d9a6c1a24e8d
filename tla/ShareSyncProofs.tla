--------------------------- MODULE ShareSyncProofs ---------------------------
(***************************************************************************)
(* What ShareSync guarantees for any nodes, shares, updates in progress at *)
(* once and commands of the CLI.  The argument is about what an open       *)
(* transaction has written: no other one has written the same row, so what *)
(* it wrote stays true of the committed row until it commits; and about    *)
(* what its last statement still has to delete: rows of its own node only, *)
(* and all of them if no other update of the node overlaps it.             *)
(***************************************************************************)
EXTENDS ShareSync, TLAPS

-----------------------------------------------------------------------------
(* The inductive invariant *)

\* The committed row of s, in rw, belongs to the node e.
Belongs(rw, s, e) == rw[s] # NoRow /\ rw[s].owner = e

\* Only a transaction that is past its checks has written.
WroteAfterChecks(r) ==
  /\ r.step = "free" <=> r.node = NoNode
  /\ r.step \in {"free", "check"} => \A s \in Share : r.wrote[s] = Untouched

\* The loops over the shares: what is left is to be done, the rest is done.
Progress(r) ==
  /\ r.step \in {"check", "write"} => r.todo \subseteq r.shares
  /\ r.step = "write" => \A s \in r.shares \ r.todo : r.wrote[s] # Untouched
  /\ r.step \in {"list", "prune"} => \A s \in r.shares : r.wrote[s] # Untouched

\* A row written keeps its owner if there is one, and is one of the shares.
WroteOwnShares(r, rw) ==
  \A s \in Share :
    r.wrote[s] \in Row =>
      s \in r.shares /\ r.wrote[s].owner = (IF rw[s] = NoRow THEN r.node ELSE rw[s].owner)

\* Only rows of its own node that it does not share are deleted.
DeletesOwnRows(r, rw) ==
  \A s \in Share :
    r.wrote[s] = NoRow \/ (r.step = "prune" /\ s \in r.todo) =>
      s \notin r.shares /\ Belongs(rw, s, r.node)

\* An update that nothing overlaps finds all rows it has to delete.
FindsAllRows(r, rw) ==
  r.step = "prune" /\ r.alone =>
    \A s \in Share \ r.shares : Belongs(rw, s, r.node) => s \in r.todo \/ r.wrote[s] = NoRow

Sound(r, rw) ==
  WroteAfterChecks(r) /\ Progress(r) /\ WroteOwnShares(r, rw) /\ DeletesOwnRows(r, rw) /\ FindsAllRows(r, rw)

\* A row is locked by one transaction at most.
RowLocks ==
  \A t, u \in Update : t # u =>
    \A s \in Share : tx[t].wrote[s] = Untouched \/ tx[u].wrote[s] = Untouched

\* No other update of its node is in progress.
LoneIsAlone ==
  \A t, u \in Update : t # u /\ Active(t) /\ tx[t].alone => tx[u].node # tx[t].node

Transactions == (\A t \in Update : Sound(tx[t], rows)) /\ RowLocks /\ LoneIsAlone

Inv == TypeOK /\ Transactions

-----------------------------------------------------------------------------
(* Transactions that a step leaves alone, and one that starts *)

\* The record q is r, but for the connection it came over; it may no longer
\* be alone.
Kept(r, q) ==
  /\ q \in Tx
  /\ q.node = r.node /\ q.shares = r.shares /\ q.step = r.step /\ q.todo = r.todo
  /\ q.wrote = r.wrote /\ (q.alone => r.alone)

KeptAll(txs) == txs \in [Update -> Tx] /\ \A u \in Update : Kept(tx[u], txs[u])

\* In txs an update t of the node e has started.
Starting(t, e, txs) ==
  /\ txs \in [Update -> Tx]
  /\ \A u \in Update \ {t} : Kept(tx[u], txs[u]) /\ (tx[u].node = e => ~txs[u].alone)
  /\ Sound(txs[t], rows)
  /\ txs[t].node = e
  /\ \A s \in Share : txs[t].wrote[s] = Untouched
  /\ txs[t].alone => \A u \in Update : tx[u].node # e

\* No transaction: nothing written, no node.
LEMMA NoTxSound ==
  ASSUME NEW rw
  PROVE  NoTx \in Tx /\ Sound(NoTx, rw)
<1>1. NoTx \in Tx
  BY DEF NoTx, Tx
<1>2. /\ NoTx.step = "free" /\ NoTx.node = NoNode /\ ~NoTx.alone /\ NoTx.todo = {}
      /\ \A s \in Share : NoTx.wrote[s] = Untouched
  BY DEF NoTx
<1>3. Untouched \notin Row /\ NoRow # Untouched
  BY ShareAssumption DEF Row
<1>4. WroteAfterChecks(NoTx) /\ Progress(NoTx)
  BY <1>2 DEF WroteAfterChecks, Progress
<1>5. WroteOwnShares(NoTx, rw) /\ DeletesOwnRows(NoTx, rw) /\ FindsAllRows(NoTx, rw)
  BY <1>2, <1>3 DEF WroteOwnShares, DeletesOwnRows, FindsAllRows
<1> QED BY <1>1, <1>4, <1>5 DEF Sound

\* A record that is kept stays sound.
LEMMA KeptIsSound ==
  ASSUME NEW r, NEW q, NEW rw, Kept(r, q), Sound(r, rw)
  PROVE  Sound(q, rw)
<1>1. WroteAfterChecks(q) /\ Progress(q)
  BY DEF Kept, Sound, WroteAfterChecks, Progress
<1>2. WroteOwnShares(q, rw) /\ DeletesOwnRows(q, rw)
  BY DEF Kept, Sound, WroteOwnShares, DeletesOwnRows
<1>3. FindsAllRows(q, rw)
  BY DEF Kept, Sound, FindsAllRows
<1> QED BY <1>1, <1>2, <1>3 DEF Sound

\* The steps that only tell transactions that nobody listens, or do not touch
\* them, keep all that the invariant says of them.
LEMMA KeptTransactions ==
  ASSUME Inv, rows' = rows, KeptAll(tx')
  PROVE  Transactions'
<1>1. \A t \in Update : Sound(tx[t], rows)' 
  BY KeptIsSound DEF Inv, Transactions, KeptAll
<1>2. RowLocks'
  BY DEF Inv, Transactions, RowLocks, KeptAll, Kept
<1>3. LoneIsAlone'
  BY DEF Inv, Transactions, LoneIsAlone, Active, KeptAll, Kept
<1> QED BY <1>1, <1>2, <1>3 DEF Transactions

\* Losing a socket.
LEMMA UnheardKeeps ==
  ASSUME TypeOK, NEW e \in Node, NEW by
  PROVE  KeptAll(Unheard(e, by, tx))
<1>1. ASSUME NEW u \in Update
      PROVE  Kept(tx[u], Unheard(e, by, tx)[u])
  <2>1. tx[u] \in Tx
    BY DEF TypeOK
  <2> QED BY <2>1 DEF Unheard, Kept, Tx
<1> QED BY <1>1 DEF KeptAll, Kept, Unheard

LEMMA UnchangedKeeps ==
  ASSUME TypeOK
  PROVE  KeptAll(tx)
  BY DEF TypeOK, KeptAll, Kept

\* The start of an update.
LEMMA StartedStarts ==
  ASSUME Inv, NEW t \in Update, ~Active(t), NEW e \in Node, NEW S \in SUBSET Share,
         NEW by \in {"daemon", "cli"}, NEW txs, KeptAll(txs)
  PROVE  Starting(t, e, Started(t, e, S, by, txs))
<1> DEFINE Q == Started(t, e, S, by, txs)
<1> DEFINE new == Q[t]
<1>0. \A u \in Update : tx[u] \in Tx /\ txs[u] \in Tx /\ (tx[u].step = "free" <=> tx[u].node = NoNode)
  BY DEF Inv, TypeOK, Transactions, Sound, WroteAfterChecks, KeptAll
<1>1. new = [node |-> e, shares |-> S, step |-> IF S = {} THEN "list" ELSE "check", todo |-> S,
              by |-> by, wrote |-> [s \in Share |-> Untouched], alone |-> Updates(e) = {}]
  BY DEF Started, NoTx
<1> HIDE DEF new
<1>2. /\ new \in Tx /\ new.node = e /\ new.shares = S /\ new.todo = S
      /\ new.step = (IF S = {} THEN "list" ELSE "check")
      /\ new.wrote = [s \in Share |-> Untouched] /\ new.alone = (Updates(e) = {})
  <2>1. [s \in Share |-> Untouched] \in [Share -> Row \cup {NoRow, Untouched}]
    OBVIOUS
  <2> QED BY <1>1, <2>1 DEF Tx
<1>3. ASSUME NEW u \in Update \ {t}
      PROVE  Kept(tx[u], Q[u]) /\ (tx[u].node = e => ~Q[u].alone)
  <2>1. Q[u] = IF u \in Updates(e) THEN [txs[u] EXCEPT !.alone = FALSE] ELSE txs[u]
    BY DEF Started
  <2>2. tx[u].node = e => u \in Updates(e)
    BY <1>0, ShareAssumption DEF Updates, Active
  <2>3. Kept(tx[u], txs[u])
    BY DEF KeptAll
  <2> HIDE DEF Q
  <2>4. CASE u \in Updates(e)
    <3>1. Q[u] = [txs[u] EXCEPT !.alone = FALSE]
      BY <2>1, <2>4
    <3>2. Q[u] \in Tx /\ ~Q[u].alone
      BY <1>0, <3>1 DEF Tx
    <3> QED BY <1>0, <2>3, <3>1, <3>2 DEF Kept, Tx
  <2>5. CASE u \notin Updates(e)
    BY <2>1, <2>2, <2>3, <2>5
  <2> QED BY <2>4, <2>5
<1>4. new.alone => \A u \in Update : tx[u].node # e
  <2>1. \A u \in Update : tx[u].node = e => u \in Updates(e)
    BY <1>0, ShareAssumption DEF Updates, Active
  <2> QED BY <1>2, <2>1
<1>5. Untouched \notin Row /\ NoRow # Untouched /\ e # NoNode
  BY ShareAssumption DEF Row
<1>6. WroteAfterChecks(new) /\ Progress(new)
  BY <1>2, <1>5 DEF WroteAfterChecks, Progress
<1>7. WroteOwnShares(new, rows) /\ DeletesOwnRows(new, rows) /\ FindsAllRows(new, rows)
  BY <1>2, <1>5 DEF WroteOwnShares, DeletesOwnRows, FindsAllRows
<1>8. Q \in [Update -> Tx]
  <2>1. \A u \in Update : Q[u] \in Tx
    BY <1>2, <1>3 DEF Kept, new
  <2>2. Q = [u \in Update |-> Q[u]]
    BY DEF Started
  <2> HIDE DEF Q
  <2> QED BY <2>1, <2>2
<1> HIDE DEF Q
<1>9. \A s \in Share : new.wrote[s] = Untouched
  BY <1>2
<1>10. new = Q[t]
  BY DEF new
<1>11. Starting(t, e, Q)
  BY <1>2, <1>3, <1>4, <1>6, <1>7, <1>8, <1>9, <1>10 DEF Starting, Sound
<1> QED BY <1>11 DEF Q

LEMMA StartingTransactions ==
  ASSUME Inv, NEW t \in Update, NEW e \in Node, rows' = rows, Starting(t, e, tx')
  PROVE  Transactions'
<1>1. ASSUME NEW u \in Update
      PROVE  Sound(tx[u], rows)'
  <2>1. CASE u = t
    BY <2>1 DEF Starting
  <2>2. CASE u # t
    BY <2>2, KeptIsSound DEF Starting, Inv, Transactions
  <2> QED BY <2>1, <2>2
<1>2. RowLocks'
  BY DEF Inv, Transactions, RowLocks, Starting, Kept
<1>3. LoneIsAlone'
  <2>1. SUFFICES ASSUME NEW a \in Update, NEW b \in Update, a # b, Active(a)', tx'[a].alone
                 PROVE  tx'[b].node # tx'[a].node
    BY DEF LoneIsAlone
  <2>2. CASE a = t
    BY <2>1, <2>2 DEF Starting, Kept
  <2>3. CASE a # t /\ b = t
    BY <2>1, <2>3 DEF Starting, Kept
  <2>4. CASE a # t /\ b # t
    BY <2>1, <2>4 DEF Starting, Kept, Inv, Transactions, LoneIsAlone, Active
  <2> QED BY <2>2, <2>3, <2>4
<1> QED BY <1>1, <1>2, <1>3 DEF Transactions

-----------------------------------------------------------------------------
(* The steps of a transaction *)

\* Transaction t goes on to q: it writes rows that nobody else has locked.
Stepping(t, q) ==
  /\ tx' = [tx EXCEPT ![t] = q]
  /\ q \in Tx /\ q.step # "free" /\ q.node = tx[t].node /\ q.alone = tx[t].alone
  /\ \A s \in Share : q.wrote[s] = tx[t].wrote[s] \/ ~Locked(t, s)
  /\ Sound(q, rows)

LEMMA SteppingTransactions ==
  ASSUME Inv, NEW t \in Update, NEW q, Active(t), rows' = rows, Stepping(t, q)
  PROVE  tx' \in [Update -> Tx] /\ Transactions'
<1>1. tx \in [Update -> Tx] /\ tx'[t] = q /\ \A u \in Update \ {t} : tx'[u] = tx[u]
  BY DEF Inv, TypeOK, Stepping
<1>2. tx' \in [Update -> Tx]
  BY <1>1 DEF Stepping
<1>3. \A u \in Update : Sound(tx[u], rows)'
  BY <1>1 DEF Stepping, Inv, Transactions
<1>4. RowLocks'
  BY <1>1 DEF Stepping, Locked, Inv, Transactions, RowLocks
<1>5. LoneIsAlone'
  BY <1>1 DEF Stepping, Inv, Transactions, LoneIsAlone, Active
<1> QED BY <1>2, <1>3, <1>4, <1>5 DEF Transactions

\* A transaction that is rolled back leaves nothing behind.
LEMMA EndingTransactions ==
  ASSUME Inv, NEW t \in Update, rows' = rows, tx' = [tx EXCEPT ![t] = NoTx]
  PROVE  tx' \in [Update -> Tx] /\ Transactions'
<1>1. tx \in [Update -> Tx] /\ tx'[t] = NoTx /\ \A u \in Update \ {t} : tx'[u] = tx[u]
  BY DEF Inv, TypeOK
<1>2. tx' \in [Update -> Tx]
  BY <1>1, NoTxSound
<1>3. ASSUME NEW u \in Update
      PROVE  Sound(tx[u], rows)'
  BY <1>1, NoTxSound DEF Inv, Transactions
<1>4. NoTx.step = "free" /\ NoTx.node = NoNode /\ \A s \in Share : NoTx.wrote[s] = Untouched
  BY DEF NoTx
<1>5. RowLocks'
  BY <1>1, <1>4 DEF Inv, Transactions, RowLocks
<1>6. LoneIsAlone'
  <2>1. \A u \in Update : tx[u].step = "free" <=> tx[u].node = NoNode
    BY DEF Inv, Transactions, Sound, WroteAfterChecks
  <2> QED BY <1>1, <1>4, <2>1 DEF Inv, Transactions, LoneIsAlone, Active
<1> QED BY <1>2, <1>3, <1>5, <1>6 DEF Transactions

\* Facts about an open transaction.
LEMMA OpenTx ==
  ASSUME Inv, NEW t \in Update, Active(t)
  PROVE  /\ tx \in [Update -> Tx] /\ tx[t] \in Tx /\ Sound(tx[t], rows)
         /\ tx[t].node \in Node /\ rows \in [Share -> Row \cup {NoRow}]
         /\ Untouched \notin Row /\ NoRow # Untouched /\ NoRow \notin Row
<1>1. tx[t] \in Tx /\ Sound(tx[t], rows) /\ tx \in [Update -> Tx]
  BY DEF Inv, TypeOK, Transactions
<1>2. tx[t].node \in Node
  BY <1>1 DEF Tx, Sound, WroteAfterChecks, Active
<1> QED BY <1>1, <1>2, ShareAssumption DEF Inv, TypeOK, Row

LEMMA CheckShareSteps ==
  ASSUME Inv, NEW t \in Update, NEW s \in Share, CheckShare(t, s)
  PROVE  tx' \in [Update -> Tx] /\ Transactions'
<1> DEFINE q == Done(t, s, "write", tx[t].shares)
<1>0. Active(t) /\ tx[t].step = "check" /\ s \in tx[t].todo
  BY DEF CheckShare, Active
<1>1. tx[t] \in Tx /\ Sound(tx[t], rows) /\ Untouched \notin Row /\ NoRow # Untouched
  BY <1>0, OpenTx
<1>2. /\ q \in Tx /\ q.node = tx[t].node /\ q.alone = tx[t].alone /\ q.shares = tx[t].shares
      /\ q.wrote = tx[t].wrote
      /\ q.todo = (IF tx[t].todo = {s} THEN tx[t].shares ELSE tx[t].todo \ {s})
      /\ q.step = (IF tx[t].todo = {s} THEN "write" ELSE "check")
  BY <1>0, <1>1 DEF Done, Tx
<1> HIDE DEF q
<1>3. WroteAfterChecks(q) /\ Progress(q)
  BY <1>0, <1>1, <1>2 DEF Sound, WroteAfterChecks, Progress
<1>4. WroteOwnShares(q, rows) /\ DeletesOwnRows(q, rows) /\ FindsAllRows(q, rows)
  BY <1>0, <1>1, <1>2 DEF Sound, WroteAfterChecks, WroteOwnShares, DeletesOwnRows, FindsAllRows
<1>5. tx' = [tx EXCEPT ![t] = q] /\ rows' = rows
  BY DEF CheckShare, q
<1>6. Stepping(t, q)
  BY <1>2, <1>3, <1>4, <1>5 DEF Stepping, Sound
<1> QED BY <1>0, <1>5, <1>6, SteppingTransactions

LEMMA UpsertShareSteps ==
  ASSUME Inv, NEW t \in Update, NEW s \in Share, UpsertShare(t, s)
  PROVE  tx' \in [Update -> Tx] /\ Transactions'
<1> DEFINE q == [Done(t, s, "list", {}) EXCEPT !.wrote[s] = Upserted(t, s)]
<1>0. Active(t) /\ tx[t].step = "write" /\ s \in tx[t].todo /\ ~Locked(t, s)
  BY DEF UpsertShare, Active
<1>1. /\ tx[t] \in Tx /\ Sound(tx[t], rows) /\ Untouched \notin Row /\ NoRow # Untouched
      /\ NoRow \notin Row /\ tx[t].node \in Node /\ rows \in [Share -> Row \cup {NoRow}]
  BY <1>0, OpenTx
<1>2. Upserted(t, s) \in Row
      /\ Upserted(t, s).owner = (IF rows[s] = NoRow THEN tx[t].node ELSE rows[s].owner)
  BY <1>1 DEF Upserted, Row
<1>3. /\ q \in Tx /\ q.node = tx[t].node /\ q.alone = tx[t].alone /\ q.shares = tx[t].shares
      /\ q.wrote = [tx[t].wrote EXCEPT ![s] = Upserted(t, s)]
      /\ q.todo = (IF tx[t].todo = {s} THEN {} ELSE tx[t].todo \ {s})
      /\ q.step = (IF tx[t].todo = {s} THEN "list" ELSE "write")
  <2> DEFINE d == Done(t, s, "list", {})
  <2>1. /\ d \in Tx /\ d.node = tx[t].node /\ d.alone = tx[t].alone /\ d.shares = tx[t].shares
        /\ d.wrote = tx[t].wrote
        /\ d.todo = (IF tx[t].todo = {s} THEN {} ELSE tx[t].todo \ {s})
        /\ d.step = (IF tx[t].todo = {s} THEN "list" ELSE "write")
    BY <1>0, <1>1 DEF Done, Tx
  <2> HIDE DEF d
  <2>2. q = [d EXCEPT !.wrote = [d.wrote EXCEPT ![s] = Upserted(t, s)]]
    BY DEF d
  <2>3. [d.wrote EXCEPT ![s] = Upserted(t, s)] \in [Share -> Row \cup {NoRow, Untouched}]
    BY <1>2, <2>1 DEF Tx
  <2> HIDE DEF q
  <2> QED BY <2>1, <2>2, <2>3 DEF Tx
<1> HIDE DEF q
<1>4. /\ q.wrote[s] = Upserted(t, s)
      /\ \A z \in Share \ {s} : q.wrote[z] = tx[t].wrote[z]
  BY <1>1, <1>3 DEF Tx
<1>5. WroteAfterChecks(q)
  BY <1>0, <1>1, <1>3 DEF Sound, WroteAfterChecks
<1>6. Progress(q)
  BY <1>0, <1>1, <1>2, <1>3, <1>4 DEF Sound, Progress
<1>7. WroteOwnShares(q, rows) /\ DeletesOwnRows(q, rows)
  <2>1. s \in tx[t].shares /\ Upserted(t, s) # NoRow
    BY <1>0, <1>1, <1>2 DEF Sound, Progress
  <2> QED BY <1>0, <1>1, <1>2, <1>3, <1>4, <2>1 DEF Sound, WroteOwnShares, DeletesOwnRows
<1>8. FindsAllRows(q, rows)
  BY <1>3 DEF FindsAllRows
<1>9. tx' = [tx EXCEPT ![t] = q] /\ rows' = rows
  BY DEF UpsertShare, q
<1>10. Stepping(t, q)
  BY <1>0, <1>3, <1>4, <1>5, <1>6, <1>7, <1>8, <1>9 DEF Stepping, Sound
<1> QED BY <1>0, <1>9, <1>10, SteppingTransactions

LEMMA ListWithdrawnSteps ==
  ASSUME Inv, NEW t \in Update, ListWithdrawn(t)
  PROVE  tx' \in [Update -> Tx] /\ Transactions'
<1> DEFINE q == [tx[t] EXCEPT !.step = "prune", !.todo = Withdrawn(t)]
<1>0. Active(t) /\ tx[t].step = "list"
  BY DEF ListWithdrawn, Active
<1>1. /\ tx[t] \in Tx /\ Sound(tx[t], rows) /\ Untouched \notin Row /\ NoRow # Untouched
      /\ NoRow \notin Row /\ tx \in [Update -> Tx]
  BY <1>0, OpenTx
<1>2. /\ q \in Tx /\ q.node = tx[t].node /\ q.alone = tx[t].alone /\ q.shares = tx[t].shares
      /\ q.wrote = tx[t].wrote /\ q.todo = Withdrawn(t) /\ q.step = "prune"
  <2>1. Withdrawn(t) \subseteq Share
    BY DEF Withdrawn, Owned
  <2> QED BY <1>1, <2>1 DEF Tx
<1>3. tx' = [tx EXCEPT ![t] = q] /\ rows' = rows
  BY <1>1 DEF ListWithdrawn
<1> HIDE DEF q
<1>4. \A s \in Share : s \in Withdrawn(t) <=> s \notin tx[t].shares /\ Belongs(rows, s, tx[t].node)
  BY DEF Withdrawn, Owned, Belongs
<1>5. WroteAfterChecks(q) /\ Progress(q)
  BY <1>0, <1>1, <1>2 DEF Sound, WroteAfterChecks, Progress
<1>6. WroteOwnShares(q, rows) /\ DeletesOwnRows(q, rows) /\ FindsAllRows(q, rows)
  BY <1>0, <1>1, <1>2, <1>4 DEF Sound, WroteOwnShares, DeletesOwnRows, FindsAllRows
<1>7. Stepping(t, q)
  BY <1>2, <1>3, <1>5, <1>6 DEF Stepping, Sound
<1> QED BY <1>0, <1>3, <1>7, SteppingTransactions

LEMMA DeleteRowSteps ==
  ASSUME Inv, NEW t \in Update, NEW s \in Share, DeleteRow(t, s)
  PROVE  tx' \in [Update -> Tx] /\ Transactions'
<1> DEFINE q == [tx[t] EXCEPT !.todo = @ \ {s}, !.wrote = [@ EXCEPT ![s] = NoRow]]
<1>0. Active(t) /\ tx[t].step = "prune" /\ s \in tx[t].todo /\ ~Locked(t, s)
  BY DEF DeleteRow, Active
<1>1. /\ tx[t] \in Tx /\ Sound(tx[t], rows) /\ Untouched \notin Row /\ NoRow # Untouched
      /\ NoRow \notin Row /\ tx \in [Update -> Tx]
  BY <1>0, OpenTx
<1>2. /\ q \in Tx /\ q.node = tx[t].node /\ q.alone = tx[t].alone /\ q.shares = tx[t].shares
      /\ q.wrote = [tx[t].wrote EXCEPT ![s] = NoRow] /\ q.todo = tx[t].todo \ {s}
      /\ q.step = "prune"
  BY <1>0, <1>1 DEF Tx
<1>3. tx' = [tx EXCEPT ![t] = q] /\ rows' = rows
  BY <1>1 DEF DeleteRow
<1> HIDE DEF q
<1>4. /\ q.wrote[s] = NoRow
      /\ \A z \in Share \ {s} : q.wrote[z] = tx[t].wrote[z]
  BY <1>1, <1>2 DEF Tx
<1>5. WroteAfterChecks(q)
  BY <1>0, <1>1, <1>2 DEF Sound, WroteAfterChecks
<1>6. Progress(q)
  BY <1>0, <1>1, <1>2, <1>4 DEF Sound, Progress
<1>7. WroteOwnShares(q, rows) /\ DeletesOwnRows(q, rows) /\ FindsAllRows(q, rows)
  BY <1>0, <1>1, <1>2, <1>4 DEF Sound, WroteOwnShares, DeletesOwnRows, FindsAllRows
<1>8. Stepping(t, q)
  BY <1>0, <1>2, <1>3, <1>4, <1>5, <1>6, <1>7 DEF Stepping, Sound
<1> QED BY <1>0, <1>3, <1>8, SteppingTransactions

\* What the rows are once t has committed.
Committed(t) ==
  /\ rows' \in [Share -> Row \cup {NoRow}]
  /\ \A s \in Share :
       /\ tx[t].wrote[s] = Untouched => rows'[s] = rows[s]
       /\ tx[t].wrote[s] = NoRow => rows'[s] = NoRow /\ s \notin tx[t].shares /\ Belongs(rows, s, tx[t].node)
       /\ tx[t].wrote[s] # NoRow => \A e \in Node : Belongs(rows, s, e) => Belongs(rows', s, e)
       /\ \A e \in Node \ {tx[t].node} : Belongs(rows', s, e) => Belongs(rows, s, e)
       /\ s \in tx[t].shares => rows'[s] # NoRow
       /\ tx[t].alone /\ s \notin tx[t].shares => ~Belongs(rows', s, tx[t].node)

LEMMA CommitCommits ==
  ASSUME Inv, NEW t \in Update, Commit(t)
  PROVE  Committed(t)
<1>0. Active(t) /\ tx[t].step = "prune" /\ tx[t].todo = {}
  BY DEF Commit, Active
<1>1. /\ tx[t] \in Tx /\ Sound(tx[t], rows) /\ Untouched \notin Row /\ NoRow # Untouched
      /\ NoRow \notin Row /\ tx[t].node \in Node /\ rows \in [Share -> Row \cup {NoRow}]
  BY <1>0, OpenTx
<1>2. ASSUME NEW s \in Share
      PROVE  /\ tx[t].wrote[s] \in Row \cup {NoRow, Untouched}
             /\ rows[s] \in Row \cup {NoRow}
             /\ rows'[s] = IF tx[t].wrote[s] = Untouched THEN rows[s] ELSE tx[t].wrote[s]
  BY <1>1 DEF Tx, Commit, Seen
<1>3. rows' \in [Share -> Row \cup {NoRow}]
  <2>1. rows' = [s \in Share |-> Seen(t, s)]
    BY DEF Commit
  <2>2. \A s \in Share : Seen(t, s) \in Row \cup {NoRow}
    BY <1>2 DEF Seen
  <2> QED BY <2>1, <2>2
<1>4. ASSUME NEW s \in Share
      PROVE  /\ tx[t].wrote[s] = Untouched => rows'[s] = rows[s]
             /\ tx[t].wrote[s] = NoRow => rows'[s] = NoRow /\ s \notin tx[t].shares /\ Belongs(rows, s, tx[t].node)
             /\ tx[t].wrote[s] # NoRow => \A e \in Node : Belongs(rows, s, e) => Belongs(rows', s, e)
             /\ \A e \in Node \ {tx[t].node} : Belongs(rows', s, e) => Belongs(rows, s, e)
             /\ s \in tx[t].shares => rows'[s] # NoRow
             /\ tx[t].alone /\ s \notin tx[t].shares => ~Belongs(rows', s, tx[t].node)
  <2>1. CASE tx[t].wrote[s] = Untouched
    <3>1. rows'[s] = rows[s] /\ tx[t].wrote[s] # NoRow
      BY <1>1, <1>2, <2>1
    <3>2. s \notin tx[t].shares
      BY <1>0, <1>1, <2>1 DEF Sound, Progress
    <3>3. tx[t].alone => ~Belongs(rows, s, tx[t].node)
      BY <1>0, <1>1, <2>1, <3>2 DEF Sound, FindsAllRows
    <3> QED BY <3>1, <3>2, <3>3 DEF Belongs
  <2>2. CASE tx[t].wrote[s] = NoRow
    <3>1. rows'[s] = NoRow
      BY <1>1, <1>2, <2>2
    <3>2. s \notin tx[t].shares /\ Belongs(rows, s, tx[t].node)
      BY <1>1, <2>2 DEF Sound, DeletesOwnRows
    <3> QED BY <1>1, <2>2, <3>1, <3>2 DEF Belongs
  <2>3. CASE tx[t].wrote[s] \in Row
    <3>1. rows'[s] = tx[t].wrote[s] /\ rows'[s] # NoRow /\ tx[t].wrote[s] # Untouched
      BY <1>1, <1>2, <2>3
    <3>2. s \in tx[t].shares /\ rows'[s].owner = (IF rows[s] = NoRow THEN tx[t].node ELSE rows[s].owner)
      BY <1>1, <2>3, <3>1 DEF Sound, WroteOwnShares
    <3> QED BY <3>1, <3>2 DEF Belongs
  <2> QED BY <1>2, <2>1, <2>2, <2>3
<1> QED BY <1>3, <1>4 DEF Committed

LEMMA CommitSteps ==
  ASSUME Inv, NEW t \in Update, Commit(t)
  PROVE  tx' \in [Update -> Tx] /\ Transactions'
<1> DEFINE gone == {s \in Share : tx[t].wrote[s] = NoRow}
<1>0. Active(t) /\ tx[t].step = "prune" /\ Committed(t)
  BY CommitCommits DEF Commit, Active
<1>1. /\ tx \in [Update -> Tx] /\ tx[t].node \in Node /\ NoRow # Untouched
      /\ NoRow \notin Row /\ Untouched \notin Row
  BY <1>0, OpenTx
<1>2. tx'[t] = NoTx
  BY <1>1 DEF Commit
<1>3. ASSUME NEW u \in Update \ {t}
      PROVE  /\ tx'[u] \in Tx /\ tx'[u].node = tx[u].node /\ tx'[u].shares = tx[u].shares
             /\ tx'[u].step = tx[u].step /\ tx'[u].wrote = tx[u].wrote /\ tx'[u].alone = tx[u].alone
             /\ tx'[u].todo = IF tx[u].step = "prune" THEN tx[u].todo \ gone ELSE tx[u].todo
  <2>1. tx'[u] = [tx[u] EXCEPT !.todo = Remaining(u, gone)]
    BY <1>1 DEF Commit
  <2>2. tx[u] \in Tx
    BY <1>1
  <2>3. Remaining(u, gone) \in SUBSET Share
    BY <2>2 DEF Remaining, Tx
  <2> HIDE DEF gone
  <2> QED BY <2>1, <2>2, <2>3 DEF Tx, Remaining
<1>4. tx' \in [Update -> Tx]
  <2>1. \A u \in Update : tx'[u] \in Tx
    BY <1>2, <1>3, NoTxSound
  <2> QED BY <2>1 DEF Commit
<1>5. ASSUME NEW u \in Update \ {t}
      PROVE  Sound(tx'[u], rows')
  <2>1. Sound(tx[u], rows) /\ tx[u] \in Tx
    BY <1>1 DEF Inv, Transactions
  <2>2. \A s \in Share : tx[u].wrote[s] # Untouched => rows'[s] = rows[s] /\ tx[t].wrote[s] = Untouched
    BY <1>0 DEF Committed, Inv, Transactions, RowLocks
  <2> HIDE DEF gone
  <2>3. WroteAfterChecks(tx'[u]) /\ Progress(tx'[u])
    BY <1>3, <2>1 DEF Sound, WroteAfterChecks, Progress
  <2>4. WroteOwnShares(tx'[u], rows')
    <3>1. SUFFICES ASSUME NEW s \in Share, tx[u].wrote[s] \in Row
                   PROVE  s \in tx[u].shares
                          /\ tx[u].wrote[s].owner = (IF rows'[s] = NoRow THEN tx[u].node ELSE rows'[s].owner)
      BY <1>3 DEF WroteOwnShares
    <3>2. tx[u].wrote[s] # Untouched
      BY <1>1, <3>1
    <3>3. rows'[s] = rows[s]
      BY <2>2, <3>2
    <3> QED BY <2>1, <3>1, <3>3 DEF Sound, WroteOwnShares
  <2>5. tx[u].step = "prune" => tx[u].node \in Node
    BY <2>1 DEF Sound, WroteAfterChecks, Tx
  <2>6. DeletesOwnRows(tx'[u], rows')
    <3>1. ASSUME NEW s \in Share, tx[u].wrote[s] = NoRow
          PROVE  s \notin tx[u].shares /\ Belongs(rows', s, tx[u].node)
      BY <1>1, <2>1, <2>2, <3>1 DEF Sound, DeletesOwnRows, Belongs
    <3>2. ASSUME NEW s \in Share, tx[u].step = "prune", s \in tx[u].todo, s \notin gone
          PROVE  s \notin tx[u].shares /\ Belongs(rows', s, tx[u].node)
      <4>1. s \notin tx[u].shares /\ Belongs(rows, s, tx[u].node)
        BY <2>1, <3>2 DEF Sound, DeletesOwnRows
      <4>2. tx[t].wrote[s] # NoRow
        BY <3>2 DEF gone
      <4> QED BY <1>0, <2>5, <3>2, <4>1, <4>2 DEF Committed
    <3> QED BY <1>3, <3>1, <3>2 DEF DeletesOwnRows
  <2>7. FindsAllRows(tx'[u], rows')
    <3>1. SUFFICES ASSUME tx[u].step = "prune", tx[u].alone, NEW s \in Share \ tx[u].shares,
                          Belongs(rows', s, tx[u].node)
                   PROVE  s \in tx[u].todo \ gone \/ tx[u].wrote[s] = NoRow
      BY <1>3 DEF FindsAllRows
    <3>2. tx[t].node # tx[u].node
      BY <3>1 DEF Inv, Transactions, LoneIsAlone, Active
    <3>3. Belongs(rows, s, tx[u].node)
      BY <1>0, <2>5, <3>1, <3>2 DEF Committed
    <3>4. s \in tx[u].todo \/ tx[u].wrote[s] = NoRow
      BY <2>1, <3>1, <3>3 DEF Sound, FindsAllRows
    <3>5. s \notin gone
      BY <1>0, <3>1 DEF gone, Committed, Belongs
    <3> QED BY <3>4, <3>5
  <2> QED BY <2>3, <2>4, <2>6, <2>7 DEF Sound
<1>6. \A u \in Update : Sound(tx[u], rows)'
  BY <1>2, <1>5, NoTxSound
<1>7. NoTx.step = "free" /\ NoTx.node = NoNode /\ \A s \in Share : NoTx.wrote[s] = Untouched
  BY DEF NoTx
<1> HIDE DEF gone
<1>8. RowLocks'
  <2>1. \A u \in Update, s \in Share :
          tx'[u].wrote[s] = Untouched \/ tx'[u].wrote[s] = tx[u].wrote[s]
    BY <1>2, <1>3, <1>7
  <2>2. RowLocks
    BY DEF Inv, Transactions
  <2> QED BY <2>1, <2>2 DEF RowLocks
<1>9. LoneIsAlone'
  <2>1. SUFFICES ASSUME NEW a \in Update, NEW b \in Update, a # b, tx'[a].step # "free", tx'[a].alone
                 PROVE  tx'[b].node # tx'[a].node
    BY DEF LoneIsAlone, Active
  <2>2. a # t
    BY <1>2, <1>7, <2>1
  <2>3. tx[a].step # "free" /\ tx[a].alone /\ tx'[a].node = tx[a].node
    BY <1>3, <2>1, <2>2
  <2>4. CASE b = t
    <3>1. tx[a].node # NoNode
      BY <2>3 DEF Inv, Transactions, Sound, WroteAfterChecks
    <3> QED BY <1>2, <1>7, <2>3, <2>4, <3>1
  <2>5. CASE b # t
    <3>1. tx[b].node # tx[a].node
      BY <2>1, <2>3 DEF Inv, Transactions, LoneIsAlone, Active
    <3> QED BY <1>3, <2>3, <2>5, <3>1
  <2> QED BY <2>4, <2>5
<1> QED BY <1>4, <1>6, <1>8, <1>9 DEF Transactions

-----------------------------------------------------------------------------
(* The other variables *)

\* The daemon waits exactly while its CLI waits for it.
Waiting == \A e \in Node : waiting[e] <=> cli[e].step = "asked"

Sides ==
  /\ up \in [Node -> BOOLEAN] /\ waiting \in [Node -> BOOLEAN]
  /\ cli \in [Node -> Command] /\ disk \in [Node -> SUBSET Share]
  /\ edits \in 0..MaxEdits
  /\ Waiting

LEMMA NoCommandTyped == NoCommand \in Command /\ NoCommand.step = "idle"
  BY DEF NoCommand, Command

\* The answer of an update.
LEMMA AnswerSides ==
  ASSUME Sides, NEW t \in Update, tx[t].node \in Node, NEW ok \in BOOLEAN, Answer(t, ok),
         UNCHANGED <<up, disk, edits>>
  PROVE  Sides'
<1> DEFINE e == tx[t].node
<1>0. cli \in [Node -> Command] /\ waiting \in [Node -> BOOLEAN] /\ Waiting
  BY DEF Sides
<1>1. CASE ~Settles(t)
  BY <1>1 DEF Answer, Answered, Sides, Waiting
<1>2. CASE Settles(t)
  <2>1. \/ tx[t].by = "daemon" /\ cli[e].step = "asked"
        \/ tx[t].by = "cli" /\ cli[e].step = "sent"
    BY <1>2 DEF Settles
  <2>2. PICK c \in Command : cli' = [cli EXCEPT ![e] = c] /\ c.step # "asked"
    <3>1. CASE ok
      <4>1. cli' = [cli EXCEPT ![e] = [cli[e] EXCEPT !.step = "write"]]
        BY <1>2, <3>1 DEF Answer
      <4>2. cli[e] \in Command
        BY <1>0
      <4>3. [cli[e] EXCEPT !.step = "write"] \in Command /\ [cli[e] EXCEPT !.step = "write"].step # "asked"
        BY <4>2 DEF Command
      <4> QED BY <4>1, <4>3
    <3>2. CASE ~ok
      BY <1>2, <3>2, NoCommandTyped DEF Answer
    <3> QED BY <3>1, <3>2
  <2>3. waiting' = IF tx[t].by = "daemon" THEN [waiting EXCEPT ![e] = FALSE] ELSE waiting
    BY <1>2 DEF Answer, Answered
  <2> HIDE DEF e
  <2>4. e \in Node
    BY DEF e
  <2>5. cli' \in [Node -> Command] /\ cli'[e] = c /\ \A n \in Node \ {e} : cli'[n] = cli[n]
    BY <1>0, <2>2, <2>4
  <2>6. waiting' \in [Node -> BOOLEAN] /\ \A n \in Node \ {e} : waiting'[n] = waiting[n]
    BY <1>0, <2>3, <2>4
  <2>7. ~waiting'[e]
    BY <1>0, <2>1, <2>3, <2>4 DEF Waiting
  <2>8. Waiting'
    <3> SUFFICES ASSUME NEW n \in Node PROVE waiting'[n] <=> cli'[n].step = "asked"
      BY DEF Waiting
    <3>1. CASE n = e
      BY <2>2, <2>5, <2>7, <3>1
    <3>2. CASE n # e
      BY <1>0, <2>5, <2>6, <3>2 DEF Waiting
    <3> QED BY <3>1, <3>2
  <2> QED BY <2>5, <2>6, <2>8 DEF Sides
<1> QED BY <1>1, <1>2

LEMMA OtherSides ==
  ASSUME Sides, UNCHANGED <<up, waiting, cli, disk, edits>>
  PROVE  Sides'
  BY DEF Sides, Waiting

\* A command goes on to c, and its node waits for the daemon exactly if it
\* has asked it.
LEMMA CommandSides ==
  ASSUME Sides, NEW e \in Node, NEW c \in Command, cli' = [cli EXCEPT ![e] = c],
         up' \in [Node -> BOOLEAN], disk' \in [Node -> SUBSET Share], edits' \in 0..MaxEdits,
         NEW w \in BOOLEAN, waiting' = [waiting EXCEPT ![e] = w], w <=> c.step = "asked"
  PROVE  Sides'
<1>0. cli \in [Node -> Command] /\ waiting \in [Node -> BOOLEAN] /\ Waiting
  BY DEF Sides
<1>1. cli' \in [Node -> Command] /\ cli'[e] = c /\ \A n \in Node \ {e} : cli'[n] = cli[n]
  BY <1>0
<1>2. waiting' \in [Node -> BOOLEAN] /\ waiting'[e] = w /\ \A n \in Node \ {e} : waiting'[n] = waiting[n]
  BY <1>0
<1>3. Waiting'
  <2> SUFFICES ASSUME NEW n \in Node PROVE waiting'[n] <=> cli'[n].step = "asked"
    BY DEF Waiting
  <2>1. CASE n = e
    BY <1>1, <1>2, <2>1
  <2>2. CASE n # e
    BY <1>0, <1>1, <1>2, <2>2 DEF Waiting
  <2> QED BY <2>1, <2>2
<1> QED BY <1>1, <1>2, <1>3 DEF Sides

-----------------------------------------------------------------------------
(* Every step keeps the invariant *)

LEMMA InvParts ==
  /\ TypeOK <=> rows \in [Share -> Row \cup {NoRow}] /\ tx \in [Update -> Tx] /\ Sides
  /\ TypeOK' <=> rows' \in [Share -> Row \cup {NoRow}] /\ tx' \in [Update -> Tx] /\ Sides'
  BY DEF TypeOK, Sides, Waiting

LEMMA InitInv == Init => Inv
<1> SUFFICES ASSUME Init PROVE Inv
  OBVIOUS
<1>1. rows \in [Share -> Row \cup {NoRow}]
  <2>1. \A e \in Node : [owner |-> e, path |-> e] \in Row
    BY DEF Row
  <2>2. {NoRow} \cup {[owner |-> e, path |-> e] : e \in Node} \subseteq Row \cup {NoRow}
    BY <2>1
  <2> QED BY <2>2 DEF Init
<1>2. tx = [t \in Update |-> NoTx]
  BY DEF Init
<1>3. tx \in [Update -> Tx]
  BY <1>2, NoTxSound
<1>4. Sides
  <2>1. \A e \in Node : Owned(e) \in SUBSET Share
    BY DEF Owned
  <2>2. edits \in 0..MaxEdits
    BY ShareAssumption DEF Init
  <2> QED BY <2>1, <2>2, NoCommandTyped DEF Init, Sides, Waiting
<1>5. \A t \in Update : Sound(tx[t], rows)
  BY <1>2, NoTxSound
<1>6. NoTx.step = "free" /\ \A s \in Share : NoTx.wrote[s] = Untouched
  BY DEF NoTx
<1>7. RowLocks /\ LoneIsAlone
  BY <1>2, <1>6 DEF RowLocks, LoneIsAlone, Active
<1> QED BY <1>1, <1>3, <1>4, <1>5, <1>7, InvParts DEF Inv, Transactions

LEMMA TransactionInv ==
  ASSUME Inv, NEW t \in Update, Transaction(t)
  PROVE  Inv'
<1>0. rows \in [Share -> Row \cup {NoRow}] /\ Sides
  BY InvParts DEF Inv
<1>1. ASSUME NEW s \in Share, CheckShare(t, s)
      PROVE  Inv'
  <2>1. rows' = rows /\ UNCHANGED <<up, waiting, cli, disk, edits>>
    BY <1>1 DEF CheckShare
  <2> QED BY <1>0, <1>1, <2>1, CheckShareSteps, OtherSides, InvParts DEF Inv
<1>2. ASSUME NEW s \in Share, Refuse(t, s)
      PROVE  Inv'
  <2>1. /\ Active(t) /\ tx' = [tx EXCEPT ![t] = NoTx] /\ Answer(t, FALSE)
        /\ rows' = rows /\ UNCHANGED <<up, disk, edits>>
    BY <1>2 DEF Refuse, Active
  <2>2. Sides'
    BY <1>0, <2>1, OpenTx, AnswerSides
  <2> QED BY <1>0, <2>1, <2>2, EndingTransactions, InvParts DEF Inv
<1>3. ASSUME NEW s \in Share, UpsertShare(t, s)
      PROVE  Inv'
  <2>1. rows' = rows /\ UNCHANGED <<up, waiting, cli, disk, edits>>
    BY <1>3 DEF UpsertShare
  <2> QED BY <1>0, <1>3, <2>1, UpsertShareSteps, OtherSides, InvParts DEF Inv
<1>4. ASSUME NEW s \in Share, DeleteRow(t, s)
      PROVE  Inv'
  <2>1. rows' = rows /\ UNCHANGED <<up, waiting, cli, disk, edits>>
    BY <1>4 DEF DeleteRow
  <2> QED BY <1>0, <1>4, <2>1, DeleteRowSteps, OtherSides, InvParts DEF Inv
<1>5. CASE ListWithdrawn(t)
  <2>1. rows' = rows /\ UNCHANGED <<up, waiting, cli, disk, edits>>
    BY <1>5 DEF ListWithdrawn
  <2> QED BY <1>0, <1>5, <2>1, ListWithdrawnSteps, OtherSides, InvParts DEF Inv
<1>6. CASE Commit(t)
  <2>1. Active(t) /\ Answer(t, TRUE) /\ UNCHANGED <<up, disk, edits>>
    BY <1>6 DEF Commit, Active
  <2>2. Sides'
    BY <1>0, <2>1, OpenTx, AnswerSides
  <2>3. rows' \in [Share -> Row \cup {NoRow}]
    BY <1>6, CommitCommits DEF Committed
  <2> QED BY <1>6, <2>2, <2>3, CommitSteps, InvParts DEF Inv
<1>7. CASE Abort(t)
  <2>1. /\ Active(t) /\ tx' = [tx EXCEPT ![t] = NoTx] /\ Answer(t, FALSE)
        /\ rows' = rows /\ UNCHANGED <<up, disk, edits>>
    BY <1>7 DEF Abort
  <2>2. Sides'
    BY <1>0, <2>1, OpenTx, AnswerSides
  <2> QED BY <1>0, <2>1, <2>2, EndingTransactions, InvParts DEF Inv
<1> QED BY <1>1, <1>2, <1>3, <1>4, <1>5, <1>6, <1>7 DEF Transaction

LEMMA DaemonInv ==
  ASSUME Inv, NEW e \in Node, Daemon(e)
  PROVE  Inv'
<1>0. /\ TypeOK /\ rows \in [Share -> Row \cup {NoRow}] /\ tx \in [Update -> Tx] /\ Sides
      /\ cli \in [Node -> Command] /\ waiting \in [Node -> BOOLEAN] /\ Waiting
      /\ disk \in [Node -> SUBSET Share] /\ up \in [Node -> BOOLEAN] /\ edits \in 0..MaxEdits
  BY InvParts DEF Inv, Sides
<1>1. CASE DaemonConnects(e)
  <2>1. rows' = rows /\ UNCHANGED <<waiting, cli, disk, edits>> /\ up' = [up EXCEPT ![e] = TRUE]
    BY <1>1 DEF DaemonConnects
  <2>2. Sides'
    BY <1>0, <2>1 DEF Sides, Waiting
  <2>3. KeptAll(Unheard(e, "cli", tx))
    BY <1>0, UnheardKeeps
  <2>4. tx' \in [Update -> Tx] /\ Transactions'
    <3>1. CASE tx' = Unheard(e, "cli", tx)
      BY <2>1, <2>3, <3>1, KeptTransactions DEF KeptAll
    <3>2. ASSUME NEW t \in Update, ~Active(t),
                 tx' = Started(t, e, disk[e], "daemon", Unheard(e, "cli", tx))
          PROVE  tx' \in [Update -> Tx] /\ Transactions'
      <4>1. disk[e] \in SUBSET Share
        BY <1>0
      <4>2. Starting(t, e, tx')
        BY <2>3, <3>2, <4>1, StartedStarts
      <4> QED BY <2>1, <4>2, StartingTransactions DEF Starting
    <3> QED BY <1>1, <3>1, <3>2 DEF DaemonConnects
  <2> QED BY <1>0, <2>1, <2>2, <2>4, InvParts DEF Inv
<1>2. CASE DaemonDisconnects(e)
  <2>1. /\ rows' = rows /\ UNCHANGED <<waiting, cli, disk, edits>> /\ up' = [up EXCEPT ![e] = FALSE]
        /\ tx' = Unheard(e, "daemon", tx)
    BY <1>2 DEF DaemonDisconnects
  <2>2. Sides'
    BY <1>0, <2>1 DEF Sides, Waiting
  <2>3. KeptAll(tx')
    BY <1>0, <2>1, UnheardKeeps
  <2> QED BY <1>0, <2>1, <2>2, <2>3, KeptTransactions, InvParts DEF Inv, KeptAll
<1>3. CASE UpdateTimesOut(e)
  <2>1. /\ rows' = rows /\ tx' = tx /\ UNCHANGED <<up, disk, edits>>
        /\ waiting' = [waiting EXCEPT ![e] = FALSE] /\ cli' = [cli EXCEPT ![e] = NoCommand]
    BY <1>3 DEF UpdateTimesOut
  <2>2. Sides'
    BY <1>0, <2>1, CommandSides, NoCommandTyped
  <2>3. KeptAll(tx')
    BY <1>0, <2>1, UnchangedKeeps
  <2> QED BY <1>0, <2>1, <2>2, <2>3, KeptTransactions, InvParts DEF Inv, KeptAll
<1>4. CASE DaemonDies(e)
  <2>1. /\ rows' = rows /\ UNCHANGED <<disk, edits>> /\ up' = [up EXCEPT ![e] = FALSE]
        /\ tx' = Unheard(e, "daemon", tx) /\ waiting' = [waiting EXCEPT ![e] = FALSE]
        /\ cli' = IF cli[e].step = "asked" THEN [cli EXCEPT ![e].step = "direct"] ELSE cli
    BY <1>4 DEF DaemonDies
  <2>2. PICK c \in Command : cli' = [cli EXCEPT ![e] = c] /\ c.step # "asked"
    <3>1. CASE cli[e].step = "asked"
      <4>1. [cli[e] EXCEPT !.step = "direct"] \in Command /\ [cli[e] EXCEPT !.step = "direct"].step # "asked"
        BY <1>0 DEF Command
      <4> QED BY <2>1, <3>1, <4>1
    <3>2. CASE cli[e].step # "asked"
      <4>1. cli' = [cli EXCEPT ![e] = cli[e]] /\ cli[e] \in Command
        BY <1>0, <2>1, <3>2
      <4> QED BY <3>2, <4>1
    <3> QED BY <3>1, <3>2
  <2>3. Sides'
    BY <1>0, <2>1, <2>2, CommandSides
  <2>4. KeptAll(tx')
    BY <1>0, <2>1, UnheardKeeps
  <2> QED BY <1>0, <2>1, <2>3, <2>4, KeptTransactions, InvParts DEF Inv, KeptAll
<1> QED BY <1>1, <1>2, <1>3, <1>4 DEF Daemon

LEMMA EditInv ==
  ASSUME Inv, NEW e \in Node, Edit(e)
  PROVE  Inv'
<1>0. /\ TypeOK /\ rows \in [Share -> Row \cup {NoRow}] /\ tx \in [Update -> Tx] /\ Sides
      /\ cli \in [Node -> Command] /\ waiting \in [Node -> BOOLEAN] /\ Waiting
      /\ disk \in [Node -> SUBSET Share] /\ up \in [Node -> BOOLEAN] /\ edits \in 0..MaxEdits
      /\ waiting = [waiting EXCEPT ![e] = waiting[e]] /\ waiting[e] \in BOOLEAN
      /\ cli[e] \in Command
  BY InvParts DEF Inv, Sides
<1>1. ASSUME NEW S \in Edits(e), AskDaemon(e, S)
      PROVE  Inv'
  <2>1. /\ rows' = rows /\ UNCHANGED <<up, disk>> /\ edits < MaxEdits /\ edits' = edits + 1
        /\ waiting' = [waiting EXCEPT ![e] = TRUE]
        /\ cli' = [cli EXCEPT ![e] = [step |-> "asked", want |-> S]]
    BY <1>1 DEF AskDaemon
  <2>2. S \in SUBSET Share
    BY DEF Edits
  <2>3. [step |-> "asked", want |-> S] \in Command
    BY <2>2 DEF Command
  <2>4. edits' \in 0..MaxEdits
    BY <1>0, <2>1, ShareAssumption
  <2>5. Sides'
    BY <1>0, <2>1, <2>3, <2>4, CommandSides
  <2>6. PICK t \in Update : ~Active(t) /\ tx' = Started(t, e, S, "daemon", tx)
    BY <1>1 DEF AskDaemon
  <2>7. Starting(t, e, tx')
    BY <1>0, <2>2, <2>6, UnchangedKeeps, StartedStarts
  <2> QED BY <1>0, <2>1, <2>5, <2>7, StartingTransactions, InvParts DEF Inv, Starting
<1>2. ASSUME NEW S \in Edits(e), GoDirect(e, S)
      PROVE  Inv'
  <2>1. /\ rows' = rows /\ UNCHANGED <<tx, up, waiting, disk>> /\ edits < MaxEdits /\ edits' = edits + 1
        /\ cli' = [cli EXCEPT ![e] = [step |-> "direct", want |-> S]] /\ cli[e].step = "idle"
    BY <1>2, NoCommandTyped DEF GoDirect
  <2>2. S \in SUBSET Share
    BY DEF Edits
  <2>3. [step |-> "direct", want |-> S] \in Command
    BY <2>2 DEF Command
  <2>4. edits' \in 0..MaxEdits
    BY <1>0, <2>1, ShareAssumption
  <2>5. ~waiting[e]
    BY <1>0, <2>1 DEF Waiting
  <2>6. Sides'
    BY <1>0, <2>1, <2>3, <2>4, <2>5, CommandSides
  <2>7. KeptAll(tx')
    BY <1>0, <2>1, UnchangedKeeps
  <2> QED BY <1>0, <2>1, <2>6, <2>7, KeptTransactions, InvParts DEF Inv, KeptAll
<1>3. CASE CliConnects(e)
  <2>1. /\ rows' = rows /\ UNCHANGED <<waiting, disk, edits>> /\ up' = [up EXCEPT ![e] = FALSE]
        /\ cli' = [cli EXCEPT ![e] = [cli[e] EXCEPT !.step = "sent"]] /\ cli[e].step = "direct"
    BY <1>3 DEF CliConnects
  <2>2. [cli[e] EXCEPT !.step = "sent"] \in Command /\ [cli[e] EXCEPT !.step = "sent"].step = "sent"
    BY <1>0 DEF Command
  <2>3. ~waiting[e]
    BY <1>0, <2>1 DEF Waiting
  <2>4. Sides'
    BY <1>0, <2>1, <2>2, <2>3, CommandSides
  <2>5. PICK t \in Update :
          ~Active(t) /\ tx' = Started(t, e, cli[e].want, "cli", Unheard(e, "daemon", tx))
    BY <1>3 DEF CliConnects
  <2>6. cli[e].want \in SUBSET Share
    BY <1>0 DEF Command
  <2>7. Starting(t, e, tx')
    BY <1>0, <2>5, <2>6, UnheardKeeps, StartedStarts
  <2> QED BY <1>0, <2>1, <2>4, <2>7, StartingTransactions, InvParts DEF Inv, Starting
<1>4. CASE CliGivesUp(e)
  <2>1. /\ rows' = rows /\ UNCHANGED <<up, waiting, disk, edits>> /\ tx' = Unheard(e, "cli", tx)
        /\ cli' = [cli EXCEPT ![e] = NoCommand] /\ cli[e].step # "asked"
    BY <1>4 DEF CliGivesUp
  <2>2. ~waiting[e]
    BY <1>0, <2>1 DEF Waiting
  <2>3. Sides'
    BY <1>0, <2>1, <2>2, CommandSides, NoCommandTyped
  <2>4. KeptAll(tx')
    BY <1>0, <2>1, UnheardKeeps
  <2> QED BY <1>0, <2>1, <2>3, <2>4, KeptTransactions, InvParts DEF Inv, KeptAll
<1>5. CASE WritePaths(e)
  <2>1. /\ rows' = rows /\ UNCHANGED <<tx, up, waiting, edits>>
        /\ disk' = [disk EXCEPT ![e] = cli[e].want]
        /\ cli' = [cli EXCEPT ![e] = NoCommand] /\ cli[e].step # "asked"
    BY <1>5 DEF WritePaths
  <2>2. ~waiting[e]
    BY <1>0, <2>1 DEF Waiting
  <2>3. cli[e].want \in SUBSET Share
    BY <1>0 DEF Command
  <2>4. disk' \in [Node -> SUBSET Share]
    BY <1>0, <2>1, <2>3
  <2>5. Sides'
    BY <1>0, <2>1, <2>2, <2>4, CommandSides, NoCommandTyped
  <2>6. KeptAll(tx')
    BY <1>0, <2>1, UnchangedKeeps
  <2> QED BY <1>0, <2>1, <2>5, <2>6, KeptTransactions, InvParts DEF Inv, KeptAll
<1> QED BY <1>1, <1>2, <1>3, <1>4, <1>5 DEF Edit

\* A restart of the relay aborts every transaction.
LEMMA RestartInv ==
  ASSUME Inv, RelayRestarts
  PROVE  Inv'
<1>1. /\ rows \in [Share -> Row \cup {NoRow}] /\ Sides /\ rows' = rows
      /\ tx' = [t \in Update |-> NoTx]
  BY InvParts DEF Inv, RelayRestarts
<1>2. tx' \in [Update -> Tx]
  BY <1>1, NoTxSound
<1>3. Sides'
  BY <1>1 DEF RelayRestarts, Sides, Waiting
<1>4. \A t \in Update : Sound(tx[t], rows)'
  BY <1>1, NoTxSound
<1>5. NoTx.step = "free" /\ \A s \in Share : NoTx.wrote[s] = Untouched
  BY DEF NoTx
<1>6. RowLocks' /\ LoneIsAlone'
  BY <1>1, <1>5 DEF RowLocks, LoneIsAlone, Active
<1> QED BY <1>1, <1>2, <1>3, <1>4, <1>6, InvParts DEF Inv, Transactions

LEMMA StutterInv ==
  ASSUME Inv, UNCHANGED vars
  PROVE  Inv'
<1>1. rows' = rows /\ tx' = tx /\ UNCHANGED <<up, waiting, cli, disk, edits>>
  BY DEF vars
<1>2. KeptAll(tx')
  BY <1>1, UnchangedKeeps DEF Inv
<1> QED BY <1>1, <1>2, KeptTransactions, OtherSides, InvParts DEF Inv, KeptAll

LEMMA StepInv == Inv /\ [Next]_vars => Inv'
<1> SUFFICES ASSUME Inv, [Next]_vars PROVE Inv'
  OBVIOUS
<1>1. ASSUME NEW t \in Update, Transaction(t) PROVE Inv'
  BY <1>1, TransactionInv
<1>2. ASSUME NEW e \in Node, Daemon(e) PROVE Inv'
  BY <1>2, DaemonInv
<1>3. ASSUME NEW e \in Node, Edit(e) PROVE Inv'
  BY <1>3, EditInv
<1>4. CASE RelayRestarts
  BY <1>4, RestartInv
<1>5. CASE UNCHANGED vars
  BY <1>5, StutterInv
<1> QED BY <1>1, <1>2, <1>3, <1>4, <1>5 DEF Next

LEMMA Inductive == Spec => []Inv
  BY InitInv, StepInv, PTL DEF Spec

\* In every execution every variable has its type, and the daemon waits for the
\* answer to an update exactly while a command of its CLI waits for the daemon,
\* whatever connection, timeout or death ends either.
THEOREM TypeCorrect == Spec => []TypeOK
<1>1. Inv => TypeOK
  BY DEF Inv
<1> QED BY Inductive, <1>1, PTL

-----------------------------------------------------------------------------
(* What a step does to the shares *)

\* Only a commit changes the rows.
LEMMA RowsChange ==
  ASSUME Inv, [Next]_vars
  PROVE  rows' = rows \/ \E t \in Update : Commit(t)
<1>1. ASSUME NEW t \in Update, Transaction(t) PROVE rows' = rows \/ Commit(t)
  BY <1>1 DEF Transaction, CheckShare, Refuse, UpsertShare, DeleteRow, ListWithdrawn, Abort
<1>2. ASSUME NEW e \in Node, Daemon(e) PROVE rows' = rows
  BY <1>2 DEF Daemon, DaemonConnects, DaemonDisconnects, UpdateTimesOut, DaemonDies
<1>3. ASSUME NEW e \in Node, Edit(e) PROVE rows' = rows
  BY <1>3 DEF Edit, AskDaemon, GoDirect, CliConnects, CliGivesUp, WritePaths
<1>4. RelayRestarts \/ UNCHANGED vars => rows' = rows
  BY DEF RelayRestarts, vars
<1> QED BY <1>1, <1>2, <1>3, <1>4 DEF Next

\* The transaction that commits is the one whose commit is seen.
LEMMA OneCommits ==
  ASSUME Inv, NEW t \in Update, Commit(t), NEW u \in Update, Commits(u)
  PROVE  u = t
<1>1. tx'[u] = NoTx /\ tx[u].step = "prune" /\ NoTx.step = "free"
  BY DEF Commits, NoTx
<1>2. CASE u # t
  <2>1. tx'[u] = [tx[u] EXCEPT !.todo = Remaining(u, {s \in Share : tx[t].wrote[s] = NoRow})]
    BY <1>2 DEF Commit
  <2>2. tx[u] \in Tx
    BY DEF Inv, TypeOK
  <2>3. tx'[u].step = tx[u].step
    BY <2>1, <2>2 DEF Tx
  <2> QED BY <1>1, <2>3
<1> QED BY <1>2

\* No step takes a share from the node that has it, except the commit of an
\* update of that very node which no longer lists it: the conflict check, the
\* upsert that keeps the executor of a row inserted since, and the row locks
\* suffice, whatever other updates do between the statements.
THEOREM OwnersKeepShares == Spec => OwnerKeepsItsShares
<1> DEFINE StaysOrWithdrawn(s) ==
      rows[s] # NoRow =>
        \/ rows'[s] # NoRow /\ rows'[s].owner = rows[s].owner
        \/ \E t \in Update : Commits(t) /\ tx[t].node = rows[s].owner /\ s \notin tx[t].shares
<1>1. ASSUME Inv, [Next]_vars PROVE \A s \in Share : StaysOrWithdrawn(s)
  <2>1. CASE rows' = rows
    BY <2>1
  <2>2. ASSUME NEW t \in Update, Commit(t), NEW s \in Share, rows[s] # NoRow
        PROVE  StaysOrWithdrawn(s)
    <3>1. Committed(t) /\ Active(t) /\ tx[t].step = "prune" /\ tx[t].todo = {}
      BY <1>1, <2>2, CommitCommits DEF Commit, Active
    <3>2. tx'[t] = NoTx
      BY <2>2 DEF Commit
    <3>3. rows[s].owner \in Node
      BY <1>1, <2>2 DEF Inv, TypeOK, Row
    <3>4. CASE tx[t].wrote[s] = NoRow
      <4>1. rows'[s] = NoRow /\ s \notin tx[t].shares /\ tx[t].node = rows[s].owner
        BY <3>1, <3>4 DEF Committed, Belongs
      <4>2. rows' # rows
        BY <2>2, <4>1
      <4> QED BY <3>1, <3>2, <4>1, <4>2 DEF Commits
    <3>5. CASE tx[t].wrote[s] # NoRow
      BY <2>2, <3>1, <3>3, <3>5 DEF Committed, Belongs
    <3> QED BY <3>4, <3>5
  <2> QED BY <1>1, <2>1, <2>2, RowsChange
<1> QED BY <1>1, Inductive, PTL DEF Spec, OwnerKeepsItsShares

\* When an update commits that no other update of its node overlapped, every
\* share it lists is registered and the node has no other share: what was
\* reported replaces what was there.
THEOREM LoneUpdatesReplace == Spec => LoneUpdateReplaces
<1>1. ASSUME Inv, [Next]_vars, NEW t \in Update, Commits(t), tx[t].alone, NEW s \in Share
      PROVE  IF s \in tx[t].shares THEN rows'[s] # NoRow
             ELSE rows'[s] # NoRow => rows'[s].owner # tx[t].node
  <2>1. rows' # rows
    BY <1>1 DEF Commits
  <2>2. PICK u \in Update : Commit(u)
    BY <1>1, <2>1, RowsChange
  <2>3. u = t
    BY <1>1, <2>2, OneCommits
  <2>4. Committed(t)
    BY <1>1, <2>2, <2>3, CommitCommits
  <2> QED BY <1>1, <2>4 DEF Committed, Belongs
<1>2. Inv /\ [Next]_vars =>
        \A t \in Update : Commits(t) /\ tx[t].alone =>
          \A s \in Share : IF s \in tx[t].shares THEN rows'[s] # NoRow
                           ELSE rows'[s] # NoRow => rows'[s].owner # tx[t].node
  BY <1>1
<1> QED BY <1>2, Inductive, PTL DEF Spec, LoneUpdateReplaces
==============================================================================
