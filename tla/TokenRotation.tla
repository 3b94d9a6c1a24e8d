---------------------------- MODULE TokenRotation ----------------------------
(***************************************************************************)
(* The life of one executor's credential: rotation asked for by the        *)
(* executor (node or hub daemon), adoption of the new token when the       *)
(* executor reconnects with it, revocation and re-registration by the      *)
(* owner, expiry, the orphan prune, crashes of the relay and of the        *)
(* executor.  Every relay handler touches only the rows and map entries of *)
(* its own executor, so one executor is enough.                            *)
(*                                                                         *)
(* Atomicity.  The relay is one JavaScript thread: the code between two    *)
(* awaits is one step.  A database statement and the code that continues   *)
(* after it are one step unless the gap matters, and then they are two     *)
(* ("committing" / "committed", "storing" / "stored").                     *)
(***************************************************************************)
EXTENDS Naturals, Sequences, FiniteSets

CONSTANTS
  Token,         \* executor tokens the relay can ever mint
  Conn,          \* WebSocket connections; an identifier is reused once free
  InitialToken,  \* the token the executor registered with
  NoToken,
  NoConn,
  MaxReplies     \* bound: rotate_token replies in flight to the executor

ASSUME ConstantsAssumption ==
  /\ InitialToken \in Token
  /\ NoToken \notin Token
  /\ NoConn \notin Conn
  /\ MaxReplies \in Nat \ {0}

VARIABLES
  \* Postgres
  row,        \* executor_tokens row: unused (never minted), minted (only in
              \* relay memory), live, revoked
  expiry,     \* expires_at of the row: never, future, past
  current,    \* executors.executor_token_id
  \* memory of the relay process
  pending,    \* pendingRotations: new token |-> token it replaces
  recent,     \* lastRotateAt lies within ROTATE_MIN_INTERVAL_MS
  registered, \* the connection in the registry's slot of this executor
  stage,      \* how far the relay has taken each connection
  bearer,     \* token each connection authenticated with
  captured,   \* oldTokenId of meta.pendingRotation, read during the upgrade
  mint,       \* the handleRotateToken call running on each connection
  revoking,   \* tokens whose revocation was issued and not awaited
  owner,      \* the owner's API request in progress
  \* executor
  client,     \* the daemon's socket and its rotation in progress
  disk        \* node.yaml: node_token and previous_node_token

dbVars     == <<row, expiry, current>>
memoryVars == <<pending, recent, registered, stage, bearer, captured, mint, revoking, owner>>
vars       == <<row, expiry, current, pending, recent, registered, stage, bearer,
                captured, mint, revoking, owner, client, disk>>

-----------------------------------------------------------------------------
(* State shapes and helpers *)

RotateError == "rotate_token_error"

Stages == {"free", "lookup", "touch", "committing", "committed", "open"}

Mint  == [step : {"none", "storing", "stored"}, token : Token \cup {NoToken},
          replaces : Token \cup {NoToken}, cancelled : SUBSET Token]
Owner == [step : {"none", "revoke", "revoked", "registered"}, token : Token \cup {NoToken},
          cancelled : SUBSET Token]
Client == [sock : Conn \cup {NoConn}, up : BOOLEAN, greeting : {"none", "sent", "seen"},
           rot : {"idle", "asked", "confirming"}, asking : BOOLEAN,
           replies : Seq(Token \cup {RotateError})]

NoMint   == [step |-> "none", token |-> NoToken, replaces |-> NoToken, cancelled |-> {}]
NoOwner  == [step |-> "none", token |-> NoToken, cancelled |-> {}]
NoSocket == [sock |-> NoConn, up |-> FALSE, greeting |-> "none", rot |-> "idle",
             asking |-> FALSE, replies |-> <<>>]

\* Both ends of the TCP connection still stand.
Up(c) == client.sock = c /\ client.up

\* The client's record once the relay has destroyed the socket c.
Destroyed(c) == IF client.sock = c THEN [client EXCEPT !.up = FALSE] ELSE client

\* handleUpgradeRequest: the row exists, is not revoked and has not expired.
Authenticates(t) == row[t] = "live" /\ expiry[t] # "past"

\* The token rows a revocation statement with "revokedAt: null" changes.
Revoked(S) == [t \in Token |-> IF t \in S /\ row[t] = "live" THEN "revoked" ELSE row[t]]

\* The synchronous half of cancelPendingRotation: drop every entry; the
\* tokens dropped are then revoked.
Cancelled == {t \in Token : pending[t] # NoToken}
NoPending == [t \in Token |-> NoToken]

\* Mutant: the entries stay in the map.
CancelNothing == UNCHANGED pending

CancelPending == pending' = NoPending

\* The relay's answer reaches only the executor's live socket.
Replying(c, m) ==
  IF Up(c) THEN [client EXCEPT !.replies = Append(@, m)] ELSE client

\* Tokens the executor's rotation in progress may still be given: they were
\* minted less than ROTATE_TIMEOUT_MS ago, well inside ROTATION_TTL_MS.
Fresh(t) ==
  /\ client.rot # "idle"
  /\ \/ client.rot = "confirming" /\ disk.token = t
     \/ \E i \in 1..Len(client.replies) : client.replies[i] = t
     \/ \E c \in Conn : mint[c].token = t

Init ==
  /\ row = [t \in Token |-> IF t = InitialToken THEN "live" ELSE "unused"]
  /\ expiry = [t \in Token |-> "never"]
  /\ current = InitialToken
  /\ pending = NoPending
  /\ recent = FALSE
  /\ registered = NoConn
  /\ stage = [c \in Conn |-> "free"]
  /\ bearer = [c \in Conn |-> NoToken]
  /\ captured = [c \in Conn |-> NoToken]
  /\ mint = [c \in Conn |-> NoMint]
  /\ revoking = {}
  /\ owner = NoOwner
  /\ client = NoSocket
  /\ disk = [token |-> InitialToken, previous |-> NoToken]

-----------------------------------------------------------------------------
(* Upgrade of an executor connection: handleUpgradeRequest, handleConnection *)

\* The relay is done with the connection c.
Free(c) ==
  /\ stage' = [stage EXCEPT ![c] = "free"]
  /\ bearer' = [bearer EXCEPT ![c] = NoToken]
  /\ captured' = [captured EXCEPT ![c] = NoToken]

\* The executor opens a socket and presents the token it reads from disk.
Connect(c) ==
  /\ client.sock = NoConn
  /\ stage[c] = "free" /\ registered # c /\ mint[c] = NoMint
  /\ client' = [NoSocket EXCEPT !.sock = c, !.up = TRUE, !.rot = client.rot]
  /\ stage' = [stage EXCEPT ![c] = "lookup"]
  /\ bearer' = [bearer EXCEPT ![c] = disk.token]
  /\ UNCHANGED <<dbVars, pending, recent, registered, captured, mint, revoking, owner,
                 disk>>

\* 401, a rate limit (429) or a database error (500) before the upgrade.
RefuseUpgrade(c) ==
  /\ stage[c] \in {"lookup", "touch"}
  /\ Free(c)
  /\ client' = Destroyed(c)
  /\ UNCHANGED <<dbVars, pending, recent, registered, mint, revoking, owner, disk>>

\* Mutant: only a pending rotation authenticates.
ReferencedByRotation(t) == pending[t] # NoToken

\* Some executor uses the token, or a pending rotation offers it.
Referenced(t) == current = t \/ pending[t] # NoToken

\* The token row is read once; nothing below reads it again.
LookupToken(c) ==
  /\ stage[c] = "lookup"
  /\ Authenticates(bearer[c]) /\ Referenced(bearer[c])
  /\ captured' = [captured EXCEPT ![c] =
                    IF current = bearer[c] THEN NoToken ELSE pending[bearer[c]]]
  /\ stage' = [stage EXCEPT ![c] = "touch"]
  /\ UNCHANGED <<dbVars, pending, recent, registered, bearer, mint, revoking, owner,
                 client, disk>>

\* registerConnection, and the executor's previous connection is terminated.
Register(c) ==
  /\ registered' = c
  /\ stage' = [stage EXCEPT ![c] = "open"]
  /\ captured' = [captured EXCEPT ![c] = NoToken]

\* Mutant: the map is not consulted again before the adoption.
AdoptsUnguarded(c) == captured[c] # NoToken

\* handleConnection finds the rotation it captured still pending.
Adopts(c) == captured[c] # NoToken /\ pending[bearer[c]] # NoToken

\* The last await of the upgrade ends: 101, then the synchronous start of
\* handleConnection, which either claims the pending rotation or registers.
CompleteUpgrade(c) ==
  /\ stage[c] = "touch"
  /\ IF Adopts(c)
     THEN /\ pending' = [pending EXCEPT ![bearer[c]] = NoToken]
          /\ stage' = [stage EXCEPT ![c] = "committing"]
          /\ UNCHANGED <<registered, captured>>
          /\ client' = IF client.sock = c THEN [client EXCEPT !.greeting = "sent"] ELSE client
     ELSE /\ Register(c)
          /\ UNCHANGED pending
          /\ client' = IF client.sock = c THEN [client EXCEPT !.greeting = "sent"]
                       ELSE Destroyed(registered)
  /\ UNCHANGED <<dbVars, recent, bearer, mint, revoking, owner, disk>>

\* Mutant: the adopted token keeps its five-minute expiry.
StillExpiring(t) == expiry

\* The adopted token becomes the executor's permanent one.
MadePermanent(t) == [expiry EXCEPT ![t] = "never"]

\* The adoption transaction: repoint the executor, revoke the token it
\* replaces, make the adopted token permanent.
CommitAdoption(c) ==
  /\ stage[c] = "committing"
  /\ current' = bearer[c]
  /\ row' = [row EXCEPT ![captured[c]] = "revoked"]
  /\ expiry' = MadePermanent(bearer[c])
  /\ stage' = [stage EXCEPT ![c] = "committed"]
  /\ UNCHANGED <<pending, recent, registered, bearer, captured, mint, revoking, owner,
                 client, disk>>

\* The transaction fails: ws.close(1011); the map entry is already gone.
FailAdoption(c) ==
  /\ stage[c] = "committing"
  /\ Free(c)
  /\ client' = Destroyed(c)
  /\ UNCHANGED <<dbVars, pending, recent, registered, mint, revoking, owner, disk>>

FinishAdoption(c) ==
  /\ stage[c] = "committed"
  /\ Register(c)
  /\ client' = Destroyed(registered)
  /\ UNCHANGED <<dbVars, pending, recent, bearer, mint, revoking, owner, disk>>

\* The close event: only the connection still in the slot vacates it.
CloseEvent(c) ==
  /\ stage[c] = "open" /\ ~Up(c)
  /\ Free(c)
  /\ registered' = IF registered = c THEN NoConn ELSE registered
  /\ UNCHANGED <<dbVars, pending, recent, mint, revoking, owner, client, disk>>

-----------------------------------------------------------------------------
(* handleRotateToken *)

\* Mutant: no limit of one rotation per minute.
RotateAlways == TRUE

\* At most one rotate_token per ROTATE_MIN_INTERVAL_MS.
RotateAllowed == ~recent

\* Accepted: mint a value, drop the executor's pending rotation, start storing.
ReceiveRotate(c, t) ==
  /\ stage[c] = "open" /\ Up(c) /\ client.asking
  /\ RotateAllowed /\ mint[c] = NoMint /\ row[t] = "unused"
  /\ recent' = TRUE
  /\ row' = [row EXCEPT ![t] = "minted"]
  /\ mint' = [mint EXCEPT ![c] = [step |-> "storing", token |-> t, replaces |-> bearer[c],
                                   cancelled |-> Cancelled]]
  /\ CancelPending
  /\ client' = [client EXCEPT !.asking = FALSE]
  /\ UNCHANGED <<expiry, current, registered, stage, bearer, captured, revoking, owner,
                 disk>>

\* Refused by the rate limit.
RefuseRotate(c) ==
  /\ stage[c] = "open" /\ Up(c) /\ client.asking
  /\ ~RotateAllowed /\ Len(client.replies) < MaxReplies
  /\ client' = [client EXCEPT !.asking = FALSE, !.replies = Append(@, RotateError)]
  /\ UNCHANGED <<dbVars, memoryVars, disk>>

\* The cancelled tokens are revoked and the new row is created.
StoreToken(c) ==
  /\ mint[c].step = "storing"
  /\ row' = [Revoked(mint[c].cancelled) EXCEPT ![mint[c].token] = "live"]
  /\ expiry' = [expiry EXCEPT ![mint[c].token] = "future"]
  /\ mint' = [mint EXCEPT ![c].step = "stored", ![c].cancelled = {}]
  /\ UNCHANGED <<current, pending, recent, registered, stage, bearer, captured, revoking,
                 owner, client, disk>>

\* One of the two statements fails and the executor is sent an error.
FailMint(c) ==
  /\ mint[c].step = "storing"
  /\ Len(client.replies) < MaxReplies
  /\ \/ row' = row
     \/ row' = Revoked(mint[c].cancelled)
  /\ mint' = [mint EXCEPT ![c] = NoMint]
  /\ client' = Replying(c, RotateError)
  /\ UNCHANGED <<expiry, current, pending, recent, registered, stage, bearer, captured,
                 revoking, owner, disk>>

\* The rotation becomes pending, its timer starts, token_rotated is sent.
OfferToken(c) ==
  /\ mint[c].step = "stored"
  /\ Len(client.replies) < MaxReplies
  /\ pending' = [pending EXCEPT ![mint[c].token] = mint[c].replaces]
  /\ mint' = [mint EXCEPT ![c] = NoMint]
  /\ client' = Replying(c, mint[c].token)
  /\ UNCHANGED <<dbVars, recent, registered, stage, bearer, captured, revoking, owner,
                 disk>>

\* Database calls end within the minute the rate limit covers.
MinuteElapses ==
  /\ recent
  /\ \A c \in Conn : mint[c] = NoMint
  /\ recent' = FALSE
  /\ UNCHANGED <<dbVars, pending, registered, stage, bearer, captured, mint, revoking,
                 owner, client, disk>>

-----------------------------------------------------------------------------
(* Expiry and the prune *)

\* expires_at passes (for a row that is dead already, that changes nothing).
Elapse(t) ==
  /\ row[t] = "live" /\ expiry[t] = "future" /\ ~Fresh(t)
  /\ expiry' = [expiry EXCEPT ![t] = "past"]
  /\ UNCHANGED <<row, current, memoryVars, client, disk>>

\* Mutant: the timer is not cleared when the entry goes.
TimerLeftRunning(t) == row[t] = "live" /\ expiry[t] = "past"

\* The entry of t, which owns the timer, is there and its time has come.
TimerDue(t) == pending[t] # NoToken /\ expiry[t] = "past"

\* The ROTATION_TTL_MS timer set with the entry fires; it was set after
\* expires_at was computed.
RotationExpires(t) ==
  /\ TimerDue(t)
  /\ pending' = [pending EXCEPT ![t] = NoToken]
  /\ revoking' = revoking \cup {t}
  /\ UNCHANGED <<dbVars, recent, registered, stage, bearer, captured, mint, owner,
                 client, disk>>

\* The update the timer issued is executed, or fails and is only logged.
RevokeExpired(t) ==
  /\ t \in revoking
  /\ revoking' = revoking \ {t}
  /\ \/ row' = Revoked({t})
     \/ row' = row
  /\ UNCHANGED <<expiry, current, pending, recent, registered, stage, bearer, captured,
                 mint, owner, client, disk>>

\* Mutant: the prune covers only rotations the relay still knows.
KnownOrphans == {t \in Token : pending[t] # NoToken /\ row[t] = "live" /\ expiry[t] = "past"}

\* pruneExpiredOrphanedTokens.  It also deletes unreferenced rows revoked an
\* hour ago; no handler runs that long, and the relay refuses a token without
\* a row exactly as it refuses a revoked one, so such a row stays "revoked".
Orphans == {t \in Token : t # current /\ row[t] = "live" /\ expiry[t] = "past"}

Prune ==
  /\ Orphans # {}
  /\ row' = Revoked(Orphans)
  /\ UNCHANGED <<expiry, current, memoryVars, client, disk>>

-----------------------------------------------------------------------------
(* The owner: DELETE /api/executors/:id/token, POST /api/executors/register *)

\* The request reads which token the executor uses; 409 if it is revoked.
RequestRevoke ==
  /\ owner = NoOwner
  /\ row[current] = "live"
  /\ owner' = [NoOwner EXCEPT !.step = "revoke", !.token = current]
  /\ UNCHANGED <<dbVars, pending, recent, registered, stage, bearer, captured, mint,
                 revoking, client, disk>>

\* Terminate the live connection, cancel the pending rotation.
DropExecutor(step) ==
  /\ client' = Destroyed(registered)
  /\ CancelPending
  /\ owner' = [step |-> step, token |-> NoToken, cancelled |-> Cancelled]

\* That token is revoked, whichever one the executor uses by now.
CommitRevoke ==
  /\ owner.step = "revoke"
  /\ row' = [row EXCEPT ![owner.token] = "revoked"]
  /\ DropExecutor("revoked")
  /\ UNCHANGED <<expiry, current, recent, registered, stage, bearer, captured, mint,
                 revoking, disk>>

\* The cancelled rotations are revoked and the request is answered with 204.
FinishRevoke ==
  /\ owner.step = "revoked"
  /\ row' = Revoked(owner.cancelled)
  /\ owner' = NoOwner
  /\ UNCHANGED <<expiry, current, pending, recent, registered, stage, bearer, captured,
                 mint, revoking, client, disk>>

\* Registration of the same host: one transaction replaces the token.
CommitRegistration(t) ==
  /\ owner = NoOwner
  /\ row[t] = "unused"
  /\ row' = [row EXCEPT ![current] = "revoked", ![t] = "live"]
  /\ current' = t
  /\ client' = Destroyed(registered)
  /\ CancelPending
  /\ owner' = [step |-> "registered", token |-> t, cancelled |-> Cancelled]
  /\ UNCHANGED <<expiry, recent, registered, stage, bearer, captured, mint, revoking, disk>>

\* The registering command receives the token and writes it to node.yaml.
FinishRegistration ==
  /\ owner.step = "registered"
  /\ row' = Revoked(owner.cancelled)
  /\ disk' = [disk EXCEPT !.token = owner.token]
  /\ owner' = NoOwner
  /\ UNCHANGED <<expiry, current, pending, recent, registered, stage, bearer, captured,
                 mint, revoking, client>>

\* A database error: 500, and nothing more is done.
FailRequest ==
  /\ owner # NoOwner
  /\ owner' = NoOwner
  /\ UNCHANGED <<dbVars, pending, recent, registered, stage, bearer, captured, mint,
                 revoking, client, disk>>

-----------------------------------------------------------------------------
(* The executor's daemon *)

\* The 101 arrives.  onOpen takes it for the confirmation of the rotation.
Opened ==
  /\ client.greeting = "sent"
  /\ client' = [client EXCEPT !.greeting = "seen",
                              !.rot = IF @ = "confirming" THEN "idle" ELSE @]
  /\ disk' = IF client.rot = "confirming" THEN [disk EXCEPT !.previous = NoToken] ELSE disk
  /\ UNCHANGED <<dbVars, memoryVars>>

\* rotateToken(): the request is lost when there is no open socket.
AskRotation ==
  /\ client.rot = "idle" /\ ~client.asking
  /\ client' = [client EXCEPT !.rot = "asked", !.asking = (client.greeting = "seen")]
  /\ UNCHANGED <<dbVars, memoryVars, disk>>

\* ROTATE_TIMEOUT_MS without an answer or without the reconnect.
RotationTimesOut ==
  /\ client.rot # "idle"
  /\ client' = [client EXCEPT !.rot = "idle"]
  /\ UNCHANGED <<dbVars, memoryVars, disk>>

HasReply == client.greeting = "seen" /\ client.replies # <<>>

\* Mutant: any message is taken for a token.
AnyReply(m) == TRUE

\* The message is a token_rotated with a well-formed token.
IsToken(m) == m # RotateError

\* token_rotated, the answer to our own request: save it and reconnect.
SaveRotatedToken ==
  /\ HasReply /\ IsToken(Head(client.replies)) /\ client.rot = "asked"
  /\ disk' = [token |-> Head(client.replies), previous |-> disk.token]
  /\ client' = [NoSocket EXCEPT !.rot = "confirming"]
  /\ UNCHANGED <<dbVars, memoryVars>>

\* rotate_token_error, or node.yaml cannot be written.
FailRotation ==
  /\ HasReply
  /\ ~IsToken(Head(client.replies)) \/ client.rot = "asked"
  /\ client' = [client EXCEPT !.replies = Tail(@), !.rot = "idle"]
  /\ UNCHANGED <<dbVars, memoryVars, disk>>

\* A token_rotated nobody waits for is dropped.
IgnoreRotatedToken ==
  /\ HasReply /\ IsToken(Head(client.replies)) /\ client.rot # "asked"
  /\ client' = [client EXCEPT !.replies = Tail(@)]
  /\ UNCHANGED <<dbVars, memoryVars, disk>>

\* The daemon notices that its socket is gone and will reconnect.
Closed ==
  /\ client.sock # NoConn /\ ~client.up
  /\ client' = [NoSocket EXCEPT !.rot = client.rot]
  /\ UNCHANGED <<dbVars, memoryVars, disk>>

-----------------------------------------------------------------------------
(* Faults *)

NetworkLoss ==
  /\ client.up
  /\ client' = [client EXCEPT !.up = FALSE]
  /\ UNCHANGED <<dbVars, memoryVars, disk>>

ExecutorRestarts ==
  /\ client # NoSocket
  /\ client' = NoSocket
  /\ UNCHANGED <<dbVars, memoryVars, disk>>

\* The relay process ends: its maps, timers and handlers are gone.
RelayRestarts ==
  /\ pending' = NoPending
  /\ recent' = FALSE
  /\ registered' = NoConn
  /\ stage' = [c \in Conn |-> "free"]
  /\ bearer' = [c \in Conn |-> NoToken]
  /\ captured' = [c \in Conn |-> NoToken]
  /\ mint' = [c \in Conn |-> NoMint]
  /\ revoking' = {}
  /\ owner' = NoOwner
  /\ client' = [client EXCEPT !.up = FALSE]
  /\ UNCHANGED <<dbVars, disk>>

-----------------------------------------------------------------------------
Upgrade(c) ==
  \/ RefuseUpgrade(c) \/ LookupToken(c) \/ CompleteUpgrade(c)
  \/ CommitAdoption(c) \/ FailAdoption(c) \/ FinishAdoption(c) \/ CloseEvent(c)

Rotate(c) ==
  \/ \E t \in Token : ReceiveRotate(c, t)
  \/ RefuseRotate(c) \/ StoreToken(c) \/ FailMint(c) \/ OfferToken(c)

Expiry ==
  \/ \E t \in Token : Elapse(t) \/ RotationExpires(t) \/ RevokeExpired(t)
  \/ Prune \/ MinuteElapses

OwnerActs ==
  \/ RequestRevoke \/ CommitRevoke \/ FinishRevoke \/ FailRequest
  \/ \E t \in Token : CommitRegistration(t)
  \/ FinishRegistration

Daemon ==
  \/ \E c \in Conn : Connect(c)
  \/ Opened \/ AskRotation \/ RotationTimesOut \/ SaveRotatedToken
  \/ FailRotation \/ IgnoreRotatedToken \/ Closed

Faults == NetworkLoss \/ ExecutorRestarts \/ RelayRestarts

\* The executor and the relay on their own, without its owner.
Unattended ==
  \/ \E c \in Conn : Upgrade(c) \/ Rotate(c)
  \/ Expiry \/ Daemon \/ Faults

Next == Unattended \/ OwnerActs

Spec == Init /\ [][Next]_vars
UnattendedSpec == Init /\ [][Unattended]_vars

-----------------------------------------------------------------------------
(* Safety *)

\* Every variable stays in its type: rows, map entries, handler states.
TypeOK ==
  /\ row \in [Token -> {"unused", "minted", "live", "revoked"}]
  /\ expiry \in [Token -> {"never", "future", "past"}]
  /\ current \in Token
  /\ pending \in [Token -> Token \cup {NoToken}]
  /\ recent \in BOOLEAN
  /\ registered \in Conn \cup {NoConn}
  /\ stage \in [Conn -> Stages]
  /\ bearer \in [Conn -> Token \cup {NoToken}]
  /\ captured \in [Conn -> Token \cup {NoToken}]
  /\ mint \in [Conn -> Mint]
  /\ revoking \subseteq Token
  /\ owner \in Owner
  /\ client \in Client
  /\ disk \in [token : Token, previous : Token \cup {NoToken}]

\* The token the executor is registered with never carries an expiry: the
\* five minutes a rotation token is minted with end with its adoption, so a
\* later reconnect still authenticates (hub.ts, the adoption transaction).
ReferencedTokenNeverExpires == expiry[current] = "never"

\* At most one rotation of the executor is pending at any time, however the
\* awaits of handleRotateToken, adoptions and cancellations interleave.
OnePendingRotation ==
  \A s, t \in Token : pending[s] # NoToken /\ pending[t] # NoToken => s = t

Adopting(c) == stage[c] = "committing"

\* A pending rotation is claimed once: two reconnects with the same new
\* token never both run its adoption, and a claimed or adopted token is not
\* pending any more.
ClaimedOnce ==
  /\ \A c, d \in Conn : Adopting(c) /\ Adopting(d) /\ bearer[c] = bearer[d] => c = d
  /\ \A c \in Conn : Adopting(c) => pending[bearer[c]] = NoToken
  /\ pending[current] = NoToken

\* Tokens some revocation is under way for: expired, or cancelled by a newer
\* rotation or by the owner.
Doomed == revoking \cup owner.cancelled \cup UNION {mint[c].cancelled : c \in Conn}

\* A revocation that was issued and has not yet run never hits the token the
\* executor uses or is just adopting: late revocations are harmless.
LateRevocationsAreHarmless ==
  /\ current \notin Doomed
  /\ \A c \in Conn : Adopting(c) => bearer[c] \notin Doomed

\* As long as the executor stays on its token, nothing but the owner's own
\* revocation takes that token away: not expiry, not the prune, not a
\* cancelled, failed or concurrent rotation.
OnlyTheOwnerRevokesInPlace ==
  [][current' = current /\ row[current] = "live" /\ row'[current] # "live"
       => owner.step = "revoke"]_vars

-----------------------------------------------------------------------------
(* What the documentation and the comments claim, and the code does not keep *)

\* hub/src/index.ts:45-47 (and node/src/cli/node.ts:313-316): the previous
\* token is kept until a connection with the new one has worked, so the disk
\* never holds only dead tokens.  Judged when no adoption is in progress.
DiskHoldsALiveToken ==
  (\A c \in Conn : ~Adopting(c))
    => \E t \in {disk.token, disk.previous} \cap Token : row[t] = "live"

-----------------------------------------------------------------------------
(* Liveness *)

\* The relay's promises settle, its timers fire, the prune runs every five
\* minutes; the daemon reconnects whenever its socket is gone.  A reconnect
\* refused by a rate limit is retried after a growing delay, so not every
\* attempt is refused.
Fairness ==
  /\ \A c \in Conn :
       /\ SF_vars(LookupToken(c)) /\ SF_vars(CompleteUpgrade(c))
       /\ WF_vars(CommitAdoption(c) \/ FailAdoption(c))
       /\ WF_vars(RefuseUpgrade(c)) /\ WF_vars(FinishAdoption(c)) /\ WF_vars(CloseEvent(c))
       /\ WF_vars(StoreToken(c) \/ FailMint(c)) /\ WF_vars(OfferToken(c))
  /\ \A t \in Token : SF_vars(Elapse(t)) /\ WF_vars(RotationExpires(t)) /\ WF_vars(RevokeExpired(t))
  /\ WF_vars(Prune)
  /\ WF_vars(\E c \in Conn : Connect(c))
  /\ WF_vars(Opened) /\ WF_vars(Closed) /\ WF_vars(RotationTimesOut)
  /\ WF_vars(SaveRotatedToken \/ FailRotation \/ IgnoreRotatedToken)

FairSpec == UnattendedSpec /\ Fairness

\* A rotation token that is never adopted (the executor did not come back,
\* the relay restarted, an adoption failed) does not stay valid for ever.
AbandonedRotationIsRevoked ==
  \A t \in Token : row[t] = "live" /\ expiry[t] # "never"
                     ~> row[t] # "live" \/ expiry[t] = "never"

\* An executor that keeps the token it is registered with gets its
\* connection back after every loss.
ValidTokenReconnects ==
  <>[](disk.token = current /\ row[current] = "live")
    => []<>(registered # NoConn /\ bearer[registered] = current)

=============================================================================
