------------------------- MODULE TokenRotationProofs -------------------------
(***************************************************************************)
(* Proofs about TokenRotation, for any set of tokens and of connections.   *)
(* Four inductive invariants, each relative to the ones before it:         *)
(*   TypeOK       the shapes;                                              *)
(*   Rows         which rows exist while a handler still relies on them;   *)
(*   OneRotation  the one-minute limit serialises the rotations;           *)
(*   Claims       a token on its way to revocation can no longer be        *)
(*                adopted, and a token being adopted can no longer be      *)
(*                revoked.                                                 *)
(***************************************************************************)
EXTENDS TokenRotation, TLAPS

-----------------------------------------------------------------------------
(* Shapes *)

\* A handler that is under way holds the tokens it works on.
HandlerTokens ==
  /\ \A c \in Conn : stage[c] # "free" => bearer[c] \in Token
  /\ \A c \in Conn : stage[c] = "committing" => captured[c] \in Token
  /\ \A c \in Conn : mint[c].step # "none" => mint[c].token \in Token /\ mint[c].replaces \in Token
  /\ owner.step \in {"revoke", "registered"} => owner.token \in Token

Shapes == TypeOK /\ HandlerTokens

\* The records of an idle handler and of a closed socket.
LEMMA IdleShapes ==
  /\ NoMint \in Mint /\ NoMint.step = "none"
  /\ NoOwner \in Owner /\ NoOwner.step = "none"
  /\ NoSocket \in Client
<1>1. <<>> \in Seq(Token \cup {RotateError})
  OBVIOUS
<1> QED BY <1>1 DEF NoMint, Mint, NoOwner, Owner, NoSocket, Client

\* A reply joins the ones in flight.
LEMMA ReplyShapes ==
  ASSUME client \in Client, NEW m \in Token \cup {RotateError}
  PROVE  /\ [client EXCEPT !.replies = Append(@, m)] \in Client
         /\ [client EXCEPT !.asking = FALSE, !.replies = Append(@, m)] \in Client
<1>1. client.replies \in Seq(Token \cup {RotateError})
  BY DEF Client
<1>2. Append(client.replies, m) \in Seq(Token \cup {RotateError})
  BY <1>1
<1>3. ASSUME NEW r \in Seq(Token \cup {RotateError})
      PROVE  /\ [client EXCEPT !.replies = r] \in Client
             /\ [client EXCEPT !.asking = FALSE, !.replies = r] \in Client
  BY DEF Client
<1> QED BY <1>2, <1>3

\* The reply at the head has been received.
LEMMA ReceivedShapes ==
  ASSUME client \in Client, client.replies # <<>>
  PROVE  /\ Head(client.replies) \in Token \cup {RotateError}
         /\ [client EXCEPT !.replies = Tail(@)] \in Client
         /\ [client EXCEPT !.replies = Tail(@), !.rot = "idle"] \in Client
<1>1. client.replies \in Seq(Token \cup {RotateError})
  BY DEF Client
<1>2. Tail(client.replies) \in Seq(Token \cup {RotateError})
  BY <1>1
<1>3. ASSUME NEW r \in Seq(Token \cup {RotateError})
      PROVE  [client EXCEPT !.replies = r] \in Client
  BY DEF Client
<1>4. ASSUME NEW r \in Seq(Token \cup {RotateError})
      PROVE  [client EXCEPT !.replies = r, !.rot = "idle"] \in Client
  BY DEF Client
<1>5. Head(client.replies) \in Token \cup {RotateError}
  BY <1>1
<1> QED BY <1>2, <1>3, <1>4, <1>5

\* Destroying a socket, or sending the rotation request, changes one flag.
LEMMA FlagShapes ==
  ASSUME client \in Client
  PROVE  /\ [client EXCEPT !.up = FALSE] \in Client
         /\ [client EXCEPT !.asking = FALSE] \in Client
         /\ \A c \in Conn \cup {NoConn} : Destroyed(c) \in Client
<1>1. [client EXCEPT !.up = FALSE] \in Client
  BY DEF Client
<1>2. [client EXCEPT !.asking = FALSE] \in Client
  BY DEF Client
<1> QED BY <1>1, <1>2 DEF Destroyed

\* Each handler, timer and fault keeps every variable in its type.
LEMMA ShapesStep ==
  ASSUME Shapes, [Next]_vars
  PROVE  Shapes'
<1> USE ConstantsAssumption, IdleShapes
<1>1. ASSUME NEW c \in Conn, Upgrade(c) PROVE Shapes'
  <2>1. CASE RefuseUpgrade(c)
    BY <2>1, FlagShapes
    DEF Shapes, HandlerTokens, TypeOK, RefuseUpgrade, Free, Stages, dbVars
  <2>2. CASE LookupToken(c)
    BY <2>2 DEF Shapes, HandlerTokens, TypeOK, LookupToken, Stages, dbVars
  <2>3. CASE CompleteUpgrade(c)
    <3>1. ASSUME NEW g \in {"sent"}, NEW u \in BOOLEAN
          PROVE  /\ [client EXCEPT !.greeting = g] \in Client
                 /\ [client EXCEPT !.up = u] \in Client
      BY DEF Shapes, TypeOK, Client
    <3>2. client' \in Client
      BY <2>3, <3>1 DEF Shapes, TypeOK, CompleteUpgrade, Destroyed
    <3>3. CASE Adopts(c)
      BY <2>3, <3>2, <3>3
      DEF Shapes, HandlerTokens, TypeOK, CompleteUpgrade, Adopts, Stages, dbVars
    <3>4. CASE ~Adopts(c)
      BY <2>3, <3>2, <3>4
      DEF Shapes, HandlerTokens, TypeOK, CompleteUpgrade, Register, Stages, dbVars
    <3> QED BY <3>3, <3>4
  <2>4. CASE CommitAdoption(c)
    BY <2>4 DEF Shapes, HandlerTokens, TypeOK, CommitAdoption, MadePermanent, Stages
  <2>5. CASE FailAdoption(c)
    BY <2>5, FlagShapes
    DEF Shapes, HandlerTokens, TypeOK, FailAdoption, Free, Stages, dbVars
  <2>6. CASE FinishAdoption(c)
    BY <2>6, FlagShapes
    DEF Shapes, HandlerTokens, TypeOK, FinishAdoption, Register, Stages, dbVars
  <2>7. CASE CloseEvent(c)
    BY <2>7 DEF Shapes, HandlerTokens, TypeOK, CloseEvent, Free, Stages, dbVars
  <2> QED BY <1>1, <2>1, <2>2, <2>3, <2>4, <2>5, <2>6, <2>7 DEF Upgrade
<1>2. ASSUME NEW c \in Conn, Rotate(c) PROVE Shapes'
  <2>1. ASSUME NEW t \in Token, ReceiveRotate(c, t) PROVE Shapes'
    <3>1. mint' \in [Conn -> Mint]
      BY <2>1 DEF Shapes, HandlerTokens, TypeOK, ReceiveRotate, Cancelled, Mint
    <3> QED
      BY <2>1, <3>1, FlagShapes
      DEF Shapes, HandlerTokens, TypeOK, ReceiveRotate, CancelPending, NoPending
  <2>2. CASE RefuseRotate(c)
    BY <2>2, ReplyShapes DEF Shapes, HandlerTokens, TypeOK, RefuseRotate, dbVars, memoryVars
  <2>3. CASE StoreToken(c)
    <3>1. [mint[c] EXCEPT !.step = "stored", !.cancelled = {}] \in Mint
      BY DEF Shapes, TypeOK, Mint
    <3>2. mint' \in [Conn -> Mint]
      BY <2>3, <3>1 DEF Shapes, TypeOK, StoreToken
    <3>3. row' \in [Token -> {"unused", "minted", "live", "revoked"}]
      BY <2>3 DEF Shapes, TypeOK, StoreToken, Revoked
    <3> QED
      BY <2>3, <3>2, <3>3 DEF Shapes, HandlerTokens, TypeOK, StoreToken, Mint
  <2>4. CASE FailMint(c)
    <3>1. client' \in Client
      BY <2>4, ReplyShapes DEF Shapes, TypeOK, FailMint, Replying
    <3>2. row' \in [Token -> {"unused", "minted", "live", "revoked"}]
      BY <2>4 DEF Shapes, TypeOK, FailMint, Revoked
    <3> QED
      BY <2>4, <3>1, <3>2 DEF Shapes, HandlerTokens, TypeOK, FailMint
  <2>5. CASE OfferToken(c)
    <3>1. mint[c].token \in Token /\ mint[c].replaces \in Token
      BY <2>5 DEF Shapes, HandlerTokens, OfferToken
    <3>2. client' \in Client
      BY <2>5, <3>1, ReplyShapes DEF Shapes, TypeOK, OfferToken, Replying
    <3> QED
      BY <2>5, <3>1, <3>2 DEF Shapes, HandlerTokens, TypeOK, OfferToken, dbVars
  <2> QED BY <1>2, <2>1, <2>2, <2>3, <2>4, <2>5 DEF Rotate
<1>3. CASE Expiry
  <2>1. ASSUME NEW t \in Token, Elapse(t) PROVE Shapes'
    BY <2>1 DEF Shapes, HandlerTokens, TypeOK, Elapse, memoryVars
  <2>2. ASSUME NEW t \in Token, RotationExpires(t) PROVE Shapes'
    BY <2>2 DEF Shapes, HandlerTokens, TypeOK, RotationExpires, dbVars
  <2>3. ASSUME NEW t \in Token, RevokeExpired(t) PROVE Shapes'
    BY <2>3 DEF Shapes, HandlerTokens, TypeOK, RevokeExpired, Revoked
  <2>4. CASE Prune
    BY <2>4 DEF Shapes, HandlerTokens, TypeOK, Prune, Revoked, memoryVars
  <2>5. CASE MinuteElapses
    BY <2>5 DEF Shapes, HandlerTokens, TypeOK, MinuteElapses, dbVars
  <2> QED BY <1>3, <2>1, <2>2, <2>3, <2>4, <2>5 DEF Expiry
<1>4. CASE OwnerActs
  <2>1. CASE RequestRevoke
    BY <2>1 DEF Shapes, HandlerTokens, TypeOK, RequestRevoke, Owner, dbVars
  <2>2. CASE CommitRevoke
    BY <2>2, FlagShapes
    DEF Shapes, HandlerTokens, TypeOK, CommitRevoke, DropExecutor, CancelPending, NoPending, Cancelled, Owner
  <2>3. CASE FinishRevoke
    BY <2>3 DEF Shapes, HandlerTokens, TypeOK, FinishRevoke, Revoked, Owner
  <2>4. CASE FailRequest
    BY <2>4 DEF Shapes, HandlerTokens, TypeOK, FailRequest, Owner, dbVars
  <2>5. ASSUME NEW t \in Token, CommitRegistration(t) PROVE Shapes'
    BY <2>5, FlagShapes
    DEF Shapes, HandlerTokens, TypeOK, CommitRegistration, CancelPending, NoPending, Cancelled, Owner
  <2>6. CASE FinishRegistration
    BY <2>6 DEF Shapes, HandlerTokens, TypeOK, FinishRegistration, Revoked, Owner
  <2> QED BY <1>4, <2>1, <2>2, <2>3, <2>4, <2>5, <2>6 DEF OwnerActs
<1>5. CASE Daemon
  <2>1. ASSUME NEW c \in Conn, Connect(c) PROVE Shapes'
    <3>1. client' \in Client
      BY <2>1 DEF Shapes, TypeOK, Connect, Client
    <3> QED
      BY <2>1, <3>1 DEF Shapes, HandlerTokens, TypeOK, Connect, Stages, dbVars
  <2>2. CASE Opened
    BY <2>2 DEF Shapes, HandlerTokens, TypeOK, Opened, Client, dbVars, memoryVars
  <2>3. CASE AskRotation
    BY <2>3 DEF Shapes, HandlerTokens, TypeOK, AskRotation, Client, dbVars, memoryVars
  <2>4. CASE RotationTimesOut
    BY <2>4 DEF Shapes, HandlerTokens, TypeOK, RotationTimesOut, Client, dbVars, memoryVars
  <2>5. CASE SaveRotatedToken
    <3>1. Head(client.replies) \in Token
      BY <2>5, ReceivedShapes DEF Shapes, TypeOK, SaveRotatedToken, HasReply, IsToken
    <3>2. client' \in Client
      BY <2>5 DEF SaveRotatedToken, Client
    <3> QED
      BY <2>5, <3>1, <3>2
      DEF Shapes, HandlerTokens, TypeOK, SaveRotatedToken, dbVars, memoryVars
  <2>6. CASE FailRotation
    BY <2>6, ReceivedShapes
    DEF Shapes, HandlerTokens, TypeOK, FailRotation, HasReply, dbVars, memoryVars
  <2>7. CASE IgnoreRotatedToken
    BY <2>7, ReceivedShapes
    DEF Shapes, HandlerTokens, TypeOK, IgnoreRotatedToken, HasReply, dbVars, memoryVars
  <2>8. CASE Closed
    BY <2>8 DEF Shapes, HandlerTokens, TypeOK, Closed, Client, dbVars, memoryVars
  <2> QED BY <1>5, <2>1, <2>2, <2>3, <2>4, <2>5, <2>6, <2>7, <2>8 DEF Daemon
<1>6. CASE Faults
  <2>1. CASE NetworkLoss
    BY <2>1 DEF Shapes, HandlerTokens, TypeOK, NetworkLoss, Client, dbVars, memoryVars
  <2>2. CASE ExecutorRestarts
    BY <2>2 DEF Shapes, HandlerTokens, TypeOK, ExecutorRestarts, Client, dbVars, memoryVars
  <2>3. CASE RelayRestarts
    BY <2>3 DEF Shapes, HandlerTokens, TypeOK, RelayRestarts, NoPending, Stages, Mint, Owner,
                Client, dbVars
  <2> QED BY <1>6, <2>1, <2>2, <2>3 DEF Faults
<1>7. CASE UNCHANGED vars
  BY <1>7 DEF Shapes, HandlerTokens, TypeOK, vars
<1> QED BY <1>1, <1>2, <1>3, <1>4, <1>5, <1>6, <1>7 DEF Next, Unattended

\* Shapes is inductive.
LEMMA ShapesInvariant == Spec => []Shapes
<1>1. Init => Shapes
  <2> SUFFICES ASSUME Init PROVE Shapes
    OBVIOUS
  <2> USE ConstantsAssumption, IdleShapes
  <2>1. /\ mint \in [Conn -> Mint] /\ \A c \in Conn : mint[c].step = "none"
        /\ owner \in Owner /\ owner.step = "none"
        /\ client \in Client
    BY DEF Init
  <2>2. /\ stage \in [Conn -> Stages] /\ \A c \in Conn : stage[c] = "free"
        /\ disk \in [token : Token, previous : Token \cup {NoToken}]
    BY DEF Init, Stages
  <2> QED
    BY <2>1, <2>2 DEF Init, Shapes, HandlerTokens, TypeOK, NoPending
<1>2. Shapes /\ [Next]_vars => Shapes'
  BY ShapesStep
<1> QED BY <1>1, <1>2, PTL DEF Spec

\* Every variable always has its type.
THEOREM TypeCorrect == Spec => []TypeOK
<1>1. Shapes => TypeOK
  BY DEF Shapes
<1> QED BY <1>1, ShapesInvariant, PTL

-----------------------------------------------------------------------------
(* The steps of the relay *)

\* A step either leaves the relay and its database alone or is one of these.
LEMMA RelaySteps ==
  ASSUME [Next]_vars
  PROVE  \/ UNCHANGED <<dbVars, memoryVars>>
         \/ \E c \in Conn : Connect(c) \/ Upgrade(c)
         \/ \E c \in Conn, t \in Token : ReceiveRotate(c, t)
         \/ \E c \in Conn : StoreToken(c) \/ FailMint(c) \/ OfferToken(c)
         \/ Expiry \/ OwnerActs \/ RelayRestarts
<1>1. CASE Daemon
  BY <1>1
  DEF Daemon, Opened, AskRotation, RotationTimesOut, SaveRotatedToken, FailRotation,
      IgnoreRotatedToken, Closed
<1>2. CASE Faults
  BY <1>2 DEF Faults, NetworkLoss, ExecutorRestarts
<1>3. ASSUME NEW c \in Conn, Rotate(c)
      PROVE  \/ UNCHANGED <<dbVars, memoryVars>>
             \/ \E t \in Token : ReceiveRotate(c, t)
             \/ StoreToken(c) \/ FailMint(c) \/ OfferToken(c)
  BY <1>3 DEF Rotate, RefuseRotate
<1>4. CASE UNCHANGED vars
  BY <1>4 DEF vars, dbVars, memoryVars
<1> QED BY <1>1, <1>2, <1>3, <1>4 DEF Next, Unattended

-----------------------------------------------------------------------------
(* One rotation at a time *)

Minting(c) == mint[c].step # "none"

\* While handleRotateToken runs on one connection, the minute after the
\* request has not passed, it runs on no other and nothing is pending.
OneRotation ==
  /\ \A c \in Conn : Minting(c) => recent
  /\ \A c, d \in Conn : Minting(c) /\ Minting(d) => c = d
  /\ \A c \in Conn, t \in Token : Minting(c) => pending[t] = NoToken
  /\ \A c \in Conn : ~Minting(c) => mint[c] = NoMint
  /\ OnePendingRotation

\* The rate limit keeps the rotations apart in every step.
LEMMA OneRotationStep ==
  ASSUME Shapes, OneRotation, [Next]_vars
  PROVE  OneRotation'
<1> USE IdleShapes, ConstantsAssumption DEF Minting
<1>1. CASE UNCHANGED <<dbVars, memoryVars>>
  BY <1>1 DEF OneRotation, OnePendingRotation, dbVars, memoryVars
<1>2. ASSUME NEW c \in Conn, Connect(c) \/ Upgrade(c) PROVE OneRotation'
  <2>1. CASE CompleteUpgrade(c)
    BY <2>1 DEF Shapes, TypeOK, OneRotation, OnePendingRotation, CompleteUpgrade
  <2>2. CASE UNCHANGED <<pending, recent, mint>>
    BY <2>2 DEF OneRotation, OnePendingRotation
  <2> QED
    BY <1>2, <2>1, <2>2
    DEF Connect, Upgrade, RefuseUpgrade, LookupToken, CommitAdoption, FailAdoption,
        FinishAdoption, CloseEvent
<1>3. ASSUME NEW c \in Conn, NEW t \in Token, ReceiveRotate(c, t) PROVE OneRotation'
  BY <1>3
  DEF Shapes, TypeOK, OneRotation, OnePendingRotation, ReceiveRotate, RotateAllowed,
      CancelPending, NoPending
<1>4. ASSUME NEW c \in Conn, StoreToken(c) PROVE OneRotation'
  BY <1>4 DEF Shapes, TypeOK, OneRotation, OnePendingRotation, StoreToken, Mint
<1>5. ASSUME NEW c \in Conn, FailMint(c) PROVE OneRotation'
  BY <1>5 DEF Shapes, TypeOK, OneRotation, OnePendingRotation, FailMint
<1>6. ASSUME NEW c \in Conn, OfferToken(c) PROVE OneRotation'
  BY <1>6 DEF Shapes, TypeOK, OneRotation, OnePendingRotation, OfferToken
<1>7. CASE Expiry
  <2>1. ASSUME NEW t \in Token, RotationExpires(t) PROVE OneRotation'
    BY <2>1 DEF Shapes, TypeOK, OneRotation, OnePendingRotation, RotationExpires
  <2>2. CASE MinuteElapses
    BY <2>2 DEF OneRotation, OnePendingRotation, MinuteElapses
  <2>3. CASE UNCHANGED <<pending, recent, mint>>
    BY <2>3 DEF OneRotation, OnePendingRotation
  <2> QED
    BY <1>7, <2>1, <2>2, <2>3 DEF Expiry, Elapse, RevokeExpired, Prune, memoryVars
<1>8. CASE OwnerActs
  <2>1. CASE CancelPending /\ UNCHANGED <<recent, mint>>
    BY <2>1 DEF OneRotation, OnePendingRotation, CancelPending, NoPending
  <2>2. CASE UNCHANGED <<pending, recent, mint>>
    BY <2>2 DEF OneRotation, OnePendingRotation
  <2> QED
    BY <1>8, <2>1, <2>2
    DEF OwnerActs, RequestRevoke, CommitRevoke, DropExecutor, FinishRevoke, FailRequest,
        CommitRegistration, FinishRegistration
<1>9. CASE RelayRestarts
  BY <1>9 DEF OneRotation, OnePendingRotation, RelayRestarts, NoPending
<1> QED BY <1>1, <1>2, <1>3, <1>4, <1>5, <1>6, <1>7, <1>8, <1>9, RelaySteps

\* OneRotation is an invariant.
LEMMA OneRotationInvariant == Spec => []OneRotation
<1>1. Init => OneRotation
  BY IdleShapes DEF Init, OneRotation, OnePendingRotation, Minting, NoPending
<1>2. Shapes /\ OneRotation /\ [Next]_vars => OneRotation'
  BY OneRotationStep
<1> QED BY <1>1, <1>2, ShapesInvariant, PTL DEF Spec

\* However the awaits of handleRotateToken, adoptions and cancellations
\* interleave, at most one rotation of the executor is pending.
THEOREM PendingRotationIsUnique == Spec => []OnePendingRotation
<1>1. OneRotation => OnePendingRotation
  BY DEF OneRotation
<1> QED BY <1>1, OneRotationInvariant, PTL

-----------------------------------------------------------------------------
(* The rows handlers rely on *)

\* The token has been given out: its row is stored and never leaves Used.
Used(t) == row[t] \in {"live", "revoked"}

Owned == owner.step \in {"revoke", "registered"}

\* A revocation of the token is under way.
Dying(t) ==
  t \in revoking \/ t \in owner.cancelled \/ \E c \in Conn : t \in mint[c].cancelled

\* Every token some handler, map entry or request refers to has its row; the
\* value being stored has not, and no row without a life has an expiry.
Rows ==
  /\ Used(current)
  /\ \A t \in Token : ~Used(t) => expiry[t] = "never"
  /\ \A t \in Token : pending[t] # NoToken => Used(t) /\ Used(pending[t])
  /\ \A c \in Conn : stage[c] \notin {"free", "lookup"} => Used(bearer[c])
  /\ \A c \in Conn : captured[c] # NoToken => Used(captured[c])
  /\ \A c \in Conn : Minting(c) => Used(mint[c].replaces)
  /\ \A c \in Conn : mint[c].step = "storing" => row[mint[c].token] = "minted"
  /\ \A c \in Conn : mint[c].step = "stored" => Used(mint[c].token)
  /\ Owned => Used(owner.token)
  /\ \A t \in Token : Dying(t) => Used(t)

\* No step takes a stored row back.
LEMMA UsedStays ==
  ASSUME Shapes, [Next]_vars, NEW t \in Token, Used(t)
  PROVE  Used(t)'
<1> USE DEF Shapes, TypeOK, Used
<1>1. CASE UNCHANGED row
  BY <1>1
<1>2. ASSUME NEW c \in Conn, CommitAdoption(c) PROVE Used(t)'
  BY <1>2 DEF CommitAdoption
<1>3. ASSUME NEW c \in Conn, NEW s \in Token, ReceiveRotate(c, s) PROVE Used(t)'
  BY <1>3 DEF ReceiveRotate
<1>4. ASSUME NEW c \in Conn, StoreToken(c) \/ FailMint(c) PROVE Used(t)'
  BY <1>4 DEF StoreToken, FailMint, Revoked
<1>5. CASE Expiry
  BY <1>5 DEF Expiry, Elapse, RotationExpires, RevokeExpired, Prune, MinuteElapses, Revoked, dbVars
<1>6. CASE OwnerActs
  BY <1>6
  DEF OwnerActs, RequestRevoke, CommitRevoke, FinishRevoke, FailRequest, CommitRegistration,
      FinishRegistration, Revoked, dbVars
<1>7. ASSUME NEW c \in Conn, Connect(c) \/ Upgrade(c) PROVE Used(t)'
  BY <1>1, <1>2, <1>7
  DEF Connect, Upgrade, RefuseUpgrade, LookupToken, CompleteUpgrade, FailAdoption,
      FinishAdoption, CloseEvent, dbVars
<1> QED
  BY <1>1, <1>2, <1>3, <1>4, <1>5, <1>6, <1>7, RelaySteps DEF OfferToken, RelayRestarts, dbVars

\* Every step leaves Rows intact.
LEMMA RowsStep ==
  ASSUME Shapes, OneRotation, Rows, [Next]_vars
  PROVE  Rows'
<1> USE IdleShapes, ConstantsAssumption DEF Minting, Owned
<1>0. \A t \in Token : Used(t) => Used(t)'
  BY UsedStays
<1>1. CASE UNCHANGED <<dbVars, memoryVars>>
  BY <1>1 DEF Rows, Used, Dying, dbVars, memoryVars
<1>2. ASSUME NEW c \in Conn, Connect(c) \/ Upgrade(c) PROVE Rows'
  <2>1. CASE Connect(c)
    BY <2>1 DEF Shapes, TypeOK, Rows, Used, Dying, Connect, dbVars
  <2>2. CASE RefuseUpgrade(c) \/ FailAdoption(c) \/ CloseEvent(c)
    BY <2>2
    DEF Shapes, TypeOK, Rows, Used, Dying, RefuseUpgrade, FailAdoption, CloseEvent, Free, dbVars
  <2>3. CASE LookupToken(c)
    BY <2>3
    DEF Shapes, TypeOK, HandlerTokens, Rows, Used, Dying, LookupToken, Authenticates, dbVars
  <2>4. CASE CompleteUpgrade(c)
    BY <2>4 DEF Shapes, TypeOK, Rows, Used, Dying, CompleteUpgrade, Register, dbVars
  <2>5. CASE CommitAdoption(c)
    BY <2>5
    DEF Shapes, TypeOK, HandlerTokens, Rows, Used, Dying, CommitAdoption, MadePermanent
  <2>6. CASE FinishAdoption(c)
    BY <2>6 DEF Shapes, TypeOK, Rows, Used, Dying, FinishAdoption, Register, dbVars
  <2> QED BY <1>2, <2>1, <2>2, <2>3, <2>4, <2>5, <2>6 DEF Upgrade
<1>3. ASSUME NEW c \in Conn, NEW t \in Token, ReceiveRotate(c, t) PROVE Rows'
  BY <1>3
  DEF Shapes, TypeOK, HandlerTokens, OneRotation, Rows, Used, Dying, ReceiveRotate,
      RotateAllowed, CancelPending, NoPending, Cancelled
<1>4. ASSUME NEW c \in Conn, StoreToken(c) PROVE Rows'
  BY <1>0, <1>4
  DEF Shapes, TypeOK, HandlerTokens, OneRotation, Rows, Used, Dying, StoreToken, Revoked, Mint
<1>5. ASSUME NEW c \in Conn, FailMint(c) PROVE Rows'
  BY <1>0, <1>5
  DEF Shapes, TypeOK, HandlerTokens, OneRotation, Rows, Used, Dying, FailMint, Revoked, NoMint
<1>6. ASSUME NEW c \in Conn, OfferToken(c) PROVE Rows'
  BY <1>6
  DEF Shapes, TypeOK, HandlerTokens, OneRotation, Rows, Used, Dying, OfferToken, NoMint, dbVars
<1>7. CASE Expiry
  <2>1. ASSUME NEW t \in Token, Elapse(t) PROVE Rows'
    BY <2>1 DEF Shapes, TypeOK, Rows, Used, Dying, Elapse, memoryVars
  <2>2. ASSUME NEW t \in Token, RotationExpires(t) PROVE Rows'
    BY <2>2 DEF Shapes, TypeOK, Rows, Used, Dying, RotationExpires, TimerDue, dbVars
  <2>3. ASSUME NEW t \in Token, RevokeExpired(t) PROVE Rows'
    BY <1>0, <2>3 DEF Shapes, TypeOK, HandlerTokens, Rows, Used, Dying, RevokeExpired, Revoked
  <2>4. CASE Prune
    BY <1>0, <2>4 DEF Shapes, TypeOK, HandlerTokens, Rows, Used, Dying, Prune, Revoked, memoryVars
  <2>5. CASE MinuteElapses
    BY <2>5 DEF Rows, Used, Dying, MinuteElapses, dbVars
  <2> QED BY <1>7, <2>1, <2>2, <2>3, <2>4, <2>5 DEF Expiry
<1>8. CASE OwnerActs
  <2>1. CASE RequestRevoke
    BY <2>1 DEF Rows, Used, Dying, RequestRevoke, NoOwner, dbVars
  <2>2. CASE CommitRevoke
    BY <2>2
    DEF Shapes, TypeOK, HandlerTokens, Rows, Used, Dying, CommitRevoke, DropExecutor,
        CancelPending, NoPending, Cancelled
  <2>3. CASE FinishRevoke \/ FinishRegistration
    BY <1>0, <2>3
    DEF Shapes, TypeOK, HandlerTokens, Rows, Used, Dying, FinishRevoke, FinishRegistration,
        Revoked, NoOwner
  <2>4. CASE FailRequest
    BY <2>4 DEF Rows, Used, Dying, FailRequest, NoOwner, dbVars
  <2>5. ASSUME NEW t \in Token, CommitRegistration(t) PROVE Rows'
    <3>1. /\ row' = [row EXCEPT ![current] = "revoked", ![t] = "live"] /\ current' = t
          /\ expiry' = expiry
          /\ pending' = NoPending
          /\ UNCHANGED <<stage, bearer, captured, mint, revoking>>
      BY <2>5 DEF CommitRegistration, CancelPending
    <3>2. /\ owner'.token = t
          /\ \A u \in Token : u \in owner'.cancelled => pending[u] # NoToken
      BY <2>5 DEF CommitRegistration, Cancelled
    <3>3. \A u \in Token : Dying(u)' => Used(u)'
      BY <1>0, <3>1, <3>2 DEF Rows, Dying
    <3>4. /\ Used(t)'
          /\ \A u \in Token : ~Used(u)' => ~Used(u) /\ row'[u] = row[u]
          /\ \A u \in Token : row[u] = "minted" => row'[u] = "minted"
      BY <2>5, <3>1 DEF Shapes, TypeOK, Rows, Used, CommitRegistration
    <3> QED
      BY <1>0, <3>1, <3>2, <3>3, <3>4 DEF Shapes, TypeOK, HandlerTokens, Rows, NoPending
  <2> QED BY <1>8, <2>1, <2>2, <2>3, <2>4, <2>5 DEF OwnerActs
<1>9. CASE RelayRestarts
  BY <1>9
  DEF Shapes, TypeOK, Rows, Used, Dying, RelayRestarts, NoPending, NoMint, NoOwner, dbVars
<1> QED BY <1>1, <1>2, <1>3, <1>4, <1>5, <1>6, <1>7, <1>8, <1>9, RelaySteps

\* Rows is an invariant.
LEMMA RowsInvariant == Spec => []Rows
<1>1. Init => Rows
  BY ConstantsAssumption
  DEF Init, Rows, Used, Dying, Minting, Owned, NoPending, NoMint, NoOwner
<1>2. Shapes /\ OneRotation /\ Rows /\ [Next]_vars => Rows'
  BY RowsStep
<1> QED BY <1>1, <1>2, ShapesInvariant, OneRotationInvariant, PTL DEF Spec

-----------------------------------------------------------------------------
(* Claims *)

\* The token is out of every path to an adoption: it is neither in use, nor
\* pending, nor being adopted.
Settled(t) ==
  /\ t # current
  /\ pending[t] = NoToken
  /\ \A c \in Conn : Adopting(c) => bearer[c] # t

\* A token that is dying, or only being minted, is settled; one being adopted
\* is neither the executor's token nor pending, and is adopted once.
Claims ==
  /\ ReferencedTokenNeverExpires
  /\ pending[current] = NoToken
  /\ \A c \in Conn : Adopting(c) => bearer[c] # current /\ pending[bearer[c]] = NoToken
  /\ \A c, d \in Conn : Adopting(c) /\ Adopting(d) /\ bearer[c] = bearer[d] => c = d
  /\ \A t \in Token : Dying(t) => Settled(t)
  /\ \A c \in Conn : Minting(c) => Settled(mint[c].token) /\ ~Dying(mint[c].token)

\* Every step leaves Claims intact.
LEMMA ClaimsStep ==
  ASSUME Shapes, OneRotation, Rows, Claims, [Next]_vars
  PROVE  Claims'
<1> USE IdleShapes, ConstantsAssumption
    DEF Minting, Adopting, Settled, Dying, ReferencedTokenNeverExpires
<1>1. CASE UNCHANGED <<dbVars, memoryVars>>
  BY <1>1 DEF Claims, dbVars, memoryVars
<1>2. ASSUME NEW c \in Conn, Connect(c) \/ Upgrade(c) PROVE Claims'
  <2>1. CASE Connect(c)
    BY <2>1 DEF Shapes, TypeOK, Claims, Connect, dbVars
  <2>2. CASE RefuseUpgrade(c) \/ FailAdoption(c) \/ CloseEvent(c)
    BY <2>2
    DEF Shapes, TypeOK, Claims, RefuseUpgrade, FailAdoption, CloseEvent, Free, dbVars
  <2>3. CASE LookupToken(c)
    BY <2>3 DEF Shapes, TypeOK, Claims, LookupToken, dbVars
  <2>4. CASE CompleteUpgrade(c) /\ Adopts(c)
    BY <2>4 DEF Shapes, TypeOK, HandlerTokens, Claims, CompleteUpgrade, Adopts, dbVars
  <2>5. CASE CompleteUpgrade(c) /\ ~Adopts(c)
    BY <2>5 DEF Shapes, TypeOK, Claims, CompleteUpgrade, Register, dbVars
  <2>6. CASE CommitAdoption(c)
    BY <2>6 DEF Shapes, TypeOK, HandlerTokens, Claims, CommitAdoption, MadePermanent
  <2>7. CASE FinishAdoption(c)
    BY <2>7 DEF Shapes, TypeOK, Claims, FinishAdoption, Register, dbVars
  <2> QED BY <1>2, <2>1, <2>2, <2>3, <2>4, <2>5, <2>6, <2>7 DEF Upgrade
<1>3. ASSUME NEW c \in Conn, NEW t \in Token, ReceiveRotate(c, t) PROVE Claims'
  <2>1. /\ pending' = NoPending
        /\ UNCHANGED <<expiry, current, stage, bearer, revoking, owner>>
        /\ \A d \in Conn : d # c => mint'[d] = mint[d]
        /\ mint'[c].token = t /\ mint'[c].cancelled = Cancelled
    BY <1>3 DEF Shapes, TypeOK, ReceiveRotate, CancelPending
  <2>2. \A d \in Conn : ~Minting(d)
    BY <1>3 DEF OneRotation, ReceiveRotate, RotateAllowed
  <2>3. ~Used(t)
    BY <1>3 DEF ReceiveRotate, Used
  <2>4. Settled(t) /\ ~Dying(t) /\ pending[t] = NoToken
    BY <2>3 DEF Rows
  <2>5. \A u \in Token : Dying(u)' => Dying(u) \/ pending[u] # NoToken
    BY <2>1 DEF Cancelled
  <2>6. \A u \in Token : Dying(u) \/ pending[u] # NoToken
                         => u # current /\ \A d \in Conn : Adopting(d) => bearer[d] # u
    BY DEF Claims
  <2>7. \A u \in Token : pending'[u] = NoToken
    BY <2>1 DEF NoPending
  <2>8. \A u \in Token : Dying(u)' => Settled(u)'
    BY <2>1, <2>5, <2>6, <2>7
  <2>9. Settled(t)' /\ ~Dying(t)'
    BY <2>1, <2>4, <2>5, <2>7
  <2> QED
    BY <2>1, <2>2, <2>7, <2>8, <2>9 DEF Shapes, TypeOK, HandlerTokens, Claims
<1>4. ASSUME NEW c \in Conn, StoreToken(c) PROVE Claims'
  <2>1. /\ UNCHANGED <<current, pending, stage, bearer, revoking, owner>>
        /\ \A d \in Conn : mint'[d].token = mint[d].token
        /\ \A d \in Conn : Minting(d)' <=> Minting(d)
        /\ \A d \in Conn : mint'[d].cancelled \subseteq mint[d].cancelled
    BY <1>4 DEF Shapes, TypeOK, StoreToken, Mint
  <2>2. expiry'[current] = "never"
    BY <1>4 DEF Shapes, TypeOK, StoreToken, Claims
  <2>3. \A u \in Token : Dying(u)' => Dying(u)
    BY <2>1
  <2>4. \A u \in Token : Settled(u)' <=> Settled(u)
    BY <2>1
  <2>5. \A d \in Conn : Minting(d) => mint[d].token \in Token
    BY DEF Shapes, HandlerTokens
  <2> QED BY <2>1, <2>2, <2>3, <2>4, <2>5 DEF Claims
<1>5. ASSUME NEW c \in Conn, FailMint(c) PROVE Claims'
  BY <1>5 DEF Shapes, TypeOK, HandlerTokens, Claims, FailMint, NoMint
<1>6. ASSUME NEW c \in Conn, OfferToken(c) PROVE Claims'
  BY <1>6 DEF Shapes, TypeOK, HandlerTokens, OneRotation, Claims, OfferToken, NoMint, dbVars
<1>7. CASE Expiry
  <2>1. ASSUME NEW t \in Token, Elapse(t) PROVE Claims'
    BY <2>1 DEF Shapes, TypeOK, Claims, Elapse, memoryVars
  <2>2. ASSUME NEW t \in Token, RotationExpires(t) PROVE Claims'
    BY <2>2 DEF Shapes, TypeOK, HandlerTokens, Claims, RotationExpires, TimerDue, dbVars
  <2>3. ASSUME NEW t \in Token, RevokeExpired(t) PROVE Claims'
    BY <2>3 DEF Shapes, TypeOK, Claims, RevokeExpired
  <2>4. CASE Prune
    BY <2>4 DEF Claims, Prune, memoryVars
  <2>5. CASE MinuteElapses
    BY <2>5 DEF Claims, MinuteElapses, dbVars
  <2> QED BY <1>7, <2>1, <2>2, <2>3, <2>4, <2>5 DEF Expiry
<1>8. CASE OwnerActs
  <2>1. CASE RequestRevoke \/ FinishRevoke \/ FinishRegistration \/ FailRequest
    <3>1. UNCHANGED <<expiry, current, pending, stage, bearer, mint, revoking>>
      BY <2>1 DEF RequestRevoke, FinishRevoke, FinishRegistration, FailRequest, dbVars
    <3>2. NoOwner.cancelled = {} /\ NoOwner \in Owner
      BY DEF NoOwner
    <3>3. owner' = NoOwner \/ owner' = [NoOwner EXCEPT !.step = "revoke", !.token = current]
      BY <2>1 DEF RequestRevoke, FinishRevoke, FinishRegistration, FailRequest
    <3>4. owner'.cancelled = {}
      BY <3>2, <3>3 DEF Owner
    <3> QED
      BY <3>1, <3>4 DEF Shapes, HandlerTokens, Claims
  <2>2. ASSUME pending' = NoPending, owner'.cancelled = Cancelled,
               UNCHANGED <<expiry, stage, bearer, mint, revoking>>,
               \/ current' = current
               \/ current' \in Token /\ row[current'] = "unused"
        PROVE  Claims'
    <3>1. \A u \in Token : Dying(u)' => Dying(u) \/ pending[u] # NoToken
      BY <2>2 DEF Cancelled
    <3>2. \A u \in Token : Dying(u) \/ pending[u] # NoToken
                           => u # current' /\ \A d \in Conn : Adopting(d) => bearer[d] # u
      BY <2>2 DEF Claims, Rows, Used
    <3>3. \A d \in Conn : Adopting(d) => bearer[d] \in Token /\ bearer[d] # current'
      BY <2>2 DEF Shapes, HandlerTokens, Claims, Rows, Used
    <3>4. expiry'[current'] = "never"
      BY <2>2 DEF Claims, Rows, Used
    <3>5. \A d \in Conn : Minting(d) => /\ mint[d].token \in Token
                                       /\ mint[d].token # current'
                                       /\ ~Dying(mint[d].token)
                                       /\ \A e \in Conn : Adopting(e) => bearer[e] # mint[d].token
                                       /\ pending[mint[d].token] = NoToken
      <4> SUFFICES ASSUME NEW d \in Conn, Minting(d)
                   PROVE  /\ mint[d].token \in Token
                          /\ mint[d].token # current'
        BY DEF Claims
      <4>1. mint[d].step \in {"storing", "stored"}
        BY DEF Shapes, TypeOK, Mint
      <4> QED
        BY <2>2, <4>1 DEF Shapes, HandlerTokens, Claims, Rows, Used
    <3> QED
      BY <2>2, <3>1, <3>2, <3>3, <3>4, <3>5
      DEF Shapes, TypeOK, Claims, NoPending
  <2>3. CASE CommitRevoke
    BY <2>2, <2>3 DEF CommitRevoke, DropExecutor, CancelPending
  <2>4. ASSUME NEW t \in Token, CommitRegistration(t) PROVE Claims'
    BY <2>2, <2>4 DEF CommitRegistration, CancelPending
  <2> QED BY <1>8, <2>1, <2>3, <2>4 DEF OwnerActs
<1>9. CASE RelayRestarts
  BY <1>9 DEF Shapes, TypeOK, Claims, RelayRestarts, NoPending, NoMint, NoOwner, dbVars
<1> QED BY <1>1, <1>2, <1>3, <1>4, <1>5, <1>6, <1>7, <1>8, <1>9, RelaySteps

\* Claims is an invariant.
LEMMA ClaimsInvariant == Spec => []Claims
<1>1. Init => Claims
  BY ConstantsAssumption
  DEF Init, Claims, Settled, Dying, Minting, Adopting, ReferencedTokenNeverExpires,
      NoPending, NoMint, NoOwner
<1>2. Shapes /\ OneRotation /\ Rows /\ Claims /\ [Next]_vars => Claims'
  BY ClaimsStep
<1> QED
  BY <1>1, <1>2, ShapesInvariant, OneRotationInvariant, RowsInvariant, PTL DEF Spec

\* The token an executor is registered with carries no expiry.
THEOREM ReferencedTokenIsPermanent == Spec => []ReferencedTokenNeverExpires
<1>1. Claims => ReferencedTokenNeverExpires
  BY DEF Claims
<1> QED BY <1>1, ClaimsInvariant, PTL

\* Two reconnects with the same new token never both adopt it, and a token
\* claimed or in use is not pending.
THEOREM RotationsAreClaimedOnce == Spec => []ClaimedOnce
<1>1. Claims => ClaimedOnce
  BY DEF Claims, ClaimedOnce
<1> QED BY <1>1, ClaimsInvariant, PTL

\* A revocation under way never hits the token in use or being adopted.
THEOREM LateRevocationsMissTheTokenInUse == Spec => []LateRevocationsAreHarmless
<1>1. ASSUME Shapes, Claims PROVE LateRevocationsAreHarmless
  <2>1. \A t \in Doomed : Dying(t)
    BY DEF Doomed, Dying
  <2>2. \A c \in Conn : Adopting(c) => bearer[c] \in Token
    BY <1>1 DEF Shapes, HandlerTokens, Adopting
  <2> QED
    BY <1>1, <2>1, <2>2 DEF Shapes, TypeOK, Claims, Settled, LateRevocationsAreHarmless
<1>2. Shapes /\ Claims => LateRevocationsAreHarmless
  BY <1>1
<1> QED BY <1>2, ShapesInvariant, ClaimsInvariant, PTL

\* Only the revocation the owner asked for takes the token an executor stays
\* on away from it.
LEMMA InPlaceStep ==
  ASSUME Shapes, Rows, Claims, [Next]_vars,
         current' = current, row[current] = "live", row'[current] # "live"
  PROVE  owner.step = "revoke"
<1> USE DEF Shapes, TypeOK
<1>1. ~Dying(current) /\ \A c \in Conn : Minting(c) => mint[c].token # current
  BY DEF Claims, Settled
<1>2. ASSUME NEW c \in Conn, Upgrade(c) PROVE FALSE
  <2>1. CASE CommitAdoption(c)
    BY <2>1 DEF CommitAdoption, Claims, Adopting
  <2> QED
    BY <1>2, <2>1
    DEF Upgrade, RefuseUpgrade, LookupToken, CompleteUpgrade, FailAdoption, FinishAdoption,
        CloseEvent, dbVars
<1>3. ASSUME NEW c \in Conn, NEW t \in Token, ReceiveRotate(c, t) PROVE FALSE
  BY <1>3 DEF ReceiveRotate
<1>4. ASSUME NEW c \in Conn, StoreToken(c) \/ FailMint(c) PROVE FALSE
  BY <1>1, <1>4 DEF StoreToken, FailMint, Revoked, Dying
<1>5. CASE Expiry
  BY <1>1, <1>5
  DEF Expiry, Elapse, RotationExpires, RevokeExpired, Prune, Orphans, MinuteElapses, Revoked,
      Dying, dbVars
<1>6. CASE OwnerActs
  BY <1>1, <1>6
  DEF OwnerActs, RequestRevoke, CommitRevoke, FinishRevoke, FailRequest, CommitRegistration,
      FinishRegistration, Revoked, Dying, dbVars
<1> QED
  BY <1>2, <1>3, <1>4, <1>5, <1>6, RelaySteps
  DEF Connect, OfferToken, RelayRestarts, dbVars

\* Expiry, prune, cancelled, failed and concurrent rotations never take the
\* token of an executor that stays on it.
THEOREM OnlyTheOwnerRevokes == Spec => OnlyTheOwnerRevokesInPlace
<1>1. Shapes /\ Rows /\ Claims /\ [Next]_vars
        => [current' = current /\ row[current] = "live" /\ row'[current] # "live"
              => owner.step = "revoke"]_vars
  BY InPlaceStep
<1> QED
  BY <1>1, ShapesInvariant, RowsInvariant, ClaimsInvariant, PTL
  DEF Spec, OnlyTheOwnerRevokesInPlace

=============================================================================
