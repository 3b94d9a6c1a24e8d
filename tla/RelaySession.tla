----------------------------- MODULE RelaySession -----------------------------
(***************************************************************************)
(* The CLI's sign-in: relay-session.yaml, the processes that refresh it    *)
(* under the lock file, sign in or log out, and the authorization servers  *)
(* that rotate its refresh token.                                          *)
(*                                                                         *)
(* A refresh token is the n-th of the chain that a sign-in began; a server *)
(* keeps one grant per user and client.  A process runs one command after  *)
(* another; it stands for as many invocations.                             *)
(*                                                                         *)
(* Left out: sessions without a refresh token or an issuer (both end as an *)
(* ended chain does), admin sign-ins (nothing is stored), URL checks.      *)
(***************************************************************************)
EXTENDS Naturals, LockFile

CONSTANTS
  Chain,         \* bound: sign-ins
  Issuer,        \* authorization servers
  MaxRefresh,    \* bound: refreshes of one chain
  MaxCommands,   \* bound: commands
  MaxCrashes,    \* bound: processes that die
  NoToken, NoIssuer

VARIABLES
  file,          \* the refresh token in relay-session.yaml
  fresh,         \* its access token is more than EXPIRY_SKEW_MS from expiring
  at,            \* where a process is in its command
  have,          \* the refresh token it has read or received
  pin,           \* the server that the session it read, or a login, holds it to
  to,            \* the authorization server it has discovered
  wire,          \* its refresh request on its way, which may outlive it
  newest,        \* of a chain: the number of its last token; 0 before the sign-in
  origin,        \* of a chain: the server that issued it
  ended,         \* chains that ended: revoked, expired, or a token used twice
  named,         \* the authorization server the relay names
  mislaid,       \* tokens used by a request whose answer was not kept
  commands, crashes

sessionVars == <<file, fresh, at, have, pin, to, wire>>
serverVars == <<newest, origin, ended, named>>
counters == <<mislaid, commands, crashes>>
vars == <<lockVars, sessionVars, serverVars, counters>>

Token == Chain \X (1..MaxRefresh)

ASSUME SessionAssumption ==
  /\ Chain # {} /\ Issuer # {} /\ NoIssuer \notin Issuer /\ NoToken \notin Token
  /\ MaxRefresh \in Nat \ {0} /\ MaxCommands \in Nat /\ MaxCrashes \in Nat

\* lock .. save, refused: in refreshSession; expired, failed: leaving it with
\* an error, done: without; discover: to sign in, poll, store: the device
\* flow; revoke, remove: a logout.
Points == {"idle", "lock", "asking", "asked", "save", "refused", "expired", "failed", "done",
           "discover", "poll", "store", "revoke", "remove"}

Live(t) == newest[t[1]] = t[2] /\ t[1] \notin ended
Spent(t) == t[2] < newest[t[1]]

\* Somebody has signed in; the access token has expired.
Init ==
  /\ LockInit
  /\ named = CHOOSE i \in Issuer : TRUE
  /\ LET c == CHOOSE c \in Chain : TRUE
     IN  /\ file = <<c, 1>>
         /\ newest = [d \in Chain |-> IF d = c THEN 1 ELSE 0]
         /\ origin = [d \in Chain |-> IF d = c THEN named ELSE NoIssuer]
  /\ fresh = FALSE
  /\ at = [p \in Process |-> "idle"]
  /\ have = [p \in Process |-> NoToken]
  /\ pin = [p \in Process |-> NoIssuer]
  /\ to = [p \in Process |-> NoIssuer]
  /\ wire = [p \in Process |-> NoToken]
  /\ ended = {} /\ mislaid = {} /\ commands = 0 /\ crashes = 0

-----------------------------------------------------------------------------
(* Helpers *)

Reaches(p, point) == at' = [at EXCEPT ![p] = point]
Begins(p, point) ==
  at[p] = "idle" /\ wire[p] = NoToken /\ commands < MaxCommands /\ commands' = commands + 1 /\ Reaches(p, point)

\* The command ends; what the process had in memory is gone.
Ends(p) ==
  /\ Reaches(p, "idle")
  /\ have' = [have EXCEPT ![p] = NoToken]
  /\ pin' = [pin EXCEPT ![p] = NoIssuer]
  /\ to' = [to EXCEPT ![p] = NoIssuer]

\* The callback of withLockFile returns or throws.
Returns(p, outcome) == Reaches(p, outcome) /\ Goes(p, "leave") /\ UNCHANGED <<lock, moved, stale, seen, mine>>

\* deleteRelaySession.
SessionDeleted == file' = NoToken /\ fresh' = FALSE

\* Mutant: whatever authorization server the relay names is accepted.
Unpinned(issuer) == TRUE

\* discoverAsterism with an expectedIssuer.
Named(issuer) == named = issuer

-----------------------------------------------------------------------------
(* getValidSession and refreshSession *)

Use(p) ==
  /\ file # NoToken /\ ~fresh
  /\ Begins(p, "lock")
  /\ Goes(p, "try")
  /\ have' = [have EXCEPT ![p] = file]
  /\ pin' = [pin EXCEPT ![p] = origin[file[1]]]
  /\ UNCHANGED <<lock, moved, stale, seen, mine, file, fresh, to, wire, serverVars, mislaid, crashes>>

\* The lock could not be had.
Unlocked(p) ==
  /\ at[p] = "lock" /\ At(p, "out")
  /\ Ends(p)
  /\ UNCHANGED <<lockVars, file, fresh, wire, serverVars, counters>>

\* Mutant: the session read before the lock is refreshed.
FirstRead(p) == [token |-> have[p], fresh |-> FALSE]

\* The session read again under the lock, which may have been refreshed meanwhile.
SecondRead(p) == [token |-> file, fresh |-> fresh]

Reread(p) ==
  /\ at[p] = "lock" /\ At(p, "held")
  /\ LET session == SecondRead(p)
     IN  \/ session.token = NoToken /\ Returns(p, "failed") /\ UNCHANGED have
         \/ session.fresh /\ Returns(p, "done") /\ UNCHANGED have
         \/ /\ session.token # NoToken /\ ~session.fresh
            /\ \/ session.token[1] \in ended /\ Returns(p, "expired") /\ UNCHANGED have
               \/ /\ Reaches(p, "asking")
                  /\ have' = [have EXCEPT ![p] = session.token]
                  /\ UNCHANGED lockVars
  /\ UNCHANGED <<file, fresh, pin, to, wire, serverVars, counters>>

\* Discovery, then the request; one action each, with the relay free to name
\* another server in between.
Discover(p) ==
  /\ at[p] = "asking"
  /\ IF Named(origin[have[p][1]])
     THEN /\ Reaches(p, "asked")
          /\ to' = [to EXCEPT ![p] = named]
          /\ wire' = [wire EXCEPT ![p] = have[p]]
          /\ UNCHANGED lockVars
     ELSE Returns(p, "failed") /\ UNCHANGED <<to, wire>>
  /\ UNCHANGED <<file, fresh, have, pin, serverVars, counters>>

\* A network error, a timeout, or an answer of no use: the request may still
\* arrive, its answer is lost.
RequestFails(p) ==
  /\ at[p] \in {"asking", "asked"}
  /\ Returns(p, "failed")
  /\ mislaid' = mislaid \cup IF at[p] = "asked" THEN {have[p]} ELSE {}
  /\ \/ UNCHANGED wire
     \/ wire' = [wire EXCEPT ![p] = NoToken]
  /\ UNCHANGED <<file, fresh, have, pin, to, serverVars, commands, crashes>>

\* writeRelaySession.
Save(p) ==
  /\ at[p] = "save"
  /\ file' = have[p] /\ fresh' = TRUE
  /\ Returns(p, "done")
  /\ UNCHANGED <<have, pin, to, wire, serverVars, counters>>

\* invalid_grant: whatever session the file holds by now is deleted.
Forget(p) ==
  /\ at[p] = "refused"
  /\ SessionDeleted
  /\ Returns(p, "expired")
  /\ UNCHANGED <<have, pin, to, wire, serverVars, counters>>

\* withLockFile has returned; an expired session is signed in again at a terminal.
Refreshed(p) ==
  /\ at[p] \in {"done", "failed", "expired"} /\ At(p, "out")
  /\ \/ Ends(p)
     \/ at[p] = "expired" /\ Reaches(p, "discover") /\ UNCHANGED <<have, pin, to>>
  /\ UNCHANGED <<lockVars, file, fresh, wire, serverVars, counters>>

-----------------------------------------------------------------------------
(* login, signIn and logout, which take no lock *)

\* With a session on disk, pinned to the server the relay names now, a new one
\* if its user accepts it.
Login(p) ==
  /\ Begins(p, "discover")
  /\ pin' = [pin EXCEPT ![p] = IF file = NoToken THEN NoIssuer ELSE named]
  /\ UNCHANGED <<lockVars, file, fresh, have, to, wire, serverVars, mislaid, crashes>>

StartDevice(p) ==
  /\ at[p] = "discover"
  /\ IF pin[p] = NoIssuer \/ Named(pin[p])
     THEN Reaches(p, "poll") /\ to' = [to EXCEPT ![p] = named] /\ UNCHANGED <<have, pin>>
     ELSE Ends(p)
  /\ UNCHANGED <<lockVars, file, fresh, wire, serverVars, counters>>

\* pollDeviceToken: the user has approved.
Approved(p) ==
  /\ at[p] = "poll"
  /\ \E c \in Chain :
       /\ newest[c] = 0
       /\ newest' = [newest EXCEPT ![c] = 1]
       /\ origin' = [origin EXCEPT ![c] = to[p]]
       /\ have' = [have EXCEPT ![p] = <<c, 1>>]
  /\ Reaches(p, "store")
  /\ UNCHANGED <<lockVars, file, fresh, pin, to, wire, ended, named, counters>>

\* Denied, expired, or an error that is not transient.
NotApproved(p) ==
  /\ at[p] = "poll"
  /\ Ends(p)
  /\ UNCHANGED <<lockVars, file, fresh, wire, serverVars, counters>>

Store(p) ==
  /\ at[p] = "store"
  /\ file' = have[p] /\ fresh' = TRUE
  /\ Ends(p)
  /\ UNCHANGED <<lockVars, wire, serverVars, counters>>

Logout(p) ==
  /\ file # NoToken
  /\ Begins(p, "revoke")
  /\ have' = [have EXCEPT ![p] = file]
  /\ UNCHANGED <<lockVars, file, fresh, pin, to, wire, serverVars, mislaid, crashes>>

\* Best effort: the server ends the chain, or nothing happens.
Revoke(p) ==
  /\ at[p] = "revoke"
  /\ \/ Named(origin[have[p][1]]) /\ ended' = ended \cup {have[p][1]}
     \/ UNCHANGED ended
  /\ Reaches(p, "remove")
  /\ UNCHANGED <<lockVars, file, fresh, have, pin, to, wire, newest, origin, named, counters>>

Remove(p) ==
  /\ at[p] = "remove"
  /\ SessionDeleted
  /\ Ends(p)
  /\ UNCHANGED <<lockVars, wire, serverVars, counters>>

-----------------------------------------------------------------------------
(* The authorization server, the relay, and time *)

\* A live token is rotated; a spent one is taken for stolen, which ends the
\* grant, that is all chains of the server; any other is refused.
Answer(p) ==
  /\ wire[p] # NoToken
  /\ wire' = [wire EXCEPT ![p] = NoToken]
  /\ \/ /\ Live(wire[p]) /\ wire[p][2] < MaxRefresh
        /\ newest' = [newest EXCEPT ![wire[p][1]] = @ + 1]
        /\ UNCHANGED ended
        /\ IF at[p] = "asked" THEN Reaches(p, "save") /\ have' = [have EXCEPT ![p] = <<@[1], @[2] + 1>>]
           ELSE UNCHANGED <<at, have>>
     \/ /\ ~Live(wire[p])
        /\ ended' = ended \cup IF Spent(wire[p]) THEN {c \in Chain : origin[c] = origin[wire[p][1]]} ELSE {}
        /\ IF at[p] = "asked" THEN Reaches(p, "refused") ELSE UNCHANGED at
        /\ UNCHANGED <<newest, have>>
  /\ UNCHANGED <<lockVars, file, fresh, pin, to, origin, named, counters>>

\* The user ends a grant, or its 30 days are over.
ChainEnds(c) ==
  /\ newest[c] > 0 /\ c \notin ended
  /\ ended' = ended \cup {c}
  /\ UNCHANGED <<lockVars, sessionVars, newest, origin, named, counters>>

RelayNames(i) ==
  /\ named' = i /\ i # named
  /\ UNCHANGED <<lockVars, sessionVars, newest, origin, ended, counters>>

AccessTokenExpires ==
  /\ fresh /\ fresh' = FALSE
  /\ UNCHANGED <<lockVars, file, at, have, pin, to, wire, serverVars, counters>>

LockGrowsOld(f) == Age(f) /\ UNCHANGED <<sessionVars, serverVars, counters>>

Crash(p) ==
  /\ at[p] # "idle" /\ crashes < MaxCrashes /\ crashes' = crashes + 1
  /\ LockCrash(p) /\ Ends(p)
  /\ mislaid' = mislaid \cup CASE at[p] = "asked" -> {have[p]}
                               [] at[p] = "save" -> {<<have[p][1], have[p][2] - 1>>}
                               [] OTHER -> {}
  /\ UNCHANGED <<file, fresh, wire, serverVars, commands>>

-----------------------------------------------------------------------------
LockCall(p) == LockStep(p) /\ UNCHANGED <<sessionVars, serverVars, counters>>
TimesOut(p) == GiveUp(p) /\ UNCHANGED <<sessionVars, serverVars, counters>>

Works(p) ==
  \/ LockCall(p) \/ Unlocked(p) \/ Reread(p) \/ Discover(p) \/ Save(p) \/ Forget(p) \/ Refreshed(p)
  \/ StartDevice(p) \/ Store(p) \/ Revoke(p) \/ Remove(p)

Next ==
  \/ \E p \in Process : Works(p) \/ Use(p) \/ TimesOut(p) \/ RequestFails(p) \/ Login(p) \/ Approved(p)
                          \/ NotApproved(p) \/ Logout(p) \/ Answer(p) \/ Crash(p)
  \/ \E c \in Chain : ChainEnds(c)
  \/ \E i \in Issuer : RelayNames(i)
  \/ \E f \in File : LockGrowsOld(f)
  \/ AccessTokenExpires

Spec == Init /\ [][Next]_vars

\* Programs run on, requests and codes time out, locks grow old.  Nobody has
\* to give up waiting for the lock.
Fairness ==
  /\ \A p \in Process : WF_vars(Works(p)) /\ WF_vars(RequestFails(p)) /\ WF_vars(NotApproved(p))
  /\ \A f \in File : WF_vars(LockGrowsOld(f))

FairSpec == Spec /\ Fairness

-----------------------------------------------------------------------------
(* Safety *)

\* Every variable has its type, and a process works on the session inside
\* the callback of withLockFile only.
TypeOK ==
  /\ LockTypeOK
  /\ file \in Token \cup {NoToken} /\ fresh \in BOOLEAN /\ (fresh => file # NoToken)
  /\ at \in [Process -> Points] /\ have \in [Process -> Token \cup {NoToken}]
  /\ pin \in [Process -> Issuer \cup {NoIssuer}] /\ to \in [Process -> Issuer \cup {NoIssuer}]
  /\ wire \in [Process -> Token \cup {NoToken}]
  /\ newest \in [Chain -> 0..MaxRefresh] /\ origin \in [Chain -> Issuer \cup {NoIssuer}]
  /\ ended \subseteq Chain /\ named \in Issuer /\ mislaid \subseteq Token
  /\ commands \in 0..MaxCommands /\ crashes \in 0..MaxCrashes
  /\ \A p \in Process : at[p] \in {"asking", "asked", "save", "refused"} => pc[p] = "held"

\* A refresh token is presented a second time only if the answer to its first
\* use was lost: two commands never spend the same one (session.ts:117-119,
\* refreshSession), whatever sign-ins and logouts happen beside them.
SpentOnlyOnce ==
  \A p \in Process : wire[p] # NoToken /\ Spent(wire[p]) => wire[p] \in mislaid \/ Abandoned

\* A refresh token is only sent to the server that issued it, whatever server
\* the relay names by then (session.ts:130-132).
SentToItsIssuer ==
  \A p \in Process : at[p] \in {"asked", "save"} => to[p] = origin[have[p][1]]

-----------------------------------------------------------------------------
(* Liveness *)

\* Every command ends, also behind a lock whose holder has died or which was
\* put back after its holder had left (file-lock.ts:10-12).
CommandsEnd == \A p \in Process : at[p] # "idle" ~> at[p] = "idle"

=============================================================================
