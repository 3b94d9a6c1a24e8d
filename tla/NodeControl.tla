---------------------------- MODULE NodeControl -----------------------------
(***************************************************************************)
(* The processes of one machine that share a node's credential: the daemon *)
(* with its connection to the relay, and commands of the CLI (`node        *)
(* rotate`, `node rename`) that ask the daemon over its control channel    *)
(* and connect to the relay themselves when it does not answer.            *)
(*                                                                         *)
(* The relay is reduced to what these clients see of it: a token           *)
(* authenticates or not, a connection displaces the one before it, a       *)
(* rotation is offered, refused, adopted or expires.  Its handlers are     *)
(* split at each await in TokenRotation, which also has its restarts and   *)
(* failures; here they take one step, at any time after the request.       *)
(* A read and a write of node.yaml in one turn of a process take one step. *)
(***************************************************************************)
EXTENDS Integers, Sequences, FiniteSets

CONSTANTS
  Token,      \* executor tokens
  First,      \* the token of the registration
  Cli,        \* commands of the CLI, one process each
  Daemon,     \* the daemon's process
  Commands,   \* per command, what it may be: a subset of {"rotate", "rename"}
  NoToken, NoCli,
  MaxStops    \* bound: how often the daemon stops

Proc == Cli \cup {Daemon}

ASSUME ControlAssumption ==
  /\ First \in Token /\ NoToken \notin Token
  /\ Daemon \notin Cli /\ NoCli \notin Cli
  /\ Commands \in [Cli -> SUBSET {"rotate", "rename"}]
  /\ MaxStops \in Nat

VARIABLES
  current,   \* relay: the token the executor's row references
  row,       \* relay: the rows of the tokens
  pending,   \* relay: pendingRotations, per new token the one it displaces
  claim,     \* relay: adoptions being committed, per new token the one it displaces
  recent,    \* relay: a rotation was asked for less than a minute ago
  handling,  \* relay: messages being handled
  ws,        \* per process, its socket to the relay
  inbox,     \* per process, what the relay has sent it
  yaml,      \* node.yaml: node_token and previous_node_token
  daemon,    \* the daemon: up, its control channel, its rotationState and updateHostState
  cli,       \* the commands
  lapsed,    \* a token of node.yaml has expired before it was adopted (history)
  stops      \* stops of the daemon so far (bounded)

relay       == <<current, row, pending, claim, recent>>
controlVars == <<relay, handling, ws, inbox, yaml, daemon, cli, lapsed, stops>>

Message == [proc : Proc, kind : {"rotate", "rename", "sync"}, token : Token, alive : BOOLEAN]
Reply   == [kind : {"token"}, token : Token] \cup [kind : {"refused", "named", "misnamed", "synced"}]
Ended   == {"done", "failed"}

ControlTypeOK ==
  /\ current \in Token
  /\ row \in [Token -> {"none", "live", "revoked"}]
  /\ pending \in [Token -> Token \cup {NoToken}]
  /\ claim \in [Token -> Token \cup {NoToken}]
  /\ recent \in BOOLEAN
  /\ handling \subseteq Message
  /\ ws \in [Proc -> [st : {"none", "adopting", "open", "lost"}, token : Token \cup {NoToken}]]
  /\ inbox \in [Proc -> Seq(Reply)]
  /\ yaml \in [token : Token, prev : Token \cup {NoToken}]
  /\ daemon \in [up : BOOLEAN, reachable : BOOLEAN, rot : {"idle", "asked", "awaiting"},
                 asker : Cli \cup {NoCli}, naming : Cli \cup {NoCli}]
  /\ cli \in [Cli -> [cmd : {"rotate", "rename"}, found : Token,
                      pc : {"start", "control", "direct", "asked", "confirm", "confirming"} \cup Ended]]
  /\ lapsed \in BOOLEAN
  /\ stops \in Nat

NoSocket == [st |-> "none", token |-> NoToken]
NotUp    == [up |-> FALSE, reachable |-> FALSE, rot |-> "idle", asker |-> NoCli, naming |-> NoCli]

ControlInit ==
  /\ current = First
  /\ row = [t \in Token |-> IF t = First THEN "live" ELSE "none"]
  /\ pending = [t \in Token |-> NoToken]
  /\ claim = [t \in Token |-> NoToken]
  /\ recent = FALSE
  /\ handling = {}
  /\ ws = [p \in Proc |-> NoSocket]
  /\ inbox = [p \in Proc |-> <<>>]
  /\ yaml = [token |-> First, prev |-> NoToken]
  /\ daemon = NotUp
  /\ \E cmd \in [Cli -> {"rotate", "rename"}] :
       /\ \A c \in Cli : cmd[c] \in Commands[c]
       /\ cli = [c \in Cli |-> [cmd |-> cmd[c], found |-> First, pc |-> "start"]]
  /\ lapsed = FALSE
  /\ stops = 0

-----------------------------------------------------------------------------
(* The relay, as its clients see it *)

\* The upgrade: the row is live and the executor's, or the map still holds it.
Authenticates(t) == t # NoToken /\ row[t] = "live" /\ (current = t \/ pending[t] # NoToken)

\* The relay has ended the sockets of S; their owners have yet to notice.
Evicted(S, sockets) == [p \in Proc |-> IF p \in S /\ sockets[p].st # "none"
                                       THEN [sockets[p] EXCEPT !.st = "lost"] ELSE sockets[p]]

\* What becomes of the messages of a socket that is gone: they are handled, not answered.
Orphaned(S) == {[m EXCEPT !.alive = @ /\ m.proc \notin S] : m \in handling}

\* p is connected with t: at once, with the messages m it sends as it opens, or once the
\* adoption it starts is committed; what arrives before that has no listener.
ConnectWith(p, t, m) ==
  IF pending[t] # NoToken
  THEN /\ ws' = [ws EXCEPT ![p] = [st |-> "adopting", token |-> t]]
       /\ pending' = [pending EXCEPT ![t] = NoToken]
       /\ claim' = [claim EXCEPT ![t] = pending[t]]
       /\ handling' = Orphaned({p})
       /\ UNCHANGED <<current, row, recent>>
  ELSE LET others == {q \in Proc \ {p} : ws[q].st = "open"} IN
       /\ ws' = Evicted(others, [ws EXCEPT ![p] = [st |-> "open", token |-> t]])
       /\ handling' = Orphaned(others \cup {p})
                        \cup {[proc |-> p, kind |-> k, token |-> t, alive |-> TRUE] : k \in m}
       /\ UNCHANGED relay

\* What a command sends as its connection opens.
Opening(c) == [proc |-> c, kind |-> IF cli[c].pc = "confirming" THEN "sync" ELSE cli[c].cmd,
               token |-> ws[c].token, alive |-> TRUE]

\* The adoption of t is committed; its connection is registered, be its socket there or not,
\* in place of any other.  What it sent as it opened arrives now or was lost.
FinishAdoption(t) ==
  LET mine   == {p \in Proc : ws[p] = [st |-> "adopting", token |-> t]}
      others == {q \in Proc : ws[q].st = "open"} IN
  /\ claim[t] # NoToken
  /\ claim' = [claim EXCEPT ![t] = NoToken]
  /\ current' = t
  /\ row' = [row EXCEPT ![claim[t]] = "revoked"]
  /\ ws' = [p \in Proc |-> IF p \in mine THEN [ws[p] EXCEPT !.st = "open"] ELSE Evicted(others, ws)[p]]
  /\ \E heard \in SUBSET (mine \cap Cli) : handling' = Orphaned(others) \cup {Opening(c) : c \in heard}
  /\ UNCHANGED <<pending, recent, inbox, yaml, daemon, cli, lapsed, stops>>

\* The handler of m has ended: it is answered if its socket is still there.
Answered(m, reply) ==
  /\ handling' = handling \ {m}
  /\ inbox' = IF m.alive THEN [inbox EXCEPT ![m.proc] = Append(@, reply)] ELSE inbox

Cancelled == {t \in Token : pending[t] # NoToken}

\* rotate_token: refused within a minute of the last one, else a new token is offered, in
\* place of any other that is on offer.
HandleRotate(m) ==
  /\ m.kind = "rotate"
  /\ \/ /\ recent
        /\ Answered(m, [kind |-> "refused"])
        /\ UNCHANGED relay
     \/ /\ ~recent
        /\ \E t \in Token :
             /\ row[t] = "none"
             /\ row' = [u \in Token |-> IF u = t THEN "live"
                                        ELSE IF u \in Cancelled THEN "revoked" ELSE row[u]]
             /\ pending' = [u \in Token |-> IF u = t THEN m.token ELSE NoToken]
             /\ Answered(m, [kind |-> "token", token |-> t])
        /\ recent' = TRUE
        /\ UNCHANGED <<current, claim>>
  /\ UNCHANGED <<ws, yaml, daemon, cli, lapsed, stops>>

\* update_host, for a name that is taken or not, and config_update.
HandleOther(m) ==
  /\ \/ m.kind = "rename" /\ \E k \in {"named", "misnamed"} : Answered(m, [kind |-> k])
     \/ m.kind = "sync" /\ Answered(m, [kind |-> "synced"])
  /\ UNCHANGED <<relay, ws, yaml, daemon, cli, lapsed, stops>>

\* The clients wait 30 s for a rotation in all, half a minute less than the relay remembers
\* it.  What was sent has arrived within the minute, or the pings have ended its connection;
\* an adoption that has begun is committed.
NobodyRotates ==
  /\ daemon.rot = "idle"
  /\ \A c \in Cli : cli[c].cmd = "rotate" => cli[c].pc \notin {"asked", "confirm", "confirming"}

MinuteElapses ==
  /\ recent /\ NobodyRotates
  /\ handling = {} /\ \A p \in Proc : inbox[p] = <<>>
  /\ \A t \in Token : claim[t] = NoToken
  /\ recent' = FALSE
  /\ UNCHANGED <<current, row, pending, claim, handling, ws, inbox, yaml, daemon, cli, lapsed, stops>>

\* The token on offer is the one of the last rotation, and lives for minutes after it.
RotationExpires(t) ==
  /\ pending[t] # NoToken /\ ~recent
  /\ pending' = [pending EXCEPT ![t] = NoToken]
  /\ row' = [row EXCEPT ![t] = "revoked"]
  /\ lapsed' = (lapsed \/ t \in {yaml.token, yaml.prev})
  /\ UNCHANGED <<current, claim, recent, handling, ws, inbox, yaml, daemon, cli, stops>>

-----------------------------------------------------------------------------
(* node.yaml *)

\* Mutant: the displaced token is not kept.
Replaced(t) == [token |-> t, prev |-> NoToken]
\* writeNodeToken: the displaced token is kept beside the new one.
Rotated(t) == [token |-> t, prev |-> yaml.token]

\* clearPreviousToken.
Confirmed == [yaml EXCEPT !.prev = NoToken]

-----------------------------------------------------------------------------
(* The daemon *)

\* The command c that waits on the control channel is answered; one that has given up is not.
Settled(c, pc) ==
  IF c # NoCli /\ cli[c].pc = "control" THEN [cli EXCEPT ![c].pc = pc] ELSE cli

DaemonStarts ==
  /\ ~daemon.up
  /\ daemon' = [NotUp EXCEPT !.up = TRUE]
  /\ UNCHANGED <<relay, handling, ws, inbox, yaml, cli, lapsed, stops>>

\* control.json is written once the control server listens, after the first connect.
DaemonListens ==
  /\ daemon.up /\ ~daemon.reachable
  /\ daemon' = [daemon EXCEPT !.reachable = TRUE]
  /\ UNCHANGED <<relay, handling, ws, inbox, yaml, cli, lapsed, stops>>

\* The process is gone.  A command that waits for its answer is told nothing.
DaemonStops ==
  /\ daemon.up /\ stops < MaxStops
  /\ stops' = stops + 1
  /\ daemon' = NotUp
  /\ ws' = [ws EXCEPT ![Daemon] = NoSocket]
  /\ inbox' = [inbox EXCEPT ![Daemon] = <<>>]
  /\ handling' = Orphaned({Daemon})
  /\ UNCHANGED <<relay, yaml, cli, lapsed>>

\* Mutant: any connect ends a rotation under way.
ConfirmsAny == daemon.rot # "idle"
\* awaitingRotationConfirm: the new token is written, and the next connect is with it.
Confirms == daemon.rot = "awaiting"

\* The daemon connects with the token of the file as it is now.  onOpen ends a rotation that
\* waits for this connect and drops the token it displaced.
DaemonConnects ==
  /\ daemon.up /\ ws[Daemon].st = "none" /\ Authenticates(yaml.token)
  /\ ConnectWith(Daemon, yaml.token, {})
  /\ IF Confirms
     THEN /\ yaml' = Confirmed
          /\ cli' = Settled(daemon.asker, "done")
          /\ daemon' = [daemon EXCEPT !.rot = "idle", !.asker = NoCli]
     ELSE UNCHANGED <<yaml, cli, daemon>>
  /\ UNCHANGED <<inbox, lapsed, stops>>

\* Its socket is lost, or the relay has ended it: the close event.
DaemonLosesSocket ==
  /\ daemon.up /\ ws[Daemon].st # "none"
  /\ ws[Daemon].st = "lost" \/ stops < MaxStops
  /\ stops' = IF ws[Daemon].st = "lost" THEN stops ELSE stops + 1
  /\ ws' = [ws EXCEPT ![Daemon] = NoSocket]
  /\ inbox' = [inbox EXCEPT ![Daemon] = <<>>]
  /\ handling' = Orphaned({Daemon})
  /\ UNCHANGED <<relay, yaml, daemon, cli, lapsed>>

\* token_rotated is only acted on as the answer to a rotate_token of its own.
AwaitsToken == daemon.rot = "asked"

DaemonReceives ==
  /\ daemon.up /\ inbox[Daemon] # <<>>
  /\ LET m == Head(inbox[Daemon]) IN
     \/ /\ m.kind = "token" /\ AwaitsToken
        /\ yaml' = Rotated(m.token)
        /\ daemon' = [daemon EXCEPT !.rot = "awaiting"]
        /\ ws' = [ws EXCEPT ![Daemon] = NoSocket]
        /\ inbox' = [inbox EXCEPT ![Daemon] = <<>>]
        /\ handling' = Orphaned({Daemon})
        /\ UNCHANGED cli
     \/ /\ m.kind # "token" \/ ~AwaitsToken
        /\ inbox' = [inbox EXCEPT ![Daemon] = Tail(@)]
        /\ CASE m.kind = "refused" ->
                  /\ cli' = Settled(daemon.asker, "failed")
                  /\ daemon' = [daemon EXCEPT !.rot = "idle", !.asker = NoCli]
             [] m.kind \in {"named", "misnamed"} ->
                  /\ cli' = Settled(daemon.naming, IF m.kind = "named" THEN "done" ELSE "failed")
                  /\ daemon' = [daemon EXCEPT !.naming = NoCli]
             [] OTHER -> UNCHANGED <<cli, daemon>>
        /\ UNCHANGED <<yaml, ws, handling>>
  /\ UNCHANGED <<relay, lapsed, stops>>

\* ROTATE_TIMEOUT_MS and CONTROL_OP_TIMEOUT_MS.
RotationTimesOut ==
  /\ daemon.up /\ daemon.rot # "idle"
  /\ cli' = Settled(daemon.asker, "failed")
  /\ daemon' = [daemon EXCEPT !.rot = "idle", !.asker = NoCli]
  /\ UNCHANGED <<relay, handling, ws, inbox, yaml, lapsed, stops>>

RenameTimesOut ==
  /\ daemon.up /\ daemon.naming # NoCli
  /\ cli' = Settled(daemon.naming, "failed")
  /\ daemon' = [daemon EXCEPT !.naming = NoCli]
  /\ UNCHANGED <<relay, handling, ws, inbox, yaml, lapsed, stops>>

-----------------------------------------------------------------------------
(* The commands *)

\* A command turns to the daemon, which has one rotation and one rename at a time.  What it
\* sends without an open socket is dropped, and what the relay does not listen to is lost.
AskDaemon(c) ==
  LET busy == IF cli[c].cmd = "rotate" THEN daemon.rot # "idle" ELSE daemon.naming # NoCli IN
  /\ cli[c].pc = "start" /\ daemon.reachable
  /\ cli' = [cli EXCEPT ![c].pc = IF busy THEN "failed" ELSE "control", ![c].found = yaml.token]
  /\ IF busy
     THEN UNCHANGED <<daemon, handling>>
     ELSE /\ daemon' = IF cli[c].cmd = "rotate"
                       THEN [daemon EXCEPT !.rot = "asked", !.asker = c]
                       ELSE [daemon EXCEPT !.naming = c]
          /\ handling' = IF ws[Daemon].st = "open"
                         THEN handling \cup {[proc |-> Daemon, kind |-> cli[c].cmd,
                                              token |-> ws[Daemon].token, alive |-> TRUE]}
                         ELSE handling
  /\ UNCHANGED <<relay, ws, inbox, yaml, lapsed, stops>>

\* No control file, nothing on its port.
NoDaemon(c) ==
  /\ cli[c].pc = "start" /\ ~daemon.reachable
  /\ cli' = [cli EXCEPT ![c].pc = "direct", ![c].found = yaml.token]
  /\ UNCHANGED <<relay, handling, ws, inbox, yaml, daemon, lapsed, stops>>

\* Mutant: the wait only ends with an answer.
NeverGivesUp(c) == FALSE
\* CONTROL_TIMEOUT_MS, whatever has become of the daemon; the rotate_token it sent for the
\* command has arrived by then or is lost.
GivesUp(c) ==
  /\ cli[c].pc = "control"
  /\ ~(daemon.asker = c /\ \E m \in handling : m.proc = Daemon /\ m.kind = "rotate" /\ m.alive)

ControlTimesOut(c) ==
  /\ GivesUp(c)
  /\ cli' = [cli EXCEPT ![c].pc = "direct"]
  /\ UNCHANGED <<relay, handling, ws, inbox, yaml, daemon, lapsed, stops>>

\* nodeControlCommand: a connection of its own, and the command as it opens.
Dial(c) ==
  /\ cli[c].pc = "direct" /\ Authenticates(yaml.token)
  /\ ConnectWith(c, yaml.token, {cli[c].cmd})
  /\ cli' = [cli EXCEPT ![c].pc = "asked"]
  /\ UNCHANGED <<inbox, yaml, daemon, lapsed, stops>>

\* A second connection, with the new token, confirms it.
DialAgain(c) ==
  /\ cli[c].pc = "confirm" /\ Authenticates(yaml.token)
  /\ ConnectWith(c, yaml.token, {"sync"})
  /\ cli' = [cli EXCEPT ![c].pc = "confirming"]
  /\ UNCHANGED <<inbox, yaml, daemon, lapsed, stops>>

\* The socket of c is closed by c itself, and what was on its way to it is gone.
HangUp(c) ==
  /\ ws' = [ws EXCEPT ![c] = NoSocket]
  /\ inbox' = [inbox EXCEPT ![c] = <<>>]
  /\ handling' = Orphaned({c})

\* The relay cannot be reached, or refuses the token; or 15 s are over.  The command's socket
\* has no close event: one that the relay has ended is waited for as long.
CommandFails(c) ==
  /\ cli[c].pc \in {"direct", "confirm", "asked", "confirming"}
  /\ HangUp(c)
  /\ cli' = [cli EXCEPT ![c].pc = "failed"]
  /\ UNCHANGED <<relay, yaml, daemon, lapsed, stops>>

CommandReceives(c) ==
  /\ cli[c].pc \in {"asked", "confirming"} /\ inbox[c] # <<>>
  /\ HangUp(c)
  /\ LET m == Head(inbox[c]) IN
     \/ /\ cli[c].pc = "asked" /\ m.kind = "token"
        /\ yaml' = Rotated(m.token)
        /\ cli' = [cli EXCEPT ![c].pc = "confirm"]
     \/ /\ cli[c].pc = "confirming" /\ m.kind = "synced"
        /\ yaml' = Confirmed
        /\ cli' = [cli EXCEPT ![c].pc = "done"]
     \/ /\ m.kind \in {"refused", "named", "misnamed"}
        /\ cli' = [cli EXCEPT ![c].pc = IF m.kind = "named" THEN "done" ELSE "failed"]
        /\ UNCHANGED yaml
  /\ UNCHANGED <<relay, daemon, lapsed, stops>>

-----------------------------------------------------------------------------
Relay ==
  \/ \E t \in Token : FinishAdoption(t) \/ RotationExpires(t)
  \/ \E m \in handling : HandleRotate(m) \/ HandleOther(m)
  \/ MinuteElapses

DaemonSteps ==
  \/ DaemonStarts \/ DaemonListens \/ DaemonStops
  \/ DaemonConnects \/ DaemonLosesSocket \/ DaemonReceives
  \/ RotationTimesOut \/ RenameTimesOut

Waits(c)   == ControlTimesOut(c) \/ CommandFails(c)
Command(c) == AskDaemon(c) \/ NoDaemon(c) \/ Dial(c) \/ DialAgain(c) \/ CommandReceives(c) \/ Waits(c)

ControlNext == Relay \/ DaemonSteps \/ \E c \in Cli : Command(c)

\* The timers of a command and of the daemon fire, and what a command can do it does.
ControlFairness ==
  /\ \A c \in Cli : WF_controlVars(Command(c))
  /\ WF_controlVars(RotationTimesOut) /\ WF_controlVars(RenameTimesOut)

ControlSpec == ControlInit /\ [][ControlNext]_controlVars /\ ControlFairness

-----------------------------------------------------------------------------
(* Properties *)

\* "node.yaml keeps both so the node is never left with only a dead credential"
\* (node.ts:311-314): whoever rotates, by which way, one of the two tokens of node.yaml is
\* live and known to the relay, or being adopted; but for a token that was not adopted in time.
NeverOnlyDead ==
  \/ lapsed
  \/ \E t \in {yaml.token, yaml.prev} \ {NoToken} : Authenticates(t) \/ claim[t] # NoToken

\* A rotation that reports success, by the daemon or by the command itself, has retired the
\* token the command found in node.yaml: the relay does not take it any more, or it is adopting
\* the token that is in the file instead (node.ts:294-330).
SuccessRetires ==
  [][\A c \in Cli, f \in Token :
       cli[c].cmd = "rotate" /\ cli[c].found = f /\ cli[c].pc # "done" /\ cli'[c].pc = "done"
         => ~Authenticates(f)' \/ (yaml'.token # f /\ claim'[yaml'.token] # NoToken)]_controlVars

\* Every command ends, whatever has become of the daemon it asked and of its own connection
\* (control-channel.ts:184, node.ts:725).
CommandsEnd == \A c \in Cli : <>(cli[c].pc \in Ended)

=============================================================================
