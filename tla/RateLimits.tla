----------------------------- MODULE RateLimits -----------------------------
(***************************************************************************)
(* The rate limits the relay keeps itself: the sliding windows in front of *)
(* /mcp and of the tools (router.ts, mcp.ts), those in front of an         *)
(* executor's upgrade, and the count of messages of one connection         *)
(* (hub.ts).                                                               *)
(*                                                                         *)
(* A window is an array of times per user, token or address.  The entries  *)
(* of different keys never meet, so the module follows one key of each     *)
(* map and one connection.  Calls are numbered in the order they are       *)
(* recorded; an array is the set of the numbers of the calls it still      *)
(* holds, its order their order.  The clock is Date.now(), taken to be     *)
(* monotone, between two starts of the relay (a start empties the maps).   *)
(***************************************************************************)
EXTENDS Integers, Sequences, FiniteSets

CONSTANTS
  Window,     \* RATE_WINDOW_MS, and the minute of the two upgrade limits
  Limit,      \* per limiter, the calls it admits in a window
  MsgWindow,  \* MSG_RATE_WINDOW_MS
  MsgMax,     \* MSG_RATE_MAX
  NoTime,     \* undefined
  MaxTime,    \* bound: the clock stops here
  MaxCalls    \* bound: calls and messages in all

\* The maps of router.ts record the calls they admit, those of hub.ts every attempt.
Admitting == {"mcp", "standard", "expensive"}
Attempts  == {"upgrade", "reconnect"}
Limiter   == Admitting \cup Attempts
Tools     == {"standard", "expensive"}

ASSUME RateAssumption ==
  /\ Window \in Nat \ {0} /\ MsgWindow \in Nat \ {0} /\ MsgMax \in Nat
  /\ Limit \in [Limiter -> Nat]
  /\ NoTime \notin Nat
  /\ MaxTime \in Nat /\ MaxCalls \in Nat

VARIABLES
  now,        \* the clock
  times,      \* per limiter, when each recorded call was made (history)
  held,       \* per limiter, the recorded calls its array still holds
  admitted,   \* per limiter, the recorded calls that were let through (history)
  refusedAt,  \* per limiter, when a call was refused (history)
  loggedAt,   \* rateLimitedLoggedAt
  events,     \* when a rate_limited event was written (history)
  msg,        \* the message count of the connection: [start, count]
  handled,    \* when each message that was handled arrived (history)
  open,       \* the connection has not been closed for its rate
  calls       \* calls and messages so far (bounded)

vars == <<now, times, held, admitted, refusedAt, loggedAt, events, msg, handled, open, calls>>

Calls(l) == 1..Len(times[l])

TypeOK ==
  /\ now \in Nat /\ calls \in Nat
  /\ times \in [Limiter -> Seq(Nat)]
  /\ held \in [Limiter -> SUBSET (Nat \ {0})]
  /\ admitted \in [Limiter -> SUBSET (Nat \ {0})]
  /\ \A l \in Limiter : held[l] \subseteq Calls(l) /\ admitted[l] \subseteq Calls(l)
  /\ refusedAt \in [Limiter -> SUBSET Nat]
  /\ loggedAt \in Nat \cup {NoTime}
  /\ events \in Seq(Nat)
  /\ msg \in [start : Nat, count : Nat]
  /\ handled \in Seq(Nat)
  /\ open \in BOOLEAN

Init ==
  /\ now = 0 /\ calls = 0
  /\ times = [l \in Limiter |-> <<>>]
  /\ held = [l \in Limiter |-> {}]
  /\ admitted = [l \in Limiter |-> {}]
  /\ refusedAt = [l \in Limiter |-> {}]
  /\ loggedAt = NoTime
  /\ events = <<>>
  /\ msg = [start |-> 0, count |-> 0]
  /\ handled = <<>>
  /\ open = TRUE

-----------------------------------------------------------------------------
(* The windows *)

\* Mutant: a call is still in the window at its very end.
ExpiredLate(t) == now - t > Window
\* Mutant: a call leaves the window a moment early.
ExpiredEarly(t) == now - t + 1 >= Window
\* A time that has left the window.
Expired(t) == now - t >= Window

\* What is left of an array once the expired times are dropped from its front.
Live(l) == {i \in held[l] : \E j \in held[l] : j <= i /\ ~Expired(times[l][j])}

\* What is left of an array once every expired time is filtered out.
Fresh(l) == {i \in held[l] : ~Expired(times[l][i])}

\* The call is recorded in the array ts, and let through or not.
Record(l, ts, ok) ==
  LET n == Len(times[l]) + 1 IN
  /\ times' = [times EXCEPT ![l] = Append(@, now)]
  /\ held' = [held EXCEPT ![l] = ts \cup {n}]
  /\ admitted' = [admitted EXCEPT ![l] = IF ok THEN @ \cup {n} ELSE @]

Refuse(l) == refusedAt' = [refusedAt EXCEPT ![l] = @ \cup {now}]

\* Mutant: one call too many.
FullLate(l) == Cardinality(Live(l)) > Limit[l]
\* allowInWindow: the array is full.
Full(l) == Cardinality(Live(l)) >= Limit[l]

Admit(l) ==
  /\ ~Full(l)
  /\ Record(l, Live(l), TRUE)
  /\ UNCHANGED refusedAt

\* The array keeps what is live; the call itself leaves no trace in it.
TurnAway(l) ==
  /\ Full(l)
  /\ held' = [held EXCEPT ![l] = Live(l)]
  /\ Refuse(l)
  /\ UNCHANGED <<times, admitted>>

\* A limiter that counts every attempt: it is recorded first, and let through when there are
\* no more than the limit with it.
Attempt(l) ==
  LET ok == Cardinality(Fresh(l)) + 1 <= Limit[l] IN
  /\ Record(l, Fresh(l), ok)
  /\ IF ok THEN UNCHANGED refusedAt ELSE Refuse(l)

OneCall == calls < MaxCalls /\ calls' = calls + 1

-----------------------------------------------------------------------------
(* The flows *)

\* An authenticated request to /mcp; one over the ceiling is answered 429 and not logged.
McpRequest ==
  /\ OneCall
  /\ Admit("mcp") \/ TurnAway("mcp")
  /\ UNCHANGED <<now, loggedAt, events, msg, handled, open>>

\* classifyTool: only a tool known to be cheap is measured by the lenient limit.
Bucket(tool) == IF tool \in {"read_file", "list_directory"} THEN "standard" ELSE "expensive"
Tool == {"read_file", "list_directory", "list_directory recursive", "find_files"}

\* Mutant: the time of the last event is never brought up to date.
LogsOnce ==
  IF loggedAt = NoTime
  THEN loggedAt' = now /\ events' = Append(events, now)
  ELSE UNCHANGED <<loggedAt, events>>
\* shouldLogRateLimited, and the event when it says so.
LogRefusal ==
  IF loggedAt # NoTime /\ ~Expired(loggedAt)
  THEN UNCHANGED <<loggedAt, events>>
  ELSE loggedAt' = now /\ events' = Append(events, now)

\* A tool called in a request the ceiling has let through.
ToolCall(tool) ==
  /\ OneCall
  /\ admitted["mcp"] # {}
  /\ \/ Admit(Bucket(tool)) /\ UNCHANGED <<loggedAt, events>>
     \/ TurnAway(Bucket(tool)) /\ LogRefusal
  /\ UNCHANGED <<now, msg, handled, open>>

\* An upgrade, measured by address before anything else and by token once the token is known.
Upgrade ==
  /\ OneCall
  /\ Attempt("upgrade")
  /\ UNCHANGED <<now, loggedAt, events, msg, handled, open>>

Reconnect ==
  /\ OneCall
  /\ admitted["upgrade"] # {}
  /\ Attempt("reconnect")
  /\ UNCHANGED <<now, loggedAt, events, msg, handled, open>>

-----------------------------------------------------------------------------
(* The messages of one connection *)

\* Mutant: the window moves on, the count before it is forgotten at every message.
CountNowMoves == IF now > msg.start THEN [start |-> now, count |-> 0] ELSE msg
\* The count as it stands now: a window that is over gives way to a new one.
CountNow == IF now - msg.start >= MsgWindow THEN [start |-> now, count |-> 0] ELSE msg

\* overRateLimit: a message or a pong is counted; the connection over the limit is closed, and
\* what arrives before it is gone is counted too.
Message ==
  LET count == CountNow.count + 1 IN
  /\ OneCall
  /\ msg' = [CountNow EXCEPT !.count = count]
  /\ IF count <= MsgMax
     THEN handled' = Append(handled, now) /\ UNCHANGED open
     ELSE open' = FALSE /\ UNCHANGED handled
  /\ UNCHANGED <<now, times, held, admitted, refusedAt, loggedAt, events>>

-----------------------------------------------------------------------------
(* Time *)

\* Mutant: the prune empties the arrays.
PruneAll ==
  /\ held' = [l \in Limiter |-> {}]
  /\ loggedAt' = NoTime
  /\ UNCHANGED <<now, times, admitted, refusedAt, events, msg, handled, open, calls>>
\* pruneRateLimits and pruneReconnectTimestamps.
Prune ==
  /\ held' = [l \in Limiter |-> Fresh(l)]
  /\ loggedAt' = IF loggedAt # NoTime /\ Expired(loggedAt) THEN NoTime ELSE loggedAt
  /\ UNCHANGED <<now, times, admitted, refusedAt, events, msg, handled, open, calls>>

Tick ==
  /\ now < MaxTime
  /\ \E t \in (now + 1)..MaxTime : now' = t
  /\ UNCHANGED <<times, held, admitted, refusedAt, loggedAt, events, msg, handled, open, calls>>

Next ==
  \/ McpRequest
  \/ \E tool \in Tool : ToolCall(tool)
  \/ Upgrade
  \/ Reconnect
  \/ Message
  \/ Prune
  \/ Tick

Spec == Init /\ [][Next]_vars

-----------------------------------------------------------------------------
(* Properties *)

\* In any window there are no more calls let through than the limit: the front of the array is
\* cut, never a call that still counts, by the calls, the refusals and the prune alike
\* (router.ts:110-124, hub.ts:91-110, the prunes).
AtMostLimit ==
  \A l \in Limiter : \A i \in admitted[l] :
    Cardinality({j \in admitted[l] : j <= i /\ times[l][i] - times[l][j] < Window}) <= Limit[l]

\* A call is refused only when the window before it is full of recorded calls: nothing expired
\* keeps a caller out (router.ts:115-121, hub.ts:94-97).
RefusedOnlyWhenFull ==
  \A l \in Limiter : \A r \in refusedAt[l] :
    Cardinality({j \in Calls(l) : times[l][j] <= r /\ r - times[l][j] < Window}) >= Limit[l]

\* "True at most once per user per window, so a flood of limited calls writes one activity
\* event": every refused tool call has an event less than a window old, and two events are a
\* window apart, whatever the prune forgets (router.ts:138-145, 308-321).
FloodIsLogged ==
  /\ \A l \in Tools : \A r \in refusedAt[l] :
       \E e \in DOMAIN events : events[e] <= r /\ r - events[e] < Window
  /\ \A e, f \in DOMAIN events : e < f => events[f] - events[e] >= Window

\* A connection has at most twice MSG_RATE_MAX messages handled in any window of that length:
\* the window is fixed, so two of them may meet, but no more (hub.ts:347-363).
BurstIsBounded ==
  \A e \in DOMAIN handled :
    Cardinality({f \in DOMAIN handled : f <= e /\ handled[e] - handled[f] < MsgWindow}) <= 2 * MsgMax

=============================================================================
