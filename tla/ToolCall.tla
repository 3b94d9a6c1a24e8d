------------------------------- MODULE ToolCall -------------------------------
(***************************************************************************)
(* What the relay promises the caller of a tool: one answer, in the end.   *)
(* A result comes after the operation; a refused call is without effect    *)
(* for ever, so it may be repeated; of a failed one (timeout, disconnect,  *)
(* relay gone) the caller knows nothing, its operation may still happen.   *)
(***************************************************************************)
CONSTANT Call

VARIABLES
  state,  \* idle, open, refused, result, failed
  effect  \* calls whose operation the executor has finished

vars == <<state, effect>>

TypeOK ==
  /\ state \in [Call -> {"idle", "open", "refused", "result", "failed"}]
  /\ effect \subseteq Call

Init == state = [k \in Call |-> "idle"] /\ effect = {}

Ask(k) ==
  /\ state[k] = "idle"
  /\ state' = [state EXCEPT ![k] = "open"]
  /\ UNCHANGED effect

Happen(k) ==
  /\ state[k] \notin {"idle", "refused"} /\ k \notin effect
  /\ effect' = effect \cup {k}
  /\ UNCHANGED state

Refuse(k) ==
  /\ state[k] = "open" /\ k \notin effect
  /\ state' = [state EXCEPT ![k] = "refused"]
  /\ UNCHANGED effect

Return(k) ==
  /\ state[k] = "open" /\ k \in effect
  /\ state' = [state EXCEPT ![k] = "result"]
  /\ UNCHANGED effect

\* A lost connection or relay fails several calls at once.
Fail(K) ==
  /\ K # {} /\ \A k \in K : state[k] = "open"
  /\ state' = [k \in Call |-> IF k \in K THEN "failed" ELSE state[k]]
  /\ UNCHANGED effect

Next ==
  \/ \E k \in Call : Ask(k) \/ Happen(k) \/ Refuse(k) \/ Return(k)
  \/ \E K \in SUBSET Call : Fail(K)

\* No call stays open for ever.
Fairness ==
  \A k \in Call : WF_vars(Refuse(k) \/ Return(k) \/ \E K \in SUBSET Call : k \in K /\ Fail(K))

Spec == Init /\ [][Next]_vars /\ Fairness

===============================================================================
