---------------------------- MODULE MCRateLimits ----------------------------
(* A small instance of RateLimits. *)
EXTENDS RateLimits, TLC

CONSTANT undefined

MCLimit == [l \in Limiter |-> IF l \in {"mcp", "reconnect"} THEN 2 ELSE 1]

=============================================================================
