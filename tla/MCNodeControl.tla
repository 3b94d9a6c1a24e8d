--------------------------- MODULE MCNodeControl ----------------------------
(* A small instance of NodeControl. *)
EXTENDS NodeControl, TLC

CONSTANTS a, b, e, none, d, c1, c2

MCCommands == [x \in {c1, c2} |-> IF x = c1 THEN {"rotate"} ELSE {"rotate", "rename"}]

=============================================================================
