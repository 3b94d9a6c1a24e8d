----------------------------- MODULE MCToolRelay -----------------------------
(* A small instance of ToolRelay: one executor that connects twice.           *)
EXTENDS ToolRelay

CONSTANTS n, c1, c2, k1, k2

OneExecutor == {n}
TwoConns    == {c1, c2}
Owners      == [c \in Conn |-> n]
TwoCalls    == {k1, k2}

=============================================================================
