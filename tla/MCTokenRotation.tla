--------------------------- MODULE MCTokenRotation ---------------------------
(* Small instances of TokenRotation.  The initial token is told apart from   *)
(* the others; later tokens and connections are interchangeable.             *)
EXTENDS TokenRotation, TLC

CONSTANTS t0, t1, t2, c1, c2

TwoTokens   == {t0, t1}
ThreeTokens == {t0, t1, t2}
TwoConns    == {c1, c2}

Interchangeable == Permutations(Token \ {InitialToken}) \cup Permutations(Conn)

=============================================================================
