----------------------------- MODULE MCShareSync -----------------------------
(* Small instances of ShareSync.                                              *)
EXTENDS ShareSync, TLC

CONSTANTS n, m, x, y, u1, u2

TwoNodes   == {n, m}
TwoShares  == {x, y}
TwoUpdates == {u1, u2}
OneShare   == {x}

Interchangeable == Permutations(Node) \cup Permutations(Share) \cup Permutations(Update)

=============================================================================
