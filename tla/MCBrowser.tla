------------------------------- MODULE MCBrowser -------------------------------
(* Small instances of Browser.                                                *)
EXTENDS Browser, TLC

CONSTANTS s1, s2, x, y

TwoShares == {s1, s2}
TwoPaths  == {x, y}

Interchangeable == Permutations(Share) \cup Permutations(Path)

=============================================================================
