---------------------------- MODULE MCRelaySession ----------------------------
(* A small instance of RelaySession. *)
EXTENDS RelaySession, TLC

CONSTANTS p1, p2, f1, f2, f3, f4, f5, c1, c2, asterism, other

TwoProcesses == {p1, p2}
FiveFiles    == {f1, f2, f3, f4, f5}
TwoChains    == {c1, c2}
TwoIssuers   == {asterism, other}

=============================================================================
