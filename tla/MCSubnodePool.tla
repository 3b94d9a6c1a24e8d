---------------------------- MODULE MCSubnodePool ----------------------------
(* A small instance of SubnodePool. Account a may be deleted and created      *)
(* again under the uid of a2, or of a3, which the policy blocks; b is another *)
(* account.                                                                   *)
EXTENDS SubnodePool, TLC

CONSTANTS r1, r2, r3, w1, w2, w3, s1, s2, a, b, a1, a2, a3, b1

ThreeRequests == {r1, r2, r3}
ThreeWorkers  == {w1, w2, w3}
TwoSubnodes   == {s1, s2}
TwoUsers      == {a, b}
Accounts      == {a1, a2, a3, b1}
Names         == [i \in Identity |-> IF i = b1 THEN b ELSE a]
BlockedUids   == {a3}

Interchangeable == Permutations(Request) \cup Permutations(Worker) \cup Permutations(Subnode)

=============================================================================
