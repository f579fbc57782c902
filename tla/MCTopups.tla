------------------------------ MODULE MCTopups ------------------------------
(* Small instances of Topups: every authorization is of the same amount.   *)
EXTENDS Topups, TLC

CONSTANTS n1, n2, n3, alice, bob, carol, o1

OneEach == [n \in Auths |-> 1]
Symmetry == Permutations(Auths) \cup Permutations(Accounts)
=============================================================================
