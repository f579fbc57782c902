------------------------------ MODULE MCLedger ------------------------------
(* Small instances of Ledger.                                              *)
EXTENDS Ledger, TLC

CONSTANTS alice, bob, k1, k2, t1

AllBuckets == {"free", "granted", "paid"}

\* One escrow key is as good as another.
EscrowKeySymmetry == Permutations(EscrowKeys)
=============================================================================
