--------------------------- MODULE MCServiceCalls ---------------------------
(* A small instance of ServiceCalls: c1 is an account's call, a1 and a2    *)
(* are a network's.                                                        *)
EXTENDS ServiceCalls

CONSTANTS c1, a1, a2, alice, net1

Accounts == [c \in Calls |-> IF c = c1 THEN alice ELSE net1]
=============================================================================
