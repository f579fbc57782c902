----------------------------- MODULE MCWebhooks -----------------------------
(***************************************************************************)
(* Small instances of Webhooks: one account's urls, one or two events, two *)
(* workers.                                                                *)
(***************************************************************************)
EXTENDS Webhooks, TLC

CONSTANTS u1, u2, e1, e2, w1, w2

OneUrl == {u1}
OneOwner == [u \in Urls |-> "a"]
Itself == [e \in Events |-> e]

Symmetry == Permutations(Workers) \cup Permutations(Urls) \cup Permutations(Events)
=============================================================================
