------------------------------- MODULE MCWork -------------------------------
(* Small instances of Work.                                                *)
EXTENDS Work

CONSTANTS rq, w1, w2

Plain(r) == [reward |-> r, review |-> 0, reject |-> 0, usdc |-> FALSE,
             reviewer |-> NoOne]

\* A reward with a reject fee, and a reviewed one with every fee; a reward
\* with USDC.
MCOffers == {[Plain(3) EXCEPT !.reject = 1],
             [Plain(2) EXCEPT !.review = 1, !.reject = 1, !.reviewer = w2]}
MCUSDCOffers == {[Plain(1) EXCEPT !.usdc = TRUE]}
MCLateOffers == {Plain(1), Plain(2)}
MCWorkers == {w1, w2}
MCReviewers == {w2}
MCKnown == {w2}
MCLinkable == {w1}
MCTTLs == {1, 2}
MCOneTTL == {1}
=============================================================================
