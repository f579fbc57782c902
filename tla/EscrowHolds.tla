---------------------------- MODULE EscrowHolds -----------------------------
(***************************************************************************)
(* What the ledger promises the board about an escrow: opened once, it is  *)
(* paid once or released once, whole; a payment that must wait (pending)   *)
(* is executed or cancelled once; a split or a join only moves units       *)
(* between escrows that are held.  Module Ledger implements this; module   *)
(* Work is built on its operators.                                         *)
(***************************************************************************)
EXTENDS Integers

CONSTANTS Keys, Accounts, MaxUnits

VARIABLE escrow

NoEscrow == [state |-> "none", units |-> 0, to |-> {}]

EscrowType == [state : {"none", "held", "pending", "done", "cancelled", "released"},
               units : Nat, to : SUBSET Accounts]

\* What an operation makes of the escrows e.
opened(e, k, n) == [e EXCEPT ![k] = [state |-> "held", units |-> n, to |-> {}]]

paid(e, k, b, pending) ==
    [e EXCEPT ![k] = [@ EXCEPT !.state = IF pending THEN "pending" ELSE "done",
                               !.to = {b}]]

ended(e, K, state) ==
    [k \in DOMAIN e |-> IF k \in K THEN [e[k] EXCEPT !.state = state] ELSE e[k]]

split(e, src, k, n) ==
    [opened(e, k, n) EXCEPT ![src].units = @ - n]

joined(e, src, into) ==
    [e EXCEPT ![into].units = @ + e[src].units,
              ![src] = [@ EXCEPT !.state = "released", !.units = 0]]

In(e, state) == {k \in DOMAIN e : e[k].state = state}

-----------------------------------------------------------------------------
Init == escrow = [k \in Keys |-> NoEscrow]

Held(k) == k \in In(escrow, "held")

Open(k, n) == k \in In(escrow, "none") /\ escrow' = opened(escrow, k, n)

Pay(k, b, pending) == Held(k) /\ escrow' = paid(escrow, k, b, pending)

Release(k) == Held(k) /\ escrow' = ended(escrow, {k}, "released")

\* Pending payments end: the sender cancels one, or a sweep executes some and
\* cancels those the recipient has no room for.
End(done, cancelled) ==
    /\ done \cup cancelled \subseteq In(escrow, "pending")
    /\ done \cap cancelled = {}
    /\ escrow' = ended(ended(escrow, done, "done"), cancelled, "cancelled")

Split(src, k, n) == /\ Held(src) /\ k \in In(escrow, "none")
                    /\ n <= escrow[src].units
                    /\ escrow' = split(escrow, src, k, n)

Join(src, into) == /\ Held(src) /\ Held(into) /\ src # into
                   /\ escrow' = joined(escrow, src, into)

Next == \/ \E k \in Keys :
             \/ \E n \in 1..MaxUnits : Open(k, n)
             \/ \E b \in Accounts, pending \in BOOLEAN : Pay(k, b, pending)
             \/ Release(k)
             \/ \E src \in Keys, n \in 1..MaxUnits : Split(src, k, n)
             \/ \E into \in Keys : Join(k, into)
        \/ \E done, cancelled \in SUBSET Keys : End(done, cancelled)

Spec == Init /\ [][Next]_escrow
=============================================================================
