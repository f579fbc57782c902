----------------------------- MODULE CallHolds ------------------------------
(***************************************************************************)
(* What the ledger promises the services engine about a call's hold: it is *)
(* reserved once, and ends once, by a commit of at most what it reserved,  *)
(* by a refund, or, past its end, by the sweeper at its maximum.  Module   *)
(* Ledger implements this; module ServiceCalls is built on it.             *)
(***************************************************************************)
EXTENDS Integers

CONSTANTS Calls, MaxUnits, Ends

VARIABLES now, callHold

NoHold == [state |-> "none", max |-> 0, used |-> 0, end |-> 0]

HoldType == [state : {"none", "held", "committed", "refunded", "expired"},
             max : Nat, used : Nat, end : Nat]

Init == callHold = [c \in Calls |-> NoHold]

Held(c) == callHold[c].state = "held"

Ended(h, state, used) == [h EXCEPT !.state = state, !.used = used]

Reserve(c, max, end) ==
    /\ callHold[c].state = "none"
    /\ callHold' = [callHold EXCEPT ![c] =
                  [state |-> "held", max |-> max, used |-> 0, end |-> end]]

Commit(c, used) ==
    /\ Held(c)
    /\ used <= callHold[c].max
    /\ callHold' = [callHold EXCEPT ![c] = Ended(@, "committed", used)]

Refund(c) ==
    /\ Held(c)
    /\ callHold' = [callHold EXCEPT ![c] = Ended(@, "refunded", 0)]

\* The holds the sweeper finds due.
Due == {c \in Calls : Held(c) /\ callHold[c].end <= now}

Lapse == callHold' = [c \in Calls |-> IF c \in Due
                                  THEN Ended(callHold[c], "expired", callHold[c].max)
                                  ELSE callHold[c]]

Next == \/ \E c \in Calls :
             \/ \E max \in 1..MaxUnits, end \in Ends : Reserve(c, max, end)
             \/ \E used \in 0..MaxUnits : Commit(c, used)
             \/ Refund(c)
        \/ Lapse

Spec == Init /\ [][Next]_callHold
=============================================================================
