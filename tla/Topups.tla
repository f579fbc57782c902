------------------------------- MODULE Topups -------------------------------
(***************************************************************************)
(* Credit top-ups (internal/board/topup.go, internal/services/             *)
(* x402_topup.go).  A payer signs an authorization to move an amount on    *)
(* chain; credits.topup records it as settling in its command's            *)
(* transaction; after the commit, with no transaction open, a facilitator  *)
(* is asked to verify and to settle it; one more transaction records the   *)
(* outcome and mints the paid lot.  What is left settling at a start, and  *)
(* what the facilitator gave no usable answer to, is unknown until the     *)
(* operator resolves it, from a process of their own.                      *)
(*                                                                         *)
(* A row is known by its authorization (auth_nonce is UNIQUE), and so is   *)
(* the transaction that settles it.  The quote, the wire (x402 or MPP) and *)
(* the receipt are left out: a payment that is not exactly what a quote of *)
(* the account asked is refused before any of this.                        *)
(***************************************************************************)
EXTENDS Integers, FiniteSets, Functions

CONSTANTS Auths,                     \* signed authorizations
          Amount,                    \* authorization -> its amount
          Accounts,
          AccountDaily, BoardDaily,  \* the caps of a day
          Operators,                 \* runs of the operator's command at once
          LastDay,                   \* the model's last day
          MaxFailures                \* stops, and writes that fail

None == "none"

ASSUME TopupsAssumption ==
    /\ Amount \in [Auths -> Nat \ {0}]
    /\ {AccountDaily, BoardDaily, LastDay, MaxFailures} \subseteq Nat
    /\ None \notin Auths /\ None \notin Accounts

VARIABLES today, failures,
          row,      \* credit_topups: authorization -> its row
          lots,     \* history: authorization -> paid lots minted for its row
          task,     \* authorization -> the step settleTopup is at
          asked,    \* authorizations the facilitator was asked to settle
          onchain,  \* those that have moved the money
          lapsed,   \* those past valid_before
          op        \* operator -> the step ResolveTopup is at

vars == <<today, failures, row, lots, task, asked, onchain, lapsed, op>>

NoRow == [state |-> "none", account |-> None, day |-> 0, retryable |-> FALSE, tx |-> None]
Idle == [pc |-> "idle", n |-> None, tx |-> None]

Init == /\ today = 0
        /\ failures = 0
        /\ row = [n \in Auths |-> NoRow]
        /\ lots = [n \in Auths |-> 0]
        /\ task = [n \in Auths |-> "idle"]
        /\ asked = {}
        /\ onchain = {}
        /\ lapsed = {}
        /\ op = [o \in Operators |-> Idle]

In(n, states) == row[n].state \in states

-----------------------------------------------------------------------------
(* credits.topup: one command, one transaction.                            *)

\* What counts against a day: a failed top-up frees its share.
Counted(d) == {n \in Auths : In(n, {"settling", "credited", "unknown"}) /\ row[n].day = d}
CountedOf(a, d) == {n \in Counted(d) : row[n].account = a}
Sum(S) == SumFunctionOnSet(Amount, S)

\* An authorization is taken once, and again only when the facilitator could
\* not even verify it, by the same account.
Fresh(a, n) == \/ In(n, {"none"})
               \/ In(n, {"failed"}) /\ row[n].retryable /\ row[n].account = a

Settling(a, d) == [state |-> "settling", account |-> a, day |-> d,
                   retryable |-> FALSE, tx |-> None]

\* Mutant: a row that is taken again stays on the day it was first made.
PresentOnItsDay(a, n) ==
    /\ n \notin lapsed
    /\ Fresh(a, n)
    /\ Sum(CountedOf(a, today)) + Amount[n] <= AccountDaily
    /\ Sum(Counted(today)) + Amount[n] <= BoardDaily
    /\ row' = [row EXCEPT ![n] = Settling(a, IF In(n, {"none"}) THEN today ELSE @.day)]
    /\ task' = [task EXCEPT ![n] = "verify"]
    /\ UNCHANGED <<today, failures, lots, asked, onchain, lapsed, op>>

Present(a, n) ==
    /\ n \notin lapsed
    /\ Fresh(a, n)
    /\ Sum(CountedOf(a, today)) + Amount[n] <= AccountDaily
    /\ Sum(Counted(today)) + Amount[n] <= BoardDaily
    /\ row' = [row EXCEPT ![n] = Settling(a, today)]
    /\ task' = [task EXCEPT ![n] = "verify"]
    /\ UNCHANGED <<today, failures, lots, asked, onchain, lapsed, op>>

-----------------------------------------------------------------------------
(* After the commit: settleTopup.  Each request to the facilitator and     *)
(* each statement on the database is a step; task holds the outcome that   *)
(* is still to be recorded.                                                *)

Goes(n, pc) == /\ task' = [task EXCEPT ![n] = pc]
               /\ UNCHANGED <<today, failures, row, lots, lapsed, op>>

\* Verify: every refusal is definite; one that could not be verified may be
\* presented again.
Verify(n) == /\ task[n] = "verify"
             /\ \E pc \in {"settle", "failed", "retryable"} : Goes(n, pc)
             /\ UNCHANGED <<asked, onchain>>

\* SettleVerified: the request goes out.
AskSettle(n) == /\ task[n] = "settle"
                /\ Goes(n, "asked")
                /\ asked' = asked \cup {n}
                /\ UNCHANGED onchain

\* The facilitator moves the money, or refuses to and drops the request, in
\* its own time: the caller may be gone.
FacilitatorSettles(n) ==
    /\ n \in asked \ lapsed
    /\ onchain' = onchain \cup {n}
    /\ asked' = asked \ {n}
    /\ UNCHANGED <<today, failures, row, lots, task, lapsed, op>>
FacilitatorRefuses(n) ==
    /\ n \in asked
    /\ asked' = asked \ {n}
    /\ UNCHANGED <<today, failures, row, lots, task, onchain, lapsed, op>>

\* Mutant: no usable answer is taken for a refusal.
AnswerDefinite(n) ==
    /\ task[n] = "asked"
    /\ \/ n \in onchain /\ Goes(n, "credit")
       \/ Goes(n, "failed")
    /\ UNCHANGED <<asked, onchain>>

\* Its answer: settled, refused, or none that can be used.
Answer(n) ==
    /\ task[n] = "asked"
    /\ \/ n \in onchain /\ Goes(n, "credit")
       \/ n \notin asked \cup onchain /\ Goes(n, "failed")
       \/ Goes(n, "unknown")
    /\ UNCHANGED <<asked, onchain>>

\* The outcome of a top-up that was not settled.
Record(n) ==
    /\ task[n] \in {"failed", "retryable", "unknown"}
    /\ row' = IF In(n, {"settling"})
              THEN [row EXCEPT ![n] = [@ EXCEPT
                     !.state = IF task[n] = "unknown" THEN "unknown" ELSE "failed",
                     !.retryable = task[n] = "retryable"]]
              ELSE row
    /\ task' = [task EXCEPT ![n] = "idle"]
    /\ UNCHANGED <<today, failures, lots, asked, onchain, lapsed, op>>

\* Mutant: tx_hash is not UNIQUE.
HashFreeAlways(n, tx) == TRUE

\* A transaction hash belongs to one row.
HashFree(n, tx) == \A m \in Auths \ {n} : row[m].tx # tx

\* creditTopup: the row moves from a state to credited and its lot is minted,
\* in one transaction.
Creditable(n, from, tx) == In(n, {from}) /\ HashFree(n, tx)
creditTopup(n, tx) ==
    /\ row' = [row EXCEPT ![n] = [@ EXCEPT !.state = "credited", !.retryable = FALSE,
                                           !.tx = tx]]
    /\ lots' = [lots EXCEPT ![n] = @ + 1]

Credit(n) ==
    /\ task[n] = "credit"
    /\ Creditable(n, "settling", n)
    /\ creditTopup(n, n)
    /\ task' = [task EXCEPT ![n] = "idle"]
    /\ UNCHANGED <<today, failures, asked, onchain, lapsed, op>>

\* It fails: the hash is another row's, or anything else goes wrong.
CreditFails(n) ==
    /\ task[n] = "credit"
    /\ \/ Creditable(n, "settling", n) /\ failures < MaxFailures /\ failures' = failures + 1
       \/ ~Creditable(n, "settling", n) /\ UNCHANGED failures
    /\ task' = [task EXCEPT ![n] = "uncredited"]
    /\ UNCHANGED <<today, row, lots, asked, onchain, lapsed, op>>

\* Settled and not credited: for the operator, with its hash unless some row
\* has it.
RecordUncredited(n) ==
    /\ task[n] = "uncredited"
    /\ row' = IF In(n, {"settling"})
              THEN [row EXCEPT ![n] = [@ EXCEPT
                     !.state = "unknown",
                     !.tx = IF \E m \in Auths : row[m].tx = n THEN row[n].tx ELSE n]]
              ELSE row
    /\ task' = [task EXCEPT ![n] = "idle"]
    /\ UNCHANGED <<today, failures, lots, asked, onchain, lapsed, op>>

\* The outcome is not recorded (its context has run out): the row stays
\* settling until the next start.
RecordLost(n) ==
    /\ task[n] \in {"failed", "retryable", "unknown", "uncredited"}
    /\ failures < MaxFailures
    /\ failures' = failures + 1
    /\ task' = [task EXCEPT ![n] = "idle"]
    /\ UNCHANGED <<today, row, lots, asked, onchain, lapsed, op>>

\* The process stops and starts: openTopup.
Restart ==
    /\ failures < MaxFailures
    /\ failures' = failures + 1
    /\ row' = [n \in Auths |-> IF In(n, {"settling"})
                               THEN [row[n] EXCEPT !.state = "unknown"] ELSE row[n]]
    /\ task' = [n \in Auths |-> "idle"]
    /\ UNCHANGED <<today, lots, asked, onchain, lapsed, op>>

-----------------------------------------------------------------------------
(* ResolveTopup, in a process of its own beside the server, a statement at *)
(* a time.                                                                 *)

At(o, pc, n, tx) == /\ op' = [op EXCEPT ![o] = [pc |-> pc, n |-> n, tx |-> tx]]
                    /\ UNCHANGED <<today, task, asked, onchain, lapsed>>
Done(o) == At(o, "idle", None, None)

\* The row is read.  The operator credits with a transaction they found on
\* chain, which may be that of another top-up, and fails a top-up whose
\* authorization lapsed unused.
Read(o, n) ==
    /\ op[o].pc = "idle"
    /\ In(n, {"unknown"})
    /\ \/ \E tx \in onchain : At(o, "clear", n, tx)
       \/ n \in lapsed \ onchain /\ At(o, "fail", n, None)
    /\ UNCHANGED <<failures, row, lots>>

ResolveFail(o) ==
    /\ op[o].pc = "fail"
    /\ row' = IF In(op[o].n, {"unknown"}) THEN [row EXCEPT ![op[o].n].state = "failed"] ELSE row
    /\ Done(o)
    /\ UNCHANGED <<failures, lots>>

\* A credit_failed row may already carry the hash; it is cleared first.
ResolveClear(o) ==
    /\ op[o].pc = "clear"
    /\ row' = IF In(op[o].n, {"unknown"}) THEN [row EXCEPT ![op[o].n].tx = None] ELSE row
    /\ At(o, "credit", op[o].n, op[o].tx)
    /\ UNCHANGED <<failures, lots>>

ResolveCredit(o) ==
    /\ op[o].pc = "credit"
    /\ IF Creditable(op[o].n, "unknown", op[o].tx)
       THEN creditTopup(op[o].n, op[o].tx)
       ELSE UNCHANGED <<row, lots>>
    /\ Done(o)
    /\ UNCHANGED failures

\* The command stops, or its credit fails, between two statements.
ResolveStops(o) ==
    /\ op[o].pc # "idle"
    /\ failures < MaxFailures
    /\ failures' = failures + 1
    /\ Done(o)
    /\ UNCHANGED <<row, lots>>

-----------------------------------------------------------------------------
Midnight == /\ today < LastDay
            /\ today' = today + 1
            /\ UNCHANGED <<failures, row, lots, task, asked, onchain, lapsed, op>>
Lapse(n) == /\ n \notin lapsed
            /\ lapsed' = lapsed \cup {n}
            /\ UNCHANGED <<today, failures, row, lots, task, asked, onchain, op>>

Settle(n) == \/ Verify(n) \/ AskSettle(n) \/ Answer(n) \/ Record(n)
             \/ Credit(n) \/ CreditFails(n) \/ RecordUncredited(n) \/ RecordLost(n)
Resolve(o) == \/ \E n \in Auths : Read(o, n)
              \/ ResolveFail(o) \/ ResolveClear(o) \/ ResolveCredit(o) \/ ResolveStops(o)
Next == \/ \E n \in Auths : \/ \E a \in Accounts : Present(a, n)
                            \/ Settle(n)
                            \/ FacilitatorSettles(n) \/ FacilitatorRefuses(n)
                            \/ Lapse(n)
        \/ \E o \in Operators : Resolve(o)
        \/ Restart
        \/ Midnight

Spec == Init /\ [][Next]_vars

-----------------------------------------------------------------------------
Rows == [state : {"none", "settling", "credited", "failed", "unknown"},
         account : Accounts \cup {None}, day : 0..LastDay,
         retryable : BOOLEAN, tx : Auths \cup {None}]
Tasks == {"idle", "verify", "settle", "asked", "credit", "uncredited",
          "failed", "retryable", "unknown"}

\* The tables have their columns, and one lot at most is minted for a row.
TypeOK ==
    /\ today \in 0..LastDay
    /\ failures \in 0..MaxFailures
    /\ row \in [Auths -> Rows]
    /\ lots \in [Auths -> 0..1]
    /\ task \in [Auths -> Tasks]
    /\ asked \subseteq Auths /\ onchain \subseteq Auths /\ lapsed \subseteq Auths
    /\ op \in [Operators -> [pc : {"idle", "clear", "credit", "fail"},
                             n : Auths \cup {None}, tx : Auths \cup {None}]]

\* Credit is minted for money received, once: a lot for each credited row and
\* for no other, each on a transaction of its own that moved the money,
\* whatever the operator mixes up and whichever process is first.
MintedForMoney ==
    /\ \A n \in Auths : (lots[n] = 1) <=> In(n, {"credited"})
    /\ \A n \in Auths : In(n, {"credited"}) => row[n].tx \in onchain
    /\ \A n, m \in Auths : n # m /\ row[n].tx = row[m].tx => row[n].tx = None

\* Money that moved is never written off: while an authorization has moved
\* its amount, its row is not failed, though its answer was lost, came after
\* a restart, or the facilitator settled after everyone stopped waiting.
NeverWrittenOff == \A n \in onchain : In(n, {"settling", "unknown", "credited"})

\* No account, and not all of them together, top up more on a day than its
\* cap, whenever outcomes become known and top-ups are presented again.
WithinDaily ==
    \A d \in 0..LastDay :
        /\ Sum(Counted(d)) <= BoardDaily
        /\ \A a \in {row[n].account : n \in Counted(d)} :
              Sum(CountedOf(a, d)) <= AccountDaily
=============================================================================
