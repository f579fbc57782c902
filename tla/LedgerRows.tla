----------------------------- MODULE LedgerRows -----------------------------
(***************************************************************************)
(* The rows of the ledger's holds and transfers (internal/ledger:          *)
(* holds.go, transfers.go, escrow.go, escrow_split.go, sweep.go) and what  *)
(* an operation may make of them, whichever lots the units are on.  Which  *)
(* lots a hold's parts name, and what a payment could still move of them   *)
(* (the used column of a paid hold), is left open here: module Ledger adds *)
(* the lots, and its every step is a step of this module or leaves the     *)
(* rows alone.                                                             *)
(***************************************************************************)
EXTENDS Integers, FiniteSets

CONSTANTS Accounts,
          CallKeys, DepositKeys,     \* request keys of service holds
          TransferKeys, EscrowKeys,  \* request keys of transfers and escrows
          TransferDelay,             \* how long a pending transfer waits
          Untils,                    \* ends an escrow may be given
          Horizon,                   \* the last instant
          MaxUnits                   \* the most units of one operation

ASSUME RowsAssumption ==
    /\ CallKeys \cap DepositKeys = {}
    /\ Untils \subseteq Nat
    /\ {TransferDelay, Horizon, MaxUnits} \subseteq Nat

VARIABLES now,
          holds,      \* id -> hold, with its parts
          transfers   \* id -> transfer

rows == <<now, holds, transfers>>

\* ids of holds and transfers: a hash of the account and a prefixed request
\* key in the code; a pending transfer or escrow and its payment share one.
Ids == [account : Accounts, kind : {"service"}, key : CallKeys \cup DepositKeys]
         \cup [account : Accounts, kind : {"transfer"}, key : TransferKeys]
         \cup [account : Accounts, kind : {"escrow"}, key : EscrowKeys]
Id(a, kind, key) == [account |-> a, kind |-> kind, key |-> key]

Units == 1..MaxUnits
Lesser(a, b) == IF a <= b THEN a ELSE b

ServiceOf(key) == IF key \in DepositKeys THEN "deposit" ELSE "call"

NewTransfer(b, n, state, execute) ==
    [to |-> b, amount |-> n, state |-> state, created |-> now, execute |-> execute]

IsService(id) == id \in DOMAIN holds /\ id.kind = "service"

\* Mutant: the hold's end goes unnoticed.
UnpaidOrReleased(id) == /\ id \in DOMAIN holds /\ id.kind = "escrow"
                        /\ id \notin DOMAIN transfers

\* An escrow that is held and has no payment: the board keeps its row "held".
Unpaid(id) == /\ id \in DOMAIN holds /\ id.kind = "escrow"
              /\ holds[id].state = "held"
              /\ id \notin DOMAIN transfers

Open == {id \in DOMAIN holds : holds[id].state = "held"}

\* The service holds the sweeper finds past their end.
DueRows == {id \in DOMAIN holds : /\ holds[id].state = "held"
                                  /\ holds[id].service # "ledger"
                                  /\ holds[id].expires <= now}

-----------------------------------------------------------------------------
(* Rows and their changes.                                                 *)

HoldStates == {"held", "committed", "refunded", "expired"}

IsHold(h) == h \in [service : {"call", "deposit", "ledger"}, max : Nat, used : {h.used},
                    state : HoldStates, expires : Nat, parts : {h.parts},
                    reimbursed : BOOLEAN]
IsTransfer(t) == t \in [to : Accounts, amount : Nat, state : {"pending", "done", "cancelled"},
                        created : 0..Horizon, execute : Nat]

\* g is the table f but for the rows of X, some of them new.
Table(f) == f = [x \in DOMAIN f |-> f[x]]
Touches(f, g, X) == /\ Table(g) /\ DOMAIN g = DOMAIN f \cup X
                    /\ \A y \in DOMAIN f \ X : g[y] = f[y]

\* A new hold of n units.
IsNew(h, service, n, expires) ==
    /\ IsHold(h) /\ h.service = service /\ h.max = n /\ h.used = 0
    /\ h.state = "held" /\ h.expires = expires /\ h.reimbursed = FALSE

\* h2 is the hold h, ended.
Ended(h, h2, state) ==
    /\ IsHold(h2) /\ h2.state = state /\ h2.service = h.service /\ h2.max = h.max
    /\ h2.expires = h.expires /\ h2.parts = h.parts /\ h2.reimbursed = h.reimbursed
EndsAs(hs, gs, id, state, used) ==
    Touches(hs, gs, {id}) /\ Ended(hs[id], gs[id], state) /\ gs[id].used = used

\* h2 is the hold h with max units, which only a move changes.
Resized(h, h2, max) ==
    /\ IsHold(h2) /\ h2.max = max /\ h2.service = h.service /\ h2.used = h.used
    /\ h2.state = h.state /\ h2.expires = h.expires /\ h2.reimbursed = h.reimbursed

\* h2 is the hold h, emptied by a join and given back.
Emptied(h, h2) ==
    /\ IsHold(h2) /\ h2.max = 0 /\ h2.state = "refunded" /\ h2.service = h.service
    /\ h2.used = h.used /\ h2.expires = h.expires /\ h2.reimbursed = h.reimbursed

\* h2 is the hold h with another end.
Delayed(h, h2, t) ==
    /\ IsHold(h2) /\ h2.expires = t /\ h2.service = h.service /\ h2.max = h.max
    /\ h2.used = h.used /\ h2.state = h.state /\ h2.parts = h.parts
    /\ h2.reimbursed = h.reimbursed
Delays(hs, gs, id, t) == Touches(hs, gs, {id}) /\ Delayed(hs[id], gs[id], t)

\* The hold h, reimbursed.
Marked(h) == [h EXCEPT !.reimbursed = TRUE]

\* h2 is the hold h, lapsed: a deposit is given back, a call charged in full.
Lapsed(h, h2) == IF h.service = "deposit" THEN Ended(h, h2, "refunded") /\ h2.used = 0
                 ELSE Ended(h, h2, "expired") /\ h2.used = h.max

\* t2 is the transfer t, ended.
Closed(t, t2, state) ==
    /\ IsTransfer(t2) /\ t2.state = state /\ t2.to = t.to /\ t2.amount = t.amount
    /\ t2.created = t.created /\ t2.execute = t.execute

\* A pending transfer t and its hold h, paid or given back.
Concluded(h, h2, t, t2) ==
    /\ t.state = "pending"
    /\ \/ Ended(h, h2, "committed") /\ Closed(t, t2, "done")
       \/ Ended(h, h2, "refunded") /\ Closed(t, t2, "cancelled")

-----------------------------------------------------------------------------
(* The operations.                                                         *)

SameTransfers == transfers' = transfers

\* A hold is opened, or an open one ended.
OpenRow(id, service, n, expires) ==
    /\ id \in Ids /\ id \notin DOMAIN holds /\ Touches(holds, holds', {id})
    /\ IsNew(holds'[id], service, n, expires)
EndRow(id, state, used) ==
    /\ id \in DOMAIN holds /\ holds[id].state = "held"
    /\ EndsAs(holds, holds', id, state, used)

\* A transfer is recorded.
SendRow(id, b, n, state, execute) ==
    /\ id \in Ids /\ id \notin DOMAIN transfers /\ Touches(transfers, transfers', {id})
    /\ transfers'[id] = NewTransfer(b, n, state, execute) /\ IsTransfer(transfers'[id])

\* Reserve.
ReserveRow ==
    \E a \in Accounts, key \in CallKeys \cup DepositKeys, n \in Units, end \in 0..Horizon :
        OpenRow(Id(a, "service", key), ServiceOf(key), n, end) /\ SameTransfers

\* Commit and Refund of a service hold.
SettleRow ==
    \E id \in DOMAIN holds :
        /\ IsService(id) /\ SameTransfers
        /\ \/ \E used \in 0..MaxUnits : used <= holds[id].max /\ EndRow(id, "committed", used)
           \/ EndRow(id, "refunded", 0)

\* Reimburse: once, for a hold that is settled.
ReimburseRow(id) ==
    /\ IsService(id) /\ holds[id].state # "held" /\ ~holds[id].reimbursed
    /\ Touches(holds, holds', {id}) /\ holds'[id] = Marked(holds[id])
MarkRow == \E id \in DOMAIN holds : ReimburseRow(id) /\ SameTransfers

\* Transfer, done at once or pending on a hold of its own.
DoneRow ==
    \E a, b \in Accounts, key \in TransferKeys, n \in Units :
        SendRow(Id(a, "transfer", key), b, n, "done", now) /\ holds' = holds
PendRow ==
    \E a, b \in Accounts, key \in TransferKeys, n \in Units :
        /\ SendRow(Id(a, "transfer", key), b, n, "pending", now + TransferDelay)
        /\ OpenRow(Id(a, "transfer", key), "ledger", n, now + TransferDelay)

\* Escrow, EscrowRelease and EscrowPay, done at once or pending.
EscrowRow ==
    \E a \in Accounts, key \in EscrowKeys, n \in Units, end \in Untils :
        OpenRow(Id(a, "escrow", key), "ledger", n, end) /\ SameTransfers
ReleaseRow ==
    \E id \in DOMAIN holds :
        Unpaid(id) /\ EndRow(id, "refunded", holds[id].used) /\ SameTransfers
PayRow(id, b) ==
    \/ /\ Touches(holds, holds', {id}) /\ Ended(holds[id], holds'[id], "committed")
       /\ SendRow(id, b, holds[id].max, "done", now)
    \/ \E execute \in {now, now + TransferDelay} :
         /\ Delays(holds, holds', id, execute)
         /\ SendRow(id, b, holds[id].max, "pending", execute)
PaymentRow == \E id \in DOMAIN holds, b \in Accounts : Unpaid(id) /\ PayRow(id, b)

\* EscrowSplit and EscrowJoin.
SplitRow(src, id, n, expires) ==
    /\ n <= holds[src].max /\ id \in Ids /\ id \notin DOMAIN holds
    /\ Touches(holds, holds', {src, id})
    /\ Resized(holds[src], holds'[src], holds[src].max - n)
    /\ IsNew(holds'[id], "ledger", n, expires)
SplitsRow ==
    \E src \in DOMAIN holds, key \in EscrowKeys, n \in Units, until \in Untils :
        /\ Unpaid(src)
        /\ SplitRow(src, Id(src.account, "escrow", key), n, Lesser(until, holds[src].expires))
        /\ SameTransfers
JoinRow(src, into) ==
    /\ src # into /\ Touches(holds, holds', {src, into})
    /\ Resized(holds[into], holds'[into], holds[into].max + holds[src].max)
    /\ Emptied(holds[src], holds'[src])
JoinsRow ==
    \E src, into \in DOMAIN holds :
        Unpaid(src) /\ Unpaid(into) /\ JoinRow(src, into) /\ SameTransfers

\* CancelTransfer and the sweeper: the holds of L lapse, the transfers of X end.
FinishRow(L, X) ==
    /\ L \subseteq DOMAIN holds /\ X \subseteq DOMAIN holds /\ X \subseteq DOMAIN transfers
    /\ Touches(holds, holds', L \cup X) /\ Touches(transfers, transfers', X)
    /\ \A id \in L : Lapsed(holds[id], holds'[id])
    /\ \A id \in X : Concluded(holds[id], holds'[id], transfers[id], transfers'[id])
CancelRow == \E id \in DOMAIN transfers : FinishRow({}, {id})
SweepRow == \E X \in SUBSET DOMAIN transfers : FinishRow(DueRows, X)

\* The clock.
TickRow == /\ now < Horizon
           /\ now' = now + 1
           /\ UNCHANGED <<holds, transfers>>

RowsInit == now = 0 /\ holds = <<>> /\ transfers = <<>>

RowsNext ==
    \/ /\ UNCHANGED now
       /\ \/ ReserveRow \/ SettleRow \/ MarkRow \/ DoneRow \/ PendRow
          \/ EscrowRow \/ ReleaseRow \/ PaymentRow \/ SplitsRow \/ JoinsRow
          \/ CancelRow \/ SweepRow
    \/ TickRow

RowsSpec == RowsInit /\ [][RowsNext]_rows

-----------------------------------------------------------------------------
\* A transfer and the hold behind it end together: the units wait exactly
\* while it is pending, and are either paid or given back, never both.
TransferMatchesHold ==
    \A id \in DOMAIN transfers \cap DOMAIN holds :
        <<transfers[id].state, holds[id].state>>
            \in {<<"pending", "held">>, <<"done", "committed">>,
                 <<"cancelled", "refunded">>}

\* A settled hold and an ended transfer stay as they ended, but for the one
\* reimbursement of a charged call: a late Commit, a second sweep or a
\* cancellation after the payment changes nothing.
SettledForGood ==
    [][/\ \A id \in DOMAIN holds \ Open :
            \/ holds'[id] = holds[id]
            \/ /\ ~holds[id].reimbursed
               /\ holds'[id] = [holds[id] EXCEPT !.reimbursed = TRUE]
       /\ \A id \in DOMAIN transfers :
            transfers[id].state # "pending" => transfers'[id] = transfers[id]]_rows

\* A service hold as the engine sees it.
CallIds == [account : Accounts, kind : {"service"}, key : CallKeys]
CallOf(h) == [state |-> h.state, max |-> h.max, used |-> h.used, end |-> h.expires]
NoCall == [state |-> "none", max |-> 0, used |-> 0, end |-> 0]
CallView(hs) == [id \in CallIds |-> IF id \in DOMAIN hs THEN CallOf(hs[id]) ELSE NoCall]
CallNow == CallView(holds)

Promise == INSTANCE CallHolds WITH Calls <- CallIds, Ends <- 0..Horizon, callHold <- CallNow

\* The ledger keeps its promise to the services engine: whatever else happens
\* to the account's lots, a call's hold ends once, for at most what it
\* reserved, and is charged in full only past its end.
KeepsPromise == Promise!Spec

\* An escrow as the board sees it: pending while a transfer waits on its hold.
EscrowIds == [account : Accounts, kind : {"escrow"}, key : EscrowKeys]
NoEscrowRow == [state |-> "none", units |-> 0, to |-> {}]
EscrowOf(hs, ts, id) ==
    IF id \notin DOMAIN hs THEN NoEscrowRow
    ELSE [state |-> IF id \in DOMAIN ts THEN ts[id].state
                    ELSE IF hs[id].state = "held" THEN "held" ELSE "released",
          units |-> hs[id].max,
          to |-> IF id \in DOMAIN ts THEN {ts[id].to} ELSE {}]
EscrowView(hs, ts) == [id \in EscrowIds |-> EscrowOf(hs, ts, id)]
EscrowNow == EscrowView(holds, transfers)

EscrowPromise == INSTANCE EscrowHolds WITH Keys <- EscrowIds, escrow <- EscrowNow

\* The ledger keeps its promise to the board: whatever else happens to the
\* account's lots, an escrow is paid once or released once, whole, and a
\* payment that waits is executed or cancelled once.
KeepsEscrow == EscrowPromise!Spec

-----------------------------------------------------------------------------
(* What every step keeps of the rows: the strengthening that the           *)
(* properties above need (LedgerRowsProofs).                               *)

HoldsOK(hs) == /\ Table(hs) /\ DOMAIN hs \subseteq Ids /\ IsFiniteSet(DOMAIN hs)
               /\ \A id \in DOMAIN hs : IsHold(hs[id])

TransfersOK(ts) == /\ Table(ts) /\ DOMAIN ts \subseteq Ids /\ IsFiniteSet(DOMAIN ts)
                   /\ \A id \in DOMAIN ts : IsTransfer(ts[id])

Matches(t, h) == \/ t = "pending" /\ h = "held"
                 \/ t = "done" /\ h = "committed"
                 \/ t = "cancelled" /\ h = "refunded"

\* Which holds have a transfer, and how they go together.
LinkedAt(hs, ts, id) ==
    /\ id \in DOMAIN hs =>
         /\ id.kind = "service" <=> hs[id].service # "ledger"
         /\ id \in CallIds => hs[id].service = "call"
         /\ id.kind = "transfer" => id \in DOMAIN ts
    /\ id \in DOMAIN ts =>
         /\ id.kind # "service"
         /\ id.kind = "escrow" \/ ts[id].state = "pending" => id \in DOMAIN hs
         /\ id \in DOMAIN hs => Matches(ts[id].state, hs[id].state)
Linked(hs, ts) == \A id \in DOMAIN hs \cup DOMAIN ts : LinkedAt(hs, ts, id)

Rows(hs, ts) == HoldsOK(hs) /\ TransfersOK(ts) /\ Linked(hs, ts)

Clock == now \in 0..Horizon

\* The inductive invariant of the rows.
RowsInv == Clock /\ Rows(holds, transfers)

NoRow == holds' = holds /\ transfers' = transfers
RowStep == \/ NoRow \/ ReserveRow \/ EscrowRow \/ SettleRow \/ ReleaseRow \/ MarkRow \/ DoneRow
           \/ PendRow \/ PaymentRow \/ SplitsRow \/ JoinsRow \/ CancelRow \/ SweepRow
=============================================================================
