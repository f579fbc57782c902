------------------------------- MODULE Ledger -------------------------------
(***************************************************************************)
(* One resource of the ledger (internal/ledger: spend.go, holds.go,        *)
(* transfers.go, escrow.go, escrow_split.go, sweep.go): the lots accounts  *)
(* own, the holds that service calls, pending transfers and escrows keep   *)
(* on them, transfers, and the sweeper.                                    *)
(*                                                                         *)
(* Every operation runs in one transaction of the store's only connection, *)
(* so an action is a whole operation, and an operation that refuses writes *)
(* nothing (its command rolls back) and is no step.                        *)
(*                                                                         *)
(* A live lot is known by its key: account, bucket, whether the account is *)
(* its origin, and issue day; creditLot merges what has the same key.  A   *)
(* lot that is spent or expired is never read again and leaves the table.  *)
(* Granted stands for granted and earned units, which differ only in their *)
(* half-life.  How much water the day's slices still give a free lot is    *)
(* left open (it is module DayPools), and so is the share a claim gets.    *)
(***************************************************************************)
EXTENDS LedgerRows, FiniteSetsExt, Folds, Functions

CONSTANTS Active,                    \* those that spend and send
          Minted, Funded,            \* the buckets that are minted, to whom
          Transferable,              \* the buckets that may move
          Shares,                    \* entitlements a claim may get
          Caps,                      \* values of the cap parameter
          Freezes,                   \* values of the freeze-transfers lever
          Rotating,                  \* accounts whose keys may change
          Fee, InboundCap, SpikeFloor,
          LotsPerAccount, HoldsPerAccount, HoldsTotal, TransfersPendingMax,
          DayLen,                    \* instants of a day
          TTL,                       \* how long a service hold may last
          MaxSupply                  \* the most units the model mints up to

ASSUME LedgerAssumption ==
    /\ Minted \subseteq {"granted", "paid"}
    /\ Transferable \subseteq {"free", "granted", "paid"}
    /\ Freezes \subseteq BOOLEAN /\ Rotating \subseteq Accounts
    /\ Funded \subseteq Accounts /\ Active \subseteq Accounts
    /\ Shares \subseteq Nat /\ Caps \subseteq Nat
    /\ {Fee, InboundCap, SpikeFloor, MaxSupply, LotsPerAccount,
        HoldsPerAccount, HoldsTotal, TransfersPendingMax} \subseteq Nat
    /\ {DayLen, TTL} \subseteq Nat \ {0}

VARIABLES cap,        \* the cap parameter in force
          frozen,     \* the freeze-transfers lever
          breaker,    \* account -> until when its transfers wait
          claims,     \* account -> the day and entitlement of its last claim
          swept,      \* the day of the last sweep: decaying lots' decay clock
          lots,       \* key -> live lot
          incoming,   \* day -> account -> units sent to it
          journal     \* account -> what its journal lines add up to

vars == <<now, cap, frozen, breaker, claims, swept,
          lots, holds, transfers, incoming, journal>>

Days == 0..(Horizon \div DayLen)
today == now \div DayLen

\* The tables an operation writes, as one value.
db == [lots |-> lots, holds |-> holds, transfers |-> transfers,
       incoming |-> incoming, journal |-> journal]

Write(d) == /\ lots' = d.lots
            /\ holds' = d.holds
            /\ transfers' = d.transfers
            /\ incoming' = d.incoming
            /\ journal' = d.journal

Init == /\ now = 0
        /\ cap \in Caps
        /\ frozen \in Freezes
        /\ breaker = [a \in Accounts |-> 0]
        /\ claims = [a \in Accounts |-> [day |-> -1, entitlement |-> 0]]
        /\ swept = 0
        /\ lots = <<>>
        /\ holds = <<>>
        /\ transfers = <<>>
        /\ incoming = [d \in Days |-> [a \in Accounts |-> 0]]
        /\ journal = [a \in Accounts |-> 0]

-----------------------------------------------------------------------------
(* Lots.                                                                   *)

Greater(a, b) == IF a >= b THEN a ELSE b

\* f[k], 0 outside f's domain; f without its zeros.
At(f, k) == IF k \in DOMAIN f THEN f[k] ELSE 0
Positive(f) == RestrictValues(f, LAMBDA n : n > 0)

\* A table with a row for x.
insert(f, x, row) == [y \in DOMAIN f \cup {x} |-> IF y = x THEN row ELSE f[y]]

LotKey(a, bucket, own, day) ==
    [account |-> a, bucket |-> bucket, own |-> own, day |-> day]

\* Only free lots expire, at the end of their day.
expiry(k) == (k.day + 1) * DayLen
Expired(k) == k.bucket = "free" /\ expiry(k) <= now
Outlives(k, t) == k.bucket # "free" \/ expiry(k) > t

spendable(x) == x.remaining - x.held

Rank(bucket) == CASE bucket = "free" -> 0
                  [] bucket = "granted" -> 1
                  [] bucket = "paid" -> 2

\* spendOrder among one account's lots: bucket, expiry or issue day, id.
Before(l, j, k) == \/ Rank(j.bucket) < Rank(k.bucket)
                   \/ j.bucket = k.bucket /\ j.day < k.day
                   \/ j.bucket = k.bucket /\ j.day = k.day /\ l[j].seq < l[k].seq

\* units taken in spend order from lots that yield yield[k] each.
plan(l, yield, units) ==
    LET before(k) == SumFunctionOnSet(yield, {j \in DOMAIN yield : Before(l, j, k)})
    IN  Positive([k \in DOMAIN yield |->
            Lesser(yield[k], Greater(0, units - before(k)))])

liveLots(l, a) == {k \in DOMAIN l : k.account = a /\ ~Expired(k)}

\* A lot's place among the lots that differ from it only in their origin.
NextSeq(l, k) == LET twin == [k EXCEPT !.own = ~@]
                 IN  IF twin \in DOMAIN l THEN l[twin].seq + 1 ELSE 0

\* Units leave lots for good (gone), or only leave their hold (released).
takeFrom(l, gone, released) ==
    RestrictValues([k \in DOMAIN l |-> [l[k] EXCEPT
                        !.remaining = @ - At(gone, k),
                        !.held = @ - At(released, k)]],
                   LAMBDA x : x.remaining > 0)

insertLot(l, k, origin, initial, units) ==
    insert(l, k, [origin |-> origin, initial |-> initial, seq |-> NextSeq(l, k),
                  remaining |-> units, held |-> 0])

\* creditLot without its bound on live lots (HasRoom).  initial is kept only
\* for the lot a claim made, which is where capOwn reads it.
creditLot(l, k, origin, units) ==
    IF k \in DOMAIN l
    THEN [l EXCEPT ![k].remaining = @ + units,
                   ![k].initial = IF @ > 0 THEN @ + units ELSE @]
    ELSE insertLot(l, k, origin, 0, units)

LotsOf(l, a) == {k \in DOMAIN l : k.account = a}
HasRoom(l, k) ==
    k \in DOMAIN l \/ Cardinality(LotsOf(l, k.account)) < LotsPerAccount

\* The journal after a line for what left each lot.
written(j, gone) ==
    [a \in DOMAIN j |->
        j[a] - SumFunctionOnSet(gone, {k \in DOMAIN gone : k.account = a})]

\* sweepOwn (and the sweeper, over all accounts): the unheld remainder of
\* expired lots expires.
expireLots(d, A) ==
    LET due == {k \in DOMAIN d.lots : k.account \in A /\ Expired(k)}
        gone == [k \in due |-> spendable(d.lots[k])]
    IN  [d EXCEPT !.lots = takeFrom(d.lots, gone, <<>>),
                  !.journal = written(d.journal, gone)]

-----------------------------------------------------------------------------
(* The prelude of an account's operations: sweep its lots, then claim.     *)

\* The entitlement e that a's claim of today has, or may be given.
Entitled(a, e) == IF claims[a].day = today THEN e = claims[a].entitlement
                                           ELSE e \in Shares

claim(d, a, e) ==
    IF claims[a].day = today \/ e = 0 THEN d
    ELSE [d EXCEPT !.lots = insertLot(d.lots, LotKey(a, "free", TRUE, today), a, e, e),
                   !.journal[a] = @ + e]

Claims(a, e) == claims' = [claims EXCEPT ![a] = [day |-> today, entitlement |-> e]]

prelude(d, a, e) == claim(expireLots(d, {a}), a, e)

\* What a lot yields: capOwn holds today's claim lot to min(entitlement, cap).
Yield(l, k, e) ==
    IF l[k].initial > 0 /\ k.day = today
    THEN Lesser(spendable(l[k]), Greater(0,
             Lesser(e, cap) - (l[k].initial - l[k].remaining)))
    ELSE spendable(l[k])

Yields(l, a, e) == [k \in liveLots(l, a) |-> Yield(l, k, e)]

\* planSpend: as plan, but the free lots together yield at most the water w.
planSpend(l, a, e, units, w) ==
    LET y == Yields(l, a, e)
        wet == plan(l, RestrictDomain(y, LAMBDA k : k.bucket = "free"), w)
    IN  plan(l, [k \in DOMAIN y |-> IF k.bucket = "free" THEN At(wet, k)
                                                         ELSE y[k]], units)

debit(d, a, parts) == [d EXCEPT !.lots = takeFrom(d.lots, parts, <<>>),
                                !.journal[a] = @ - SumFunction(parts)]

\* A hold row with its parts; only lots a plan of the same account gave.
NewHold(service, parts, expires) ==
    [service |-> service, max |-> SumFunction(parts), used |-> 0,
     state |-> "held", expires |-> expires, parts |-> parts,
     reimbursed |-> FALSE]

hold(d, id, service, parts, expires) ==
    [d EXCEPT !.holds = insert(d.holds, id, NewHold(service, parts, expires)),
              !.lots = takeFrom(d.lots, <<>>, [k \in DOMAIN parts |-> 0 - parts[k]])]

\* Spend.
Spend(a, e, n, w) ==
    LET d == prelude(db, a, e)
        parts == planSpend(d.lots, a, e, n, w)
    IN  /\ Entitled(a, e)
        /\ SumFunction(parts) = n
        /\ Write(debit(d, a, parts))
        /\ Claims(a, e)
        /\ UNCHANGED <<now, cap, frozen, breaker, swept>>

OpenHolds(services) ==
    {id \in DOMAIN holds : holds[id].state = "held" /\ holds[id].service \in services}

HoldRoom(a) ==
    LET open == OpenHolds({"call"})
    IN  /\ Cardinality(open) < HoldsTotal
        /\ Cardinality({h \in open : h.account = a}) < HoldsPerAccount

\* Reserve, for a call or for a deposit: only calls have a bound the model
\* can reach.  A key that names a hold already is refused.  The first guard
\* is the model's bound on time.
Reserve(a, e, key, n, w) ==
    LET id == Id(a, "service", key)
        service == ServiceOf(key)
        d == prelude(db, a, e)
        parts == planSpend(d.lots, a, e, n, w)
    IN  /\ now + TTL <= Horizon
        /\ id \notin DOMAIN holds
        /\ service = "call" => HoldRoom(a)
        /\ Entitled(a, e)
        /\ SumFunction(parts) = n
        /\ Write(hold(d, id, service, parts, now + TTL))
        /\ Claims(a, e)
        /\ UNCHANGED <<now, cap, frozen, breaker, swept>>

-----------------------------------------------------------------------------
(* Settling service holds.                                                 *)

\* settle: used units are spent in spend order, the others return to their
\* lots, or expire with them.
settle(d, id, used, final) ==
    LET h == d.holds[id]
        taken == plan(d.lots, h.parts, used)
        lost == [k \in {k \in DOMAIN h.parts : Expired(k)} |->
                    h.parts[k] - At(taken, k)]
        gone == [k \in DOMAIN h.parts |-> At(taken, k) + At(lost, k)]
    IN  [d EXCEPT !.lots = takeFrom(d.lots, gone, h.parts),
                  !.journal[id.account] = @ - used - SumFunction(lost),
                  !.holds[id].state = final,
                  !.holds[id].used = used]

Settleable(id) == IsService(id) /\ holds[id].state = "held"

Commit(id, used) ==
    /\ Settleable(id)
    /\ used <= holds[id].max
    /\ Write(settle(db, id, used, "committed"))
    /\ UNCHANGED <<now, cap, frozen, breaker, claims, swept>>

Refund(id) ==
    /\ Settleable(id)
    /\ Write(settle(db, id, 0, "refunded"))
    /\ UNCHANGED <<now, cap, frozen, breaker, claims, swept>>

\* mint, forced past the lot bound (top-ups and reimbursements are).
mint(d, a, bucket, n) ==
    IF n = 0 THEN d
    ELSE [d EXCEPT !.lots = creditLot(d.lots, LotKey(a, bucket, TRUE, today), a, n),
                   !.journal[a] = @ + n]

Supply == SumFunction(journal)

Mint(a, bucket, n) ==
    /\ Supply + n <= MaxSupply
    /\ bucket = "paid" \/ HasRoom(lots, LotKey(a, bucket, TRUE, today))
    /\ Write(mint(db, a, bucket, n))
    /\ UNCHANGED <<now, cap, frozen, breaker, claims, swept>>

\* Mutant: a reimbursed call is marked refunded.
ReimburseAsRefund(id) ==
    LET h == holds[id]
        nonpaid == Lesser(h.used, SumFunctionOnSet(h.parts,
                              {k \in DOMAIN h.parts : k.bucket # "paid"}))
        d == mint(mint(db, id.account, "granted", nonpaid),
                  id.account, "paid", h.used - nonpaid)
    IN  /\ IsService(id)
        /\ h.state \in {"committed", "expired"}
        /\ h.used > 0
        /\ ~h.reimbursed
        /\ Write([d EXCEPT !.holds[id].reimbursed = TRUE,
                           !.holds[id].state = "refunded"])
        /\ UNCHANGED <<now, cap, frozen, breaker, claims, swept>>

\* Reimburse: what a settled hold used is minted again, free units as granted
\* ones.  Free and granted units were used before paid ones.
Reimburse(id) ==
    LET h == holds[id]
        nonpaid == Lesser(h.used, SumFunctionOnSet(h.parts,
                              {k \in DOMAIN h.parts : k.bucket # "paid"}))
        d == mint(mint(db, id.account, "granted", nonpaid),
                  id.account, "paid", h.used - nonpaid)
    IN  /\ IsService(id)
        /\ h.state \in {"committed", "expired"}
        /\ h.used > 0
        /\ ~h.reimbursed
        /\ Write([d EXCEPT !.holds[id].reimbursed = TRUE])
        /\ UNCHANGED <<now, cap, frozen, breaker, claims, swept>>

-----------------------------------------------------------------------------
(* Moving units.                                                           *)

\* Where a part of lot k of l goes when it moves to account b.
Destination(l, k, b) == LotKey(b, k.bucket, l[k].origin = b, k.day)

\* creditLot, part by part in the plan's order.
creditParts(l, src, parts, b) ==
    LET last(K) == CHOOSE k \in K : \A j \in K \ {k} : Before(src, j, k)
        part(k) == [key |-> Destination(src, k, b), origin |-> src[k].origin,
                    units |-> parts[k]]
    IN  MapThenFoldSet(LAMBDA p, acc : creditLot(acc, p.key, p.origin, p.units),
                       l, part, last, DOMAIN parts)

\* Mutant: the recipient is journalled units that expired on the way.
MovePartsUnchecked(d, a, b, parts, held) ==
    LET moving == RestrictDomain(parts, LAMBDA k : ~Expired(k))
        l == takeFrom(d.lots, parts, IF held THEN parts ELSE <<>>)
    IN  [d EXCEPT !.lots = creditParts(l, d.lots, moving, b),
                  !.journal[a] = @ - SumFunction(parts),
                  !.journal[b] = @ + SumFunction(parts)]

\* moveParts: units of expired lots expire, the others move.  Held units
\* leave their hold first.
moveParts(d, a, b, parts, held) ==
    LET moving == RestrictDomain(parts, LAMBDA k : ~Expired(k))
        l == takeFrom(d.lots, parts, IF held THEN parts ELSE <<>>)
    IN  [d EXCEPT !.lots = creditParts(l, d.lots, moving, b),
                  !.journal[a] = @ - SumFunction(parts),
                  !.journal[b] = @ + SumFunction(moving)]

\* No creditLot of the move refuses: the recipient keeps within its bound.
Receives(d, b, parts) ==
    LET new == {Destination(d.lots, k, b) : k \in {k \in DOMAIN parts : ~Expired(k)}}
                 \ DOMAIN d.lots
    IN  new = {} \/ Cardinality(LotsOf(d.lots, b) \cup new) <= LotsPerAccount

Moved(parts) == SumFunction(RestrictDomain(parts, LAMBDA k : ~Expired(k)))

\* The transfer row and its usage: what is sent counts on the day it is made.
record(d, id, t) == [d EXCEPT !.transfers = insert(d.transfers, id, t),
                              !.incoming[today][t.to] = @ + t.amount]

\* spike: today's plain transfers of a, this one included, trip the breaker
\* (the median of the thirty days before is zero in a model this short).
Spikes(a) == Cardinality({id \in DOMAIN transfers :
                 /\ id.account = a /\ id.kind = "transfer"
                 /\ transfers[id].created \div DayLen = today}) + 1 > SpikeFloor

\* The pending transfers of a that pendingLimit counts, and its bound.
CountedPending(a) == {id \in DOMAIN transfers :
                        /\ id.account = a /\ id.kind = "transfer"
                        /\ transfers[id].state = "pending"
                        /\ transfers[id].created >= now - TransferDelay - DayLen}
pendingLimit(a) == Cardinality(CountedPending(a)) < TransfersPendingMax

\* What transfer and escrow share: the prelude, then the fee.
withFee(d, a, e, w) == debit(d, a, planSpend(d.lots, a, e, Fee, w))
CoversFee(d, a, e, w) == SumFunction(planSpend(d.lots, a, e, Fee, w)) = Fee

\* The plan of a move: transferable lots that outlive t.
planMove(d, a, e, n, t) ==
    plan(d.lots, RestrictDomain(Yields(d.lots, a, e),
             LAMBDA k : k.bucket \in Transferable /\ Outlives(k, t)), n)

Transfer(a, b, e, key, n, w) ==
    LET id == Id(a, "transfer", key)
        d0 == prelude(db, a, e)
        d == withFee(d0, a, e, w)
        parts == planMove(d, a, e, n, now)
        pending == Spikes(a) \/ breaker[a] > now
        execute == now + TransferDelay
    IN  /\ a # b
        /\ id \notin DOMAIN transfers
        /\ ~frozen
        /\ Entitled(a, e)
        /\ CoversFee(d0, a, e, w)
        /\ SumFunction(parts) = n
        /\ incoming[today][b] + n <= InboundCap
        /\ IF pending
           THEN /\ pendingLimit(a)
                /\ execute <= Horizon
                /\ Write(record(hold(d, id, "ledger", parts, execute),
                                id, NewTransfer(b, n, "pending", execute)))
           ELSE /\ Receives(d, b, parts)
                /\ Write(record(moveParts(d, a, b, parts, FALSE),
                                id, NewTransfer(b, n, "done", now)))
        /\ breaker' = [breaker EXCEPT ![a] = IF Spikes(a) THEN execute ELSE @]
        /\ Claims(a, e)
        /\ UNCHANGED <<now, cap, frozen, swept>>

\* Mutant: the usage of today is given back.
ReleaseToday(d, id) ==
    LET t == d.transfers[id]
    IN  [d EXCEPT !.lots = takeFrom(d.lots, <<>>, d.holds[id].parts),
                  !.holds[id].state = "refunded",
                  !.transfers[id].state = "cancelled",
                  !.incoming[today][t.to] = @ - t.amount]

\* release: a pending transfer's units return to the sender's lots.
release(d, id) ==
    LET t == d.transfers[id]
    IN  [d EXCEPT !.lots = takeFrom(d.lots, <<>>, d.holds[id].parts),
                  !.holds[id].state = "refunded",
                  !.transfers[id].state = "cancelled",
                  !.incoming[t.created \div DayLen][t.to] = @ - t.amount]

\* Mutant: a due transfer can still be cancelled.
CancelDue(id) ==
    /\ id \in DOMAIN transfers
    /\ transfers[id].state = "pending"
    /\ Write(release(db, id))
    /\ UNCHANGED <<now, cap, frozen, breaker, claims, swept>>

CancelTransfer(id) ==
    /\ id \in DOMAIN transfers
    /\ transfers[id].state = "pending"
    /\ now < transfers[id].execute
    /\ Write(release(db, id))
    /\ UNCHANGED <<now, cap, frozen, breaker, claims, swept>>

\* The payment of a hold's units, by a due transfer or an escrow.
pay(d, id, b) ==
    LET parts == d.holds[id].parts
    IN  [moveParts(d, id.account, b, parts, TRUE) EXCEPT
            !.holds[id].state = "committed", !.holds[id].used = Moved(parts)]

\* executeDue: in a savepoint; a recipient without room cancels the transfer.
executeDue(d, id) ==
    LET b == d.transfers[id].to
    IN  IF Receives(d, b, d.holds[id].parts)
        THEN [pay(d, id, b) EXCEPT !.transfers[id].state = "done"]
        ELSE release(d, id)

-----------------------------------------------------------------------------
(* Escrows.                                                                *)

Escrow(a, e, key, n, until, w) ==
    LET id == Id(a, "escrow", key)
        d0 == prelude(db, a, e)
        d == withFee(d0, a, e, w)
        parts == planMove(d, a, e, n, until)
    IN  /\ until > now
        /\ id \notin DOMAIN holds
        /\ ~frozen
        /\ Entitled(a, e)
        /\ CoversFee(d0, a, e, w)
        /\ SumFunction(parts) = n
        /\ Write(hold(d, id, "ledger", parts, until))
        /\ Claims(a, e)
        /\ UNCHANGED <<now, cap, frozen, breaker, swept>>

\* EscrowPay: done at once, or pending behind the breaker or the lever.
EscrowPay(id, b) ==
    LET n == holds[id].max
        execute == IF frozen THEN now ELSE now + TransferDelay
    IN  /\ Unpaid(id)
        /\ b # id.account
        /\ incoming[today][b] + n <= InboundCap
        /\ IF breaker[id.account] > now \/ frozen
           THEN /\ execute <= Horizon
                /\ Write(record([db EXCEPT !.holds[id].expires = execute],
                                id, NewTransfer(b, n, "pending", execute)))
           ELSE /\ Receives(db, b, holds[id].parts)
                /\ Write(record(pay(db, id, b),
                                id, NewTransfer(b, n, "done", now)))
        /\ UNCHANGED <<now, cap, frozen, breaker, claims, swept>>

EscrowRelease(id) ==
    /\ Unpaid(id)
    /\ Write([db EXCEPT !.lots = takeFrom(lots, <<>>, holds[id].parts),
                        !.holds[id].state = "refunded"])
    /\ UNCHANGED <<now, cap, frozen, breaker, claims, swept>>

\* Mutant: the source keeps the parts it gives.
MoveEscrowCopied(d, src, into, n) ==
    LET moved == plan(d.lots, d.holds[src].parts, n)
        to == d.holds[into].parts
    IN  [d EXCEPT
          !.holds[src].max = @ - n,
          !.holds[into].parts = [k \in DOMAIN to \cup DOMAIN moved |->
                                     At(to, k) + At(moved, k)],
          !.holds[into].max = @ + n]

\* moveEscrow: n units of src's parts, in spend order, become into's.
moveEscrow(d, src, into, n) ==
    LET moved == plan(d.lots, d.holds[src].parts, n)
        from == d.holds[src].parts
        to == d.holds[into].parts
    IN  [d EXCEPT
          !.holds[src].parts = Positive([k \in DOMAIN from |-> from[k] - At(moved, k)]),
          !.holds[src].max = @ - n,
          !.holds[into].parts = [k \in DOMAIN to \cup DOMAIN moved |->
                                     At(to, k) + At(moved, k)],
          !.holds[into].max = @ + n]

\* EscrowSplit and EscrowJoin; the board calls them on unpaid escrows only.
EscrowSplit(src, key, n, until) ==
    LET id == Id(src.account, "escrow", key)
        end == Lesser(until, holds[src].expires)
    IN  /\ Unpaid(src)
        /\ id \notin DOMAIN holds
        /\ until > now
        /\ n <= holds[src].max
        /\ Write(moveEscrow(hold(db, id, "ledger", <<>>, end), src, id, n))
        /\ UNCHANGED <<now, cap, frozen, breaker, claims, swept>>

\* Mutant: the emptied escrow stays held.
EscrowJoinOpen(src, into) ==
    /\ Unpaid(src) /\ Unpaid(into)
    /\ src # into
    /\ src.account = into.account
    /\ \A k \in DOMAIN holds[src].parts : Outlives(k, holds[into].expires)
    /\ Write(moveEscrow(db, src, into, holds[src].max))
    /\ UNCHANGED <<now, cap, frozen, breaker, claims, swept>>

EscrowJoin(src, into) ==
    /\ Unpaid(src) /\ Unpaid(into)
    /\ src # into
    /\ src.account = into.account
    /\ \A k \in DOMAIN holds[src].parts : Outlives(k, holds[into].expires)
    /\ Write([moveEscrow(db, src, into, holds[src].max) EXCEPT
                 !.holds[src].state = "refunded"])
    /\ UNCHANGED <<now, cap, frozen, breaker, claims, swept>>

-----------------------------------------------------------------------------
(* The sweeper, the operator, the accounts' keys and the clock.            *)

\* A service hold past its end: a call is charged in full, for its outcome is
\* unknown; a deposit lapses.
lapse(d, id) == IF d.holds[id].service = "deposit"
                THEN settle(d, id, 0, "refunded")
                ELSE settle(d, id, d.holds[id].max, "expired")

\* Mutant: the sweeper leaves calls open.
DueDeposits(d) == {id \in DOMAIN d.holds : /\ d.holds[id].state = "held"
                                           /\ d.holds[id].service = "deposit"
                                           /\ d.holds[id].expires <= now}

DueHolds(d) == {id \in DOMAIN d.holds : /\ d.holds[id].state = "held"
                                        /\ d.holds[id].service # "ledger"
                                        /\ d.holds[id].expires <= now}

DueTransfers(d) == {id \in DOMAIN d.transfers :
                      /\ d.transfers[id].state = "pending"
                      /\ d.transfers[id].execute <= now
                      /\ ~frozen}

\* The orders a loop over S may take, and those by the time a transfer of S is
\* due.
Orders(S) == Bijection(1..Cardinality(S), S)
ByDue(d, S) == {s \in Orders(S) :
                 \A i, j \in DOMAIN s : i < j => d.transfers[s[i]].execute
                                               <= d.transfers[s[j]].execute}

\* One row of the sweep's loops, and n of them in the order due.
finish(d, id) == IF id.kind = "service" THEN lapse(d, id) ELSE executeDue(d, id)
finishAll(d, due, n) ==
    LET done[i \in 0..n] == IF i = 0 THEN d ELSE finish(done[i - 1], due[i])
    IN  done[n]

\* decay of the unheld units of granted lots; the rate is left open: lot k
\* keeps keep[k] of them.
decay(d, keep) ==
    LET gone == [k \in DOMAIN keep |-> spendable(d.lots[k]) - keep[k]]
    IN  [d EXCEPT !.lots = takeFrom(d.lots, gone, <<>>),
                  !.journal = written(d.journal, gone)]

Decaying(d) == {k \in DOMAIN d.lots :
                  k.bucket = "granted" /\ Greater(k.day, swept) < today}

\* What each decaying lot may keep of its unheld units.
Keeps(d) == {keep \in [Decaying(d) -> 0..MaxSupply] :
               \A k \in DOMAIN keep : keep[k] <= spendable(d.lots[k])}

\* The tables that may be left by a sweep from each of its steps on: lots
\* expire, service holds lapse, due transfers run, lots decay.  The limit on
\* the rows of a step is out of the model's reach.
decayLots(d) == {decay(d, keep) : keep \in Keeps(d)}

runTransfers(d) ==
    LET due == DueTransfers(d)
    IN  UNION {decayLots(finishAll(d, s, Cardinality(due))) : s \in ByDue(d, due)}

lapseHolds(d) ==
    LET due == DueHolds(d)
    IN  UNION {runTransfers(finishAll(d, s, Cardinality(due))) : s \in Orders(due)}

Outcomes == lapseHolds(expireLots(db, Accounts))

Sweep == /\ \E d \in Outcomes : Write(d)
         /\ swept' = today
         /\ UNCHANGED <<now, cap, frozen, breaker, claims>>

\* A key rotation, a link, an unlink or a dormant account's claim.
TripBreaker(a) == /\ breaker' = [breaker EXCEPT ![a] = now + TransferDelay]
                  /\ UNCHANGED <<now, cap, frozen, claims, swept, lots, holds,
                                 transfers, incoming, journal>>

FreezeTransfers(f) == /\ f # frozen
                      /\ frozen' = f
                      /\ UNCHANGED <<now, cap, breaker, claims, swept, lots,
                                     holds, transfers, incoming, journal>>

SetCap(c) == /\ c # cap
             /\ cap' = c
             /\ UNCHANGED <<now, frozen, breaker, claims, swept, lots, holds,
                            transfers, incoming, journal>>

Tick == /\ now < Horizon
        /\ now' = now + 1
        /\ UNCHANGED <<cap, frozen, breaker, claims, swept, lots, holds,
                       transfers, incoming, journal>>

Water == 0..MaxUnits

Next ==
    \/ \E a \in Active, e \in Shares, n \in Units, w \in Water :
         \/ Spend(a, e, n, w)
         \/ \E key \in CallKeys \cup DepositKeys : Reserve(a, e, key, n, w)
         \/ \E key \in TransferKeys, b \in Accounts : Transfer(a, b, e, key, n, w)
         \/ \E key \in EscrowKeys, until \in Untils : Escrow(a, e, key, n, until, w)
    \/ \E a \in Funded, bucket \in Minted, n \in Units : Mint(a, bucket, n)
    \/ \E id \in DOMAIN holds :
         \/ \E used \in 0..MaxUnits : Commit(id, used)
         \/ Refund(id)
         \/ Reimburse(id)
         \/ \E b \in Accounts : EscrowPay(id, b)
         \/ EscrowRelease(id)
         \/ \E key \in EscrowKeys, n \in Units, until \in Untils :
              EscrowSplit(id, key, n, until)
         \/ \E into \in DOMAIN holds : EscrowJoin(id, into)
    \/ \E id \in DOMAIN transfers : CancelTransfer(id)
    \/ Sweep
    \/ \E a \in Rotating : TripBreaker(a)
    \/ \E f \in Freezes : FreezeTransfers(f)
    \/ \E c \in Caps : SetCap(c)
    \/ Tick

Spec == Init /\ [][Next]_vars

\* Whether a sweep would change something: ENABLED <<Sweep>>_vars.
SweepDue == \/ swept # today
            \/ DueHolds(db) # {} \/ DueTransfers(db) # {}
            \/ \E k \in DOMAIN lots : Expired(k) /\ spendable(lots[k]) > 0

\* The board runs the sweeper every minute, so a sweep that has something to
\* do happens (WF_vars(Sweep), spelled out), and the clock advances.
LiveSpec == /\ Spec
            /\ []<>~SweepDue \/ []<><<Sweep>>_vars
            /\ WF_vars(Tick)

-----------------------------------------------------------------------------
\* The tables have their columns; no lot holds more units than it has.
TypeOK ==
    /\ now \in 0..Horizon
    /\ cap \in Caps
    /\ frozen \in BOOLEAN
    /\ breaker \in [Accounts -> Nat]
    /\ claims \in [Accounts -> [day : Days \cup {-1}, entitlement : Shares \cup {0}]]
    /\ swept \in Days
    /\ \A k \in DOMAIN lots :
         /\ k \in [account : Accounts, bucket : {"free", "granted", "paid"},
                   own : BOOLEAN, day : Days]
         /\ lots[k] \in [origin : Accounts, initial : Nat, seq : Nat,
                         remaining : Nat \ {0}, held : Nat]
         /\ lots[k].held <= lots[k].remaining
    /\ DOMAIN holds \subseteq Ids
    /\ \A id \in DOMAIN holds :
         /\ holds[id].state \in HoldStates
         /\ holds[id].used \in 0..holds[id].max
    /\ DOMAIN transfers \subseteq Ids
    /\ \A id \in DOMAIN transfers :
         /\ transfers[id].state \in {"pending", "done", "cancelled"}
         /\ transfers[id].to \in Accounts \ {id.account}
    /\ incoming \in [Days -> [Accounts -> Nat]]
    /\ journal \in [Accounts -> Nat]

\* The held column of every lot is what the open holds keep on it, whichever
\* of a call's settle, the sweeper, a transfer or an escrow ended the others;
\* a hold's parts are lots of its own account and cover it exactly.
HeldIsHolds ==
    /\ \A k \in DOMAIN lots :
         lots[k].held = SumFunction([id \in Open |-> At(holds[id].parts, k)])
    /\ \A id \in Open :
         /\ DOMAIN holds[id].parts \subseteq LotsOf(lots, id.account)
         /\ SumFunction(holds[id].parts) = holds[id].max

\* The journal accounts for every unit: what its lines add up to is what the
\* account's lots hold.
BooksBalance ==
    \A a \in Accounts :
        journal[a] = SumFunction([k \in LotsOf(lots, a) |-> lots[k].remaining])

\* What counts against a recipient's inbound cap is what was sent to it that
\* day and not cancelled, and it stays within the cap.
InboundAccounted ==
    \A d \in Days, b \in Accounts :
        /\ incoming[d][b] = SumFunction([id \in
             {id \in DOMAIN transfers : /\ transfers[id].to = b
                                        /\ transfers[id].created \div DayLen = d
                                        /\ transfers[id].state # "cancelled"}
             |-> transfers[id].amount])
        /\ incoming[d][b] <= InboundCap

\* A pending transfer that is due is never cancelled by its sender: from then
\* on only a recipient without room for the lot ends it unpaid.
DueIsPaid ==
    [][\A id \in DOMAIN transfers :
         (/\ transfers[id].state = "pending"
          /\ transfers[id].execute <= now
          /\ transfers'[id].state = "cancelled")
           => Cardinality(LotsOf(lots, transfers[id].to)
                            \cup LotsOf(lots', transfers[id].to))
                >= LotsPerAccount]_vars

Pending(id) == id \in DOMAIN transfers /\ transfers[id].state = "pending"

\* A service hold ends, whatever its caller does: the sweeper settles it.  And
\* once transfers are no longer frozen, a pending one is paid or cancelled.
HoldsEnd ==
    \A id \in Ids : id.account \in Active =>
        IF id.kind = "service" THEN (id \in Open) ~> (id \notin Open)
        ELSE <>[]~frozen => (Pending(id) ~> ~Pending(id))

-----------------------------------------------------------------------------
(* What a comment of the code says and the code does not do.               *)

\* escrow.go: held units never expire while held, "because only lots that
\* outlive the hold's end are held at all".
EscrowOutlived ==
    \A id \in Open : id.kind = "escrow" =>
        \A k \in DOMAIN holds[id].parts : Outlives(k, holds[id].expires)
=============================================================================
