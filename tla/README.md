# SwarmMemo: a TLA+ verification project

TLA+ models of the stateful core of SwarmMemo, the TLC instances that check
them and the TLAPS proofs about them. The models are translated from the Go
source; `PROJECT.json` maps every definition to the lines it stands for, and
lists the runs, the mutants that show each property can fail, the hazards and
the theorems.

## 1. The system

SwarmMemo is one Go process over one SQLite database with one connection
(`SetMaxOpenConns(1)`). A command is one transaction: it commits as a whole or
leaves nothing, so in every module a command is one action, and a refused
command is no step. What is hard lies where the code leaves that shelter:

* work that follows a commit in a goroutine of its own (a remote service call,
  the settling of a payment) and comes back in a second transaction;
* background loops (the ledger's sweeper every minute, the services worker, the
  webhook sender) that act on the same rows;
* code that is several statements with no transaction around them (the webhook
  sender; the operator's command, in a process of its own);
* clocks: days that roll over, holds, leases and lots that end while somebody
  else is using them; parameters and levers that change in between.

| Part | State | Operations | Interacts with |
|---|---|---|---|
| daily share rule (`ledger/pools.go`) | per day and resource: three slices with size, claimed, lent, borrowed; the day's budget and spend | open, adjust, draw, undraw, anonymous release | every spend, hold and settle |
| ledger (`ledger/*.go`) | lots by bucket, holds with parts, transfers, incoming counters, journal, breakers, claims | spend, reserve, commit, refund, reimburse, mint, transfer, cancel, escrow pay, release, split and join, sweep | services, work, top-ups |
| services engine (`services/engine.go`) | call rows, jobs, slots in memory | call, run, settle, worker pass, reconcile, stop | ledger holds, upstreams |
| webhooks (`board/webhooks.go`, `webhookdelivery.go`) | subscriptions, queue, hourly counters | create, delete, enqueue, claim, send, settle, expire | posts, receivers |
| top-ups (`board/topup.go`) | `credit_topups`, paid lots | present, settle, record, credit, restart, resolve | facilitator, chain, operator |
| work (`board/work*.go`) | requests, claims, results, rewards | request, claim, submit, accept, reject, late accept, expiry | ledger escrow |
| standing tasks, USDC rewards, bonds, split payouts | seats and queues; chain payments; deposits; deferred halves | open, queue, settle, refund | work, ledger, chain |
| MCP events, web push | subscriptions, queues | subscribe, verify, deliver | webhook sender |
| transparency log (`board/transparency.go`, `tlog`) | leaves, cursors, checkpoints | catch up, sign, prove | every public row |
| OAuth, delegation, devices | codes, token families, grants, keys | authorize, refresh, revoke, rotate | commands' signers |
| outbox and inbox clients (`clients/python`) | durable queue, cursors | queue, send, resume, fetch | accepted-request cache |

The rest of the repository (posts and feeds, reputation, moderation, search,
HTTP, rendering, encodings, scripts) keeps no state between steps that another
actor disturbs; `PROJECT.json` lists each part with the reason.

What makes the core correct, in one sentence each: the day never gives more
water than its budget and always knows where it went; units are in exactly one
place and every hold ends; what a call is recorded to cost is what was taken
for it; a receiver gets what it subscribed to and only that; credit is minted
for money and money is never written off; a reward is paid for accepted work and
for nothing else; a command that is sent again is executed once.

## 2. Modules

| Module | Models | Kind |
|---|---|---|
| `ShareRule` | the arithmetic of a day's slices (`pools.go`) | operators |
| `DayPools` | one resource's days under spends, holds, mints, settles, parameters and levers | component |
| `LedgerRows` | the rows of holds and transfers, and what an operation may make of them | abstract specification |
| `Ledger` | lots, holds, transfers, escrow, journal and the sweeper, over `LedgerRows` | component |
| `CallHolds` | what the ledger promises of a service call's hold | abstract specification |
| `EscrowHolds` | what the ledger promises of an escrow | abstract specification |
| `ServiceCalls` | the services engine, over `CallHolds` | composition |
| `Webhooks` | subscriptions, queue, sender and maintenance | component |
| `Topups` | x402 top-ups: server, facilitator, operators | composition |
| `Work` | a work item and its money, over `EscrowHolds` | composition |
| `Requests` | the board's accepted-request cache and anonymous salts | component |
| `Outbox` | the client's durable queue, the network, over `Requests` | composition |
| `DayPoolsProofs`, `LedgerRowsProofs`, `LedgerProofs`, `ServiceCallsProofs`, `WebhooksProofs`, `TopupsProofs`, `WorkProofs`, `OutboxProofs` | theorems | proofs |
| `MC*` | constants for TLC | instances |

Each component module holds its state, actions, specification and properties.
A definition whose name reads like a slip (`ClaimLeased`, `CancelDue`,
`ReimburseAsRefund`, ...), placed before the definition it varies, is the
mutant that shows a property would notice.

### ShareRule and DayPools

A day is a record of its effective budget, the columns of its three slices
(`grant`, `floor`, `standing`: size, claimed, lent, borrowed), what anonymous
lots drew and what was spent outside paid credit. `computeOpen`, `adjust`,
`drawable`, `draw`, `undraw` and `anonRoom` are translated one for one; shares
are parts of `Ppm`, 1e6 in the code. `DayPools` keeps, besides the slices, where
every drawn unit is: in an open hold or spent for good (`held`, `used`,
`minted`). Only the slices are rows of the code; the rest is what lots, parts
and the journal say of them, summed, so that `DrawsAccounted` compares two
independent records. A spend is a plan over lots of two origins plus minted
units, drawn in one action; a settle chooses how much of which open hold is used
and returns the rest to the day it came from. `SetParams` and `PullLever` change
the rule at any time.

### LedgerRows, Ledger, CallHolds and EscrowHolds

Lots are a function from a key (account, bucket, own or received, day) to what
is left, held and the order of creation; the code's lots of one key differ in
nothing the properties tell apart. Holds have their parts by lot. Every command
is an action that rewrites a record of the tables (`Write`) as the code's
transaction does, including the sweeping of the account's own expired lots
before a spend, the claim, caps and journal lines. `Sweep` is the whole sweep:
expired lots, expired holds, due transfers in order of their time (each in a
savepoint, cancelled when the recipient refuses), demurrage.

Left open: how much water a free lot gets on a spend (`DayPools` decides it),
how large the daily claim is, and the rate of decay. Merged: granted and earned
lots. Left out: the limit of rows a sweep handles; the median in the spike rule
(taken as zero, so the floor decides).

`CallHolds` is the promise service calls rely on: a hold is reserved once, is
committed, refunded or lapses exactly once, and every hold past its end lapses
together when the sweeper runs. `EscrowHolds` is the one work relies on: an
escrow is opened once and paid or released once, whole; a payment that must wait
is executed or cancelled once; splits and joins move units between held escrows
only. `Ledger` is shown to implement both (`KeepsPromise`, `KeepsEscrow`);
`ServiceCalls` and `Work` use them as the ledger.

`LedgerRows` lies between: it has the clock and the two tables these promises
are about, holds and transfers, and says of each operation what it may make of
their rows, whichever lots the units are on (which parts a hold has, and how much
of them a payment still finds, is left open). `Ledger` extends it with the lots,
the journal and the rest. That every step of the ledger is a step of the rows is
proved, not assumed (section 6), so the promises are proved once, of `LedgerRows`,
and hold of `Ledger`.

### ServiceCalls

`Call` is the admission transaction: bounds on running calls, reservation, row.
`Finish(c)` is the goroutine after the commit, split where the code waits or
commits (a slot is given back as the goroutine ends, by its deferred receives):
the unsigned callers' slot, the shared slot, the run, then the settle or, when
an async provider answers with a job, its scheduling. `WorkStep` is the worker:
its pass reads due jobs once, then leases, runs and settles them one by one and
reconciles. `Sweep` is the ledger's. `Crash` loses goroutines and slots and
keeps tables; `Stop` is seen as a crash. What a provider answers is open. Data
nobody reads again (the deadline of a run that is over, the columns of a job
that is) is reset. Local calls, which run inside their command's transaction,
meet none of this and are not modelled.

### Webhooks

`Create`, `Delete` and `Post` are transactions, and so are hiding a post,
restoring it (`Moderate`, by the operator or a room) and its withdrawal by its
author with all of its versions (`withdrawMessage`): `setHidden` drops what is
still queued for the post or for a version of it. `Origin` says which events are
versions of which; a version follows its original while none of them is hidden
(`checkSupersession`), and a hidden post's deliveries that a worker has read are
on their way. `claimDelivery`, the look at the subscription, the request and
`settle` are statements of their own, each a step of `Deliver(w)`; `Lose(w)`
abandons a delivery between any two (a failed statement, a stopped process: the
row stays leased). `expireWebhooks` is two statements, either of which may fail.
Time in the tables is what is left of it. The order in which due rows are
claimed is left open (the code takes the oldest). The sender's other rows (MCP
events, web push) and the cleaning of old hourly counters are not modelled.

### Topups

`Present` is the command's transaction; `Settle(n)` is `settleTopup` after the
commit: ask the facilitator, record the outcome, credit. The facilitator may
answer, time out and settle later, or refuse. `Restart` is the start of the
server over rows left `settling`. `Resolve(o)` is the operator's command, its
statements apart, in several processes at once. Assumed of the world, because
the code relies on it: a refusal of the facilitator is final; an authorization
moves money at most once; the operator fails only authorizations that have
lapsed unused, and credits with a hash that is on chain, possibly another
row's.

### Work

One item: its row, the rows of its reward, review fee and USDC, the escrows
behind them and what each decider last read of it. `Create`, `Claim`,
`ClaimWithResult`, `Renew`, `Submit`, `SetReviewer`, `Accept`, `AcceptReply`,
`Reject`, `LateAccept` and `Cancel` are the commands, each with the payments,
splits, releases and fees its transaction makes; `Sweep` is what the minute's
loop does to the item (the ledger's pending payments, the deferred part of a
split, the deadline's releases and reject fee). The fencing token is a number
that grows with each claim; a decider's command names what they read. `Restore`
is a recovery from a backup: another generation, and a decider that remembers an
attempt the tables have lost. The USDC is a debt the board records, never money
it moves.

Left open, because they only refuse: who may claim beyond the item's own rules
(standing, the pause after rejections), whether a payment waits (breaker,
freeze), whether a recipient is at its inbound cap. Results on standing tasks
are not modelled.

### Requests and Outbox

`executeCommand` asks, in the code's order: the caller's own rows under today's
pseudonym and, in the grace after midnight, yesterday's; another network's
identical public post; staleness of the signature and the key's rotation; the
key's identical public post under another id. What was not seen before is
executed and remembered in one transaction. `Refuse` stands for everything else
that may refuse a command.

`Outbox` adds the client: a flush holds the file lock, takes the first rows and
for each signs, marks, sends and records, every commit a step of its own; it may
die between any two. A request may be lost before or after it was executed, its
copies may arrive late and more than once, the server may restart (its salts are
gone), and the same key may post beside the outbox.

## 3. Runs

Every passing run's properties each have a mutant that breaks them under the
same configuration. States are distinct states.

| Run | Question | States |
|---|---|---|
| `day_pools` | around a midnight, with the budget, the shares and a lever changing under open holds: are the slices and the spend exactly what was drawn of their day, and do draws stay within budget and anonymous release? | 31 k |
| `ledger_calls` | a call, a deposit and an escrow of one account reserved, settled, expired, reimbursed, paid and frozen in any order: is the abstract promise kept, and does every hold end? | 64 k |
| `ledger_moves` | a transfer with a fee and two escrows on the same lots, the breaker, cancels, splits, joins, payouts: is every unit in one place, is what is due paid, and does an escrow do only what is promised of it? | 71 k |
| `ledger_outlived` | do held units of an escrow always outlive the hold? (no; section 5) | |
| `service_calls` | a signed async and two unsigned calls compete for two slots: does a call's row say what the ledger took, does its job end as it does, does the signed call find a slot, and does every call, hold and job end, after a crash at any step? | 777 k |
| `webhooks` | one sender per delivery, consent before events, nothing lost or queued for a hidden post and the queue drained, with re-subscription, moderation and a lost step | 657 k |
| `webhooks_disabled` | is a disabled subscription never contacted again? (no; section 5) | |
| `topups` | is credit minted once, for money, within the daily caps, and is money never written off? | 2.2 M |
| `work` | claims, verdicts, late accepts, waiting payments and the sweep around the deadline: do rows and escrows agree, is only accepted work paid, does every escrow end? | 208 k |
| `work_usdc` | the same with USDC and a restored backup: is the debt to the accepted worker, and is the attempt judged that was read? | 597 k |
| `work_late` | is the late accept open for the whole grace? (no; section 5) | |
| `outbox` | four rows over a faulty network, signed or anonymous, around a midnight: in order, executed once, answered with the first receipt, and delivered in the end? | 509 k |

### Bounds, and why they are enough

* `DayPools`: shares in quarters (`Ppm = 4`), a day of 24 hours, a budget and a
  ceiling of 2 with and without a grant share, so that rounding, an empty slice,
  lending in both directions and trimming below what is drawn all happen; the
  lever is half the budget cut. Instants 0, 20 and 24 lie on both sides of the
  spill and of midnight. Units are drawn one at a time (`MaxUnits = 1` per
  origin): two draws in a row make any larger one. The proofs lift all of this.
* `Ledger`: up to two units in the world (`MaxSupply`), a day of two instants
  and a horizon at or past the first midnight, so that a lot can expire under a
  hold and a pending transfer can wait past it. A call, a deposit and an escrow
  (or two escrows, which are symmetric, and a transfer) on the same lots are
  what it takes for one to disturb the other. Where units move, one lot per
  account puts the limit in reach: a payment then meets a recipient without
  room. The limits on open holds are guards of `Reserve` that one call's key
  does not reach (a deposit does not count towards them); no property is about
  them. The levers and the cap change in `ledger_calls`, the breaker trips in
  `ledger_moves`.
* `ServiceCalls`: a signed async call and two unsigned ones with two slots, one
  of them for unsigned calls, so that both semaphores fill up and an unsigned
  call waits for its own; two attempts for a job; one crash at any point; a horizon past hold,
  lease and a second lease.
* `Webhooks`: one url subscribed twice in its life (`MaxGens`), two workers, one
  lost step, attempts and failures of two. A second event is only needed for the
  disabling run, which has one generation and two events. In both an event is
  its own original; what hiding does to versions is left to the proofs, which
  take any `Origin`.
* `Topups`: three authorizations of one unit, three accounts, two days; an
  account's cap of one and the board's of two, so that each cap refuses a top-up
  the other would let through (an account's second, and the third account's); two
  failures anywhere. One operator races the server; several at once are left to
  the proofs.
* `Work`: two workers, one of them also the reviewer, two claims (`MaxFence`), a
  reward of 3 that a split divides unevenly and a reviewed one with every fee, a
  deadline at 2 with a grace of 1 for reviewer and late accept. A backup is
  restored, once, in `work_usdc` only; that an offer stays backed through a
  restore too (`OfferIsBacked`) rests on the theorem `OfferStaysBacked`. A claim
  lasts one instant or two, so it can be renewed and can lapse; with USDC it
  lasts one.
* `Outbox`: two posts, a rotation and a post behind it (`N = 4`; an anonymous
  caller has the two posts only), a flush of two rows, two copies of a request,
  one fault; windows of 2 (signature) and 1 (the two retries), a day of 3 with a
  grace of 1 and a horizon of 4, so that each window can end between two tries
  and a midnight lies in between.

`CHECK_DEADLOCK FALSE` is set for `DayPools`, `Webhooks`, `Topups`, `Work` and
`Outbox`, which come to rest when the clock's last instant is reached or
everything is delivered, settled or decided. In `Ledger` and `ServiceCalls` the
sweeper and the worker can always take a step and deadlock is checked.

### Fairness

* `Ledger!LiveSpec`: a sweep that stays due happens, and the clock advances.
  The board sweeps every minute while the ledger is on. `HoldsEnd` says of
  pending payments that they end if the freeze is lifted for good, because the
  sweeper skips frozen transfers by design.
* `ServiceCalls!LiveSpec`: the worker's loop, the sweeper and the clock go on,
  and a run ends (it has a deadline in its context): weak fairness of `WorkStep`,
  `Sweep`, `Tick` and a run's end, written without `ENABLED`. Nothing is asked of
  the goroutine's other steps: it may stop anywhere.
* `Webhooks!LiveSpec`: a worker at a delivery goes on, maintenance runs, time
  passes (weak fairness of `Deliver`, `Expire` and `Tick`, written with the
  conditions that enable them, `Ready` and `Passing`). A request has a timeout;
  losses are bounded by `MaxLost`.
* `Work!LiveSpec`: the clock, and a sweep that in the end meets neither a freeze
  nor a full inbound cap (the code tries again every minute).
* `Outbox!LiveSpec`: somebody flushes again and again, blocked rows included (the
  documented use; `Flushable` is when that flush is enabled), and a flush ends,
  since a request is answered or times out.

`Webhooks` assumes `ClaimTime + RequestTime + SettleTime < Lease` (the code's
request timeout and statements against a lease of two minutes); without it a
lease could end under its worker.

## 4. Properties

* **Day.** `DrawsAccounted`, `SpendAccounted` (what the ceiling is compared with
  is what the day's lots gave) and `NoSliceOverdrawn` are invariants of the
  day's books; `DrawsStayWithinBudget` and `AnonymousPaced` are about steps: a
  change of parameters may leave a day above its new limits, but no step may
  take more while it is.
* **Ledger.** `HeldIsHolds` (a lot's held units are the open holds' parts of
  it), `BooksBalance` (an account's journal adds up to its lots),
  `InboundAccounted`; `SettledForGood` and `DueIsPaid` about steps;
  `KeepsPromise` and `KeepsEscrow` are the refinements; `HoldsEnd` is liveness.
* **Services.** `CallMatchesHold`, `RunsUnderHold`, `JobMatchesCall` (an async
  call and its job end alike), `SignedFindSlot` (a signed call finds a slot
  unless signed calls have all of theirs: nothing leaks, and unsigned calls stay
  within their part), `OutcomeForGood`, and `CallsEnd` (call, hold and job).
* **Webhooks.** `OneSender`, `AcknowledgedOnce` (only a lost step repeats an
  acknowledged delivery), `ConsentFirst`, `QueueFits` (what is queued belongs to
  a subscription in a state to receive it, and to no hidden post), `NoneLost` (a
  row leaves the queue for one of its reasons, hiding among them), and
  `QueueDrains` (also: no subscription stays pending).
* **Top-ups.** `MintedForMoney`, `NeverWrittenOff`, `WithinDaily`.
* **Work.** `RowsMatchEscrows`, `PaidForAccepted`, `OfferIsBacked`,
  `JudgedAsRead`, `ReviewerNeverWorker`, `USDCToWorker`; `EndedForGood` about
  steps; `EscrowsEnd`.
* **Outbox.** `NoOvertaking`, `AppliedOnce`; `OriginalReceipt` about steps;
  `Delivered`.

## 5. Where the code and its documents disagree

* `ledger_outlived`. `escrow.go:15-18` says held units never expire "because
  only lots that outlive the hold's end are held at all". A payout behind the
  breaker moves the hold's end to now + the transfer delay without looking at
  the lots again (`escrow.go:213`), so held units can expire in it.
* `webhooks_disabled`. `PROTOCOL.md` says a disabled subscription is never
  contacted again. If the worker that confirmed a subscription is lost before
  the challenge's row is deleted, the challenge stays queued; sent again later,
  its 2xx makes the row active whatever its state
  (`webhookdelivery.go:328`), also after failures disabled it.
* `work_late`. `PROTOCOL.md:4446-4452` says that within the grace the requester
  may still accept an undecided result and that the reward is held again and
  paid. With split payouts on and a reward large enough to split, to a worker
  who is no newcomer, that accept is always refused: `splitPayout` asks
  `EscrowSplit` for an end at the deadline, which has passed
  (`splitpayout.go:232`).

Read in the source while modelling, with no run of their own: returned units
merge into the claim's lot (`spend.go:126`, comment at 112-114); `capOwn` does
not count held units (`spend.go:398`, comment at 387-390); the pending limit
counts only recent pending transfers while frozen (`transfers.go:261`, comment
at 252-253); a challenge answered after its expiry makes a subscription active
without the cap being asked again; between a hold's end and the reconciler a
retry of a call is answered "unknown, maximum cost" though a settle on its way
may record less; a split escrow copies its source's own credential and day but
not the shares that joins brought; a row left `settling` because its outcome was
not written in time waits for the next start, since the operator's command
refuses it; a request in flight when its subscription is disabled still arrives;
hiding a later version drops that version's deliveries and keeps its original's,
which is not hidden; the operator's `Moderate` (`messages.go:1017`) restores also
a message its author withdrew, where the comment at `withdraw.go:9-10` says that
neither the room nor the operator does;
`workSettlement` (`splitpayout.go:403`) reads the escrow `work:<id>`, which is
not the one a late accept would have split; in `settleSplitPayouts` a refusal
`recipient_limit` of one part ends the whole pass; after the sweep paid the
reject fee at the deadline, a late accept pays the reward too; a post answered by
`signedPostRetry` stores no row of its own, so an exact retry of that envelope
after `SignedRetrySeconds` and within the signature's window is executed, where
`PROTOCOL.md:741-742` says a write returns its original receipt on an exact
retry.

## 6. Proofs

Checked by TLAPS for every value of the constants the named assumptions allow.

**DayPools** (`ScaleAssumption`, `PoolsAssumption`). The first part of
`DayPoolsProofs` states what the rule's operators do to one day: `AdjustSound`
and `OpenSound` (a new or adjusted day is well formed), `DrawExact` (a draw moves
exactly what it is asked for, from own water and then the other slice's),
`UndrawExact` (giving back what was drawn reverses it without taking a column
below zero). The inductive invariant `Inv` is the type invariant with the
accounting of draws and of spend, balanced lending, no overdrawn slice, and an
empty row for every day that has not opened (so that opening loses nothing). They
need each other: that `undraw` never goes below zero rests on every unit an open
hold can return being in the columns, and that it stays there rests on lending
being balanced. One step each for spend, reserve, mint and settle. Theorems:
`TypeCorrect`, `LendingStaysBalanced`, `DrawsStayAccounted`,
`SpendStaysAccounted`, `NeverOverdrawn`; and from `Inv` the action properties
`DrawsWithinBudget` and `AnonymousStaysPaced`.

**LedgerRows and Ledger** (`RowsAssumption`, `LedgerAssumption`). In two layers.
`LedgerRowsProofs` is about the rows of holds and transfers alone. The inductive
invariant, `RowsInv` of `LedgerRows`, is the shape of the rows with `Linked`:
which holds have a transfer (every pending transfer and every payment of an escrow
has its hold, no service hold has one), and that their states go together. Without
it an escrow that was paid could still be released, since nothing in the hold says
that a transfer waits on it. From it, one lemma per operation and view:
`RowsMatch`, `RowsSettled`, and the refinements `RowsKeepPromise` and
`RowsKeepEscrow`. `LedgerProofs` shows that the ledger, whose operations rewrite
lots, parts and journal besides, implements `LedgerRows` (`LedgerKeepsRows`). The
sweep is the step that takes work: its loops are runs of one body over the due
rows in some order, each on the tables the one before left; by induction along the
run a row is met as it was before the sweep and touched once, whether its transfer
is executed or, for want of room, cancelled. Hence `LedgerMatches`,
`LedgerSettled`, `LedgerKeepsPromise` and `LedgerKeepsEscrow`: an INSTANCE of
`LedgerRowsProofs` over the ledger's own clock and tables brings its theorems, and
a few lemmas say that its definitions are the ledger's. `LedgerInbound` is about
sums: a recipient's usage of a day is the sum over the transfers sent to it that
day and not cancelled, kept by every step because `record` adds to the day a
transfer is made and `release` takes from that same day.

**ServiceCalls** (`ServiceCallsAssumption`). None of the properties is
inductive: that a settled call's cost is what was taken depends on what the
goroutine still about to settle may find. `IInv` adds, for every call, how row,
hold, job and goroutine agree (a goroutine on its way has a running row, or one
that was reconciled past its end; a running row's hold is held or lapsed at its
maximum; a run's deadline with the settlement margin lies within the hold's
end), and for the worker that its pass's instant is not ahead of the clock, that
the jobs on its list exist and that it runs one it has leased. Theorems:
`TypeCorrect`, `CostsWhatIsTaken`, `AskedUnderHold` and `OutcomesStay`. That a
job ends as its call does takes `JobInv` besides: a goroutine on its way has a
call that is running or unknown, so that the job it schedules starts open, and
what a pass has still to do is open and not what it is at, so that no job is
ended twice: `JobsEndAsCalls`. `SlotInv` counts the goroutines with a slot: an
unsigned call has its own before it asks for a shared one, and a goroutine has a
shared one only past the wait for it. The slots taken are then at most the
signed calls past their wait and the unsigned calls' part:
`SignedCallsFindSlots`.

**Webhooks** (`WebhooksAssumption`). All of it rests on the lease. `Leased` says
that a worker's delivery is leased for longer than the worker may still take with
it (what is left of its statement plus `Slack`, the longest of the statements to
come), or has left the queue; a delivery that left never returns, because an
event is posted once and a subscription's id has a generation that is used once
(`Issued`). Hence `OneSender`, and hence what a worker knows of its delivery
(`Knows`) stays true between its statements. `RowOK` and `SubOK` relate rows,
subscriptions and answers: an acknowledged delivery is in the queue only while
its worker settles it, unless a step was lost; a subscription that is not
confirmed has failed at most once, with its challenge, so that it cannot be
disabled unconfirmed; `FoundOK` is what the expiry found in its first statement
and uses in its second. Theorems: `LeaseExcludes`, `SentOnceAcknowledged`,
`ConsentComesFirst`, `QueueFitsSubscriptions`, and the action property
`DeliveriesAreNotLost`. That nothing is queued for a hidden post is inductive by
itself (`HiddenInv`): only a post enqueues events, a version is not posted while
any of its message is hidden, and hiding drops what is queued.

**Topups** (`TopupsAssumption`). `IInv` adds to `MintedForMoney` what each step
of `settleTopup` knows of the money (an outcome `failed` to be recorded means
neither asked nor on chain), what a row's state says of it (a failed row's
authorization has not moved and cannot any more, unless it is presented again)
and what an operator has read. Theorems: `TypeCorrect`, `CreditIsPaidFor`,
`MoneyIsKept`; the operators' statements interleave with the server's without a
lock, and the proof shows the `WHERE state=` of each statement and the unique
hash are enough. `CapsHold` is about sums: the invariant `DailyInv` bounds the
sums over the rows that were taken (finitely many, whatever the authorizations),
and every step either adds no counted row, by `SumFewer`, or adds the one that
`Present` has just compared with both caps. No outcome,
restart or operator makes a row count that did not.

**Work** (`WorkAssumption`). The first part of `WorkProofs` is about the money
alone: a reward is in one of five stages (not offered, held, given back, paid
whole, paid in two parts; `RewardInv`), each a statement about its row and three
escrows, and every payment, release, hold, split and follow leads from stage to
stage. The second adds that what a decider knows of the current fence is its
worker (`KnowsInv`) and that a promise of USDC follows the worker until the
deadline (`USDCInv`). Theorems: `RowsAndEscrowsAgree`, `RewardPaidForAccepted`,
`OfferStaysBacked`, `DecisionsHitTheirAttempt`, `ReviewersDoNotJudgeThemselves`,
`USDCReachesTheWorker`, and the action property `DecidedForGood`.

**Outbox** (`OutboxAssumption`, `RequestsAssumption`). A flush is at the first
row that is not acknowledged and has only acknowledged rows behind it
(`AtHead`): `RowsKeepTheirOrder`. The requests table has exactly one row for each
signed command that was executed (`Remembered`): `RetryGetsItsReceipt`. The salt
an anonymous caller was known by is there until the next day's grace ends or the
server restarts (`Salty`), so that an execution is compared with those before it
(`Once`): `ExecutedOnce`.

**Sums.** `TopupsProofs` and `LedgerProofs` each begin with the lemmas on sums
they need (neither module can extend the other's component): what the community
modules' `SumFunctionOnSet` adds up to over any finite set. Its recursion has a
solution and only one, a sum is an integer, it changes by one term when an element
is added, removed or changed. The induction is over the subsets of the set, by a
least counterexample of the library's well-founded order (the library's induction
rules take an operator, which the provers cannot instantiate).

Every inductive invariant was checked with TLC on the instances of section 3
before it was proved, `LedgerRows!RowsSpec` as a property of both ledger runs'
instances. Only model-checked: `HeldIsHolds` and `BooksBalance`, which are about
lots, parts and journal as sums rewritten by folds in spend order; `DueIsPaid`,
which compares the lots of a recipient before and after a whole sweep. Out of the
prover's reach: liveness and `ENABLED`.

## 7. Not modelled, and why

`PROJECT.json` lists every part. In short: encodings, rendering, HTTP, search,
reputation and moderation are pure or single transactions; cryptography and the
chain are assumed; providers are open answers to the engine; the in-memory
windows of unsigned callers, credentials' spend limits, the size of a claim, and
local service calls are left out of the modules above. Standing tasks, MCP
events, the transparency log, OAuth families, delegation and devices, bonds and
the inbox have protocols of their own and are planned.

## 8. Plan

In order, each with the hazards it answers:

1. The rest of the proofs about `Ledger`: that every unit is in one place
   (`BooksBalance`, `HeldIsHolds`), over the lemmas on sums.
2. `StandingTasks` over `Work`: seats, queue and pool; a queued result is opened
   or ends.
3. `CredentialLimits`: the day counters of a credential under holds, joins and
   splits: what is counted is what its holds and spends took.
4. `TransparencyLog` (cursors over several sources, checkpoints; append-only,
   nothing skipped) and `MerkleTree` (inclusion and consistency paths against the
   reference definition over small trees).
5. `MCPEvents`, `OAuthFamilies`, delegation and devices, bonds and the inbox.
