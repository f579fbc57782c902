-------------------------------- MODULE Work --------------------------------
(***************************************************************************)
(* One work item (internal/board: work.go, workreward.go, worklate.go,     *)
(* workrejectfee.go, splitpayout.go, workreply.go, workusdc.go,            *)
(* workpromise.go): claims under a fencing token, results, verdicts by the *)
(* requester or a named reviewer, and the money that moves with them, the  *)
(* credits in escrows of the ledger (module EscrowHolds), the USDC as a    *)
(* debt the board only records.  A command is one transaction and one      *)
(* step; a refused command is none.                                        *)
(*                                                                         *)
(* The item is created at instant 0.  Who may claim beyond the rules below *)
(* (standing of the account, the pause after rejections) is left open: it  *)
(* only refuses.  Whether a payment waits (the requester's breaker, the    *)
(* freeze) and whether a recipient is at its inbound cap is open too.      *)
(* Results on standing tasks are not in this module.                       *)
(***************************************************************************)
EXTENDS Integers

CONSTANTS Requester, Workers, Reviewers, NoOne,
          Offers,        \* what the item may be created with
          Known,         \* workers paid for work before (no newcomers)
          Linkable,      \* workers that may link a wallet
          SplitPayout,   \* the SPLIT_PAYOUT feature
          WorkUSDC,      \* a chain reader is configured: rewards may be USDC
          MinSplit, DeferredPPM, Ppm,   \* the split's parameters
          Deadline, ReviewerGrace, LateGrace, Deferral,
          ClaimTTLs,
          MaxFence, MaxGeneration, Horizon   \* bounds of the model

Accounts == {Requester} \cup Workers \cup Reviewers

\* The ledger's request keys: the reward, its second escrow of a late accept,
\* the part of it a split pays at once, the reviewer's fee, the reject fee.
Keys == {"reward", "late", "upfront", "review", "reject"}

ASSUME WorkAssumption ==
    /\ NoOne \notin Accounts
    /\ Requester \notin Workers \cup Reviewers
    /\ Offers \subseteq [reward : Nat, review : Nat, reject : Nat,
                         usdc : BOOLEAN, reviewer : Reviewers \cup {NoOne}]
    /\ \A o \in Offers : /\ o.review > 0 => o.reviewer # NoOne
                         /\ o.reject > 0 => o.reward > 0
    /\ Linkable \subseteq Workers
    /\ {SplitPayout, WorkUSDC} \subseteq BOOLEAN
    /\ \A o \in Offers : o.usdc => WorkUSDC
    /\ ClaimTTLs \subseteq Nat \ {0}
    /\ {Deadline, Deferral, Ppm} \subseteq Nat \ {0}
    /\ {MinSplit, DeferredPPM, ReviewerGrace, LateGrace, MaxFence,
        MaxGeneration, Horizon} \subseteq Nat

VARIABLES now,
          generation,  \* meta.generation: another one after a recovery
          work,        \* its row in works; judged: whose result the
                       \* accept was meant for, as its decider knew it
          reply,       \* the result: edited since its submit, or hidden
          knows,       \* who may decide -> the attempt it last read
          reward,      \* its row in work_rewards
          review,      \* its row in work_review_fees
          usdc,        \* its row in work_usdc
          linked,      \* the workers with a verified wallet link
          escrow       \* the ledger's escrows

vars == <<now, generation, work, reply, knows, reward, review, usdc, linked,
          escrow>>

E == INSTANCE EscrowHolds WITH MaxUnits <- 0

Deciders == {Requester} \cup Reviewers

NoRow == [state |-> "none", amount |-> 0, hold |-> "reward", worker |-> NoOne,
          settles |-> 0]
Row(n, key) == IF n = 0 THEN NoRow
               ELSE [NoRow EXCEPT !.state = "held", !.amount = n, !.hold = key]

NoAttempt == [generation |-> 0, fence |-> 0, worker |-> NoOne]
Fresh == [edited |-> FALSE, hidden |-> FALSE]

Init == /\ now = 0
        /\ generation = 0
        /\ work = [state |-> "none", generation |-> 0, updated |-> 0, fence |-> 0,
                   worker |-> NoOne, claimEnd |-> 0, reviewer |-> NoOne, judged |-> NoOne]
        /\ reply = Fresh
        /\ knows = [a \in Deciders |-> NoAttempt]
        /\ reward = NoRow
        /\ review = NoRow
        /\ usdc = [state |-> "none", worker |-> NoOne, payTo |-> NoOne, reason |-> ""]
        /\ linked = {}
        /\ E!Init

-----------------------------------------------------------------------------
(* The credits: both rows and the escrows behind them, as one value.       *)

money == [reward |-> reward, review |-> review, escrow |-> escrow]

Books(m) == reward' = m.reward /\ review' = m.review /\ escrow' = m.escrow

holdKey(e, key, n) == IF n = 0 THEN e ELSE E!opened(e, key, n)

\* holdWorkEscrows and holdWorkRejectFee.
holdWorkEscrows(o) ==
    [reward |-> Row(o.reward, "reward"),
     review |-> Row(o.review, "review"),
     escrow |-> holdKey(holdKey(holdKey(escrow, "reward", o.reward),
                                "review", o.review), "reject", o.reject)]

\* payWorkReward: only a held row is paid, at once or pending.
payReward(m, to, pending) ==
    IF m.reward.state # "held" THEN m
    ELSE [m EXCEPT !.reward = [@ EXCEPT !.state = IF pending THEN "pending" ELSE "paid",
                                        !.worker = to],
                   !.escrow = E!paid(@, m.reward.hold, to, pending)]

payReview(m, to, pending) ==
    IF m.review.state # "held" THEN m
    ELSE [m EXCEPT !.review = [@ EXCEPT !.state = IF pending THEN "pending" ELSE "paid",
                                        !.worker = to],
                   !.escrow = E!paid(@, m.review.hold, to, pending)]

\* releaseWorkReward, of the reward and of the reviewer's fee.
releaseReward(m) ==
    IF m.reward.state # "held" THEN m
    ELSE [m EXCEPT !.reward = [@ EXCEPT !.state = "released"],
                   !.escrow = E!ended(@, {m.reward.hold}, "released")]

releaseReview(m) ==
    IF m.review.state # "held" THEN m
    ELSE [m EXCEPT !.review = [@ EXCEPT !.state = "released"],
                   !.escrow = E!ended(@, {m.review.hold}, "released")]

\* settleRejectFee and the sweeper's: the fee has no row, only its escrow.
payReject(m, to, pending) ==
    IF m.escrow["reject"].state # "held" THEN m
    ELSE [m EXCEPT !.escrow = E!paid(@, "reject", to, pending)]

\* Mutant: a fee that was paid is given back.
releaseRejectAgain(m) == [m EXCEPT !.escrow = E!ended(@, {"reject"}, "released")]

releaseReject(m) ==
    IF m.escrow["reject"].state # "held" THEN m
    ELSE [m EXCEPT !.escrow = E!ended(@, {"reject"}, "released")]

\* reholdWorkReward: the reward the deadline released is held again.
rehold(m) ==
    IF m.reward.state # "released" THEN m
    ELSE [m EXCEPT !.reward = [@ EXCEPT !.state = "held", !.hold = "late"],
                   !.escrow = E!opened(@, "late", m.reward.amount)]

\* deferredAmount and splitDeferred: what an accept holds back of n units.
deferredAmount(n) ==
    LET d == (n * DeferredPPM) \div Ppm
    IN  IF n < MinSplit \/ d < 1 \/ n - d < 1 THEN 0 ELSE d

splitDeferred(m, worker) ==
    IF SplitPayout /\ usdc.state = "none" /\ worker \in Known
    THEN deferredAmount(m.reward.amount) ELSE 0

Splits(m, worker) == m.reward.state = "held" /\ splitDeferred(m, worker) > 0

\* Mutant: the upfront part is opened beside the reward, not out of it.
splitPayoutUncarved(m, worker, pending) ==
    LET upfront == m.reward.amount - splitDeferred(m, worker)
    IN  [m EXCEPT !.reward = [@ EXCEPT !.worker = worker, !.settles = now + Deferral],
                  !.escrow = E!paid(E!opened(@, "upfront", upfront),
                                    "upfront", worker, pending)]

\* splitPayout: the row stays held and settles the deferred part later.
splitPayout(m, worker, pending) ==
    LET upfront == m.reward.amount - splitDeferred(m, worker)
    IN  [m EXCEPT !.reward = [@ EXCEPT !.worker = worker, !.settles = now + Deferral],
                  !.escrow = E!paid(E!split(@, m.reward.hold, "upfront", upfront),
                                    "upfront", worker, pending)]

payWorkRewardSplit(m, worker, pending) ==
    IF Splits(m, worker) THEN splitPayout(m, worker, pending)
                         ELSE payReward(m, worker, pending)

\* EscrowSplit refuses an end that has passed, and the split names the
\* work's deadline.
SplitAdmitted(m, worker) == Splits(m, worker) => Deadline > now

-----------------------------------------------------------------------------
(* The USDC.                                                               *)

\* Mutant: any address on the row is kept.
PayToKept(a, submit, named, sends) ==
    IF named THEN a
    ELSE IF usdc.payTo # NoOne THEN usdc.payTo
    ELSE IF sends /\ a \in linked THEN a
    ELSE NoOne

\* setWorkPayTo: the address a claim or submit names, else (a submit) the one
\* the same worker's claim named, else (where a result is sent) the wallet it
\* linked.  An address is written as its owner.
PayTo(a, submit, named, sends) ==
    IF named THEN a
    ELSE IF submit /\ usdc.worker = a /\ usdc.payTo # NoOne THEN usdc.payTo
    ELSE IF sends /\ a \in linked THEN a
    ELSE NoOne

setWorkPayTo(u, a, to) == IF u.state # "promised" THEN u
                          ELSE [u EXCEPT !.payTo = to, !.worker = a]

voidWorkUSDC(u, reason) == IF u.state # "promised" THEN u
                           ELSE [u EXCEPT !.state = "void", !.reason = reason]

reviveLapsedWorkUSDC(u) ==
    IF u.state = "void" /\ u.reason = "requester_lapsed"
    THEN [u EXCEPT !.state = "promised", !.reason = ""] ELSE u

oweWorkUSDC(u, worker) == IF u.state # "promised" THEN u
                          ELSE [u EXCEPT !.state = "payable", !.worker = worker]

\* A submit, and an accept, of work that promises USDC need an address.
Payable(u) == u.state = "promised" => u.payTo # NoOne

-----------------------------------------------------------------------------
(* The lifecycle.                                                          *)

Ended == {"accepted", "cancelled"}

\* effectiveWork: the state a command meets.
effective ==
    CASE work.state \in Ended \cup {"none"} -> work.state
      [] OTHER ->
         IF Deadline <= now
         THEN IF work.state = "submitted" /\ work.reviewer # NoOne
              THEN "review_lapsed" ELSE "expired"
         ELSE IF work.generation # generation THEN "recovery_required"
         ELSE IF work.state = "claimed" /\ work.claimEnd <= now THEN "open"
         ELSE work.state

Save(w) == work' = [w EXCEPT !.generation = generation, !.updated = now]

\* Mutant: a fence of another generation counts.
FencedAcrossRestores(a) == knows[a].fence = work.fence

\* A decision names the attempt it is about: its fence, under the generation.
Fenced(a) == knows[a].generation = generation /\ knows[a].fence = work.fence

\* requesterMayDecideAt: a silent reviewer lets the requester decide.
Fallback(a) == /\ work.reviewer # NoOne /\ a = Requester
               /\ effective = "submitted"
               /\ work.updated + ReviewerGrace < Deadline
               /\ work.updated + ReviewerGrace <= now

Decides(a) == \/ a = IF work.reviewer # NoOne THEN work.reviewer ELSE Requester
              \/ Fallback(a)

Verdict(a) == a = work.reviewer /\ effective = "submitted"

Create(o) ==
    /\ work.state = "none"
    /\ Books(holdWorkEscrows(o))
    /\ usdc' = IF o.usdc THEN [usdc EXCEPT !.state = "promised"] ELSE usdc
    /\ Save([work EXCEPT !.state = "open", !.reviewer = o.reviewer])
    /\ UNCHANGED <<now, generation, reply, knows, linked>>

\* Mutant: the reviewer may claim.
MayClaimAnyone(a) == effective = "open" /\ work.fence < MaxFence

\* refuseReviewerWorker and the other checks of a claim.
MayClaim(a) == effective = "open" /\ a # work.reviewer /\ work.fence < MaxFence

claimed(a, state, end) ==
    [work EXCEPT !.state = state, !.fence = @ + 1, !.worker = a, !.claimEnd = end]

Claim(a, ttl, named) ==
    /\ MayClaim(a)
    /\ now + ttl <= Deadline
    /\ Save(claimed(a, "claimed", now + ttl))
    /\ usdc' = setWorkPayTo(usdc, a, PayTo(a, FALSE, named, FALSE))
    /\ UNCHANGED <<now, generation, reply, knows, reward, review, linked, escrow>>

\* A claim that names its result submits it at once.
ClaimWithResult(a, named) ==
    /\ MayClaim(a)
    /\ Save(claimed(a, "submitted", now))
    /\ usdc' = setWorkPayTo(usdc, a, PayTo(a, FALSE, named, TRUE))
    /\ Payable(usdc')
    /\ reply' = Fresh
    /\ UNCHANGED <<now, generation, knows, reward, review, linked, escrow>>

Holds(a) == effective = "claimed" /\ a = work.worker

Renew(a, ttl) ==
    /\ Holds(a)
    /\ now + ttl <= Deadline /\ now + ttl > work.claimEnd
    /\ Save([work EXCEPT !.claimEnd = now + ttl])
    /\ UNCHANGED <<now, generation, reply, knows, reward, review, usdc, linked, escrow>>

Submit(a, named) ==
    /\ Holds(a) /\ a # work.reviewer
    /\ Save([work EXCEPT !.state = "submitted"])
    /\ usdc' = setWorkPayTo(usdc, a, PayTo(a, TRUE, named, TRUE))
    /\ Payable(usdc')
    /\ reply' = Fresh
    /\ UNCHANGED <<now, generation, knows, reward, review, linked, escrow>>

SetReviewer(r) ==
    /\ effective \in {"open", "claimed"}
    /\ effective = "claimed" => r # work.worker
    /\ Save([work EXCEPT !.reviewer = r])
    /\ UNCHANGED <<now, generation, reply, knows, reward, review, usdc, linked, escrow>>

\* The money of an accept, and of the decision's other two forms.
acceptMoney(m, worker, verdict, fallback, pending) ==
    LET p == payWorkRewardSplit(m, worker, pending)
    IN  releaseReject(IF verdict THEN payReview(p, work.reviewer, pending)
                      ELSE IF fallback THEN releaseReview(p) ELSE p)

\* Mutant: a reject gives the reward back.
rejectMoneyReleased(m, verdict, fallback, pending) ==
    LET p == IF verdict THEN payReview(m, work.reviewer, pending)
             ELSE IF fallback THEN releaseReview(m) ELSE m
    IN  releaseReward(IF work.state = "submitted"
                      THEN payReject(p, work.worker, pending) ELSE p)

rejectMoney(m, verdict, fallback, pending) ==
    LET p == IF verdict THEN payReview(m, work.reviewer, pending)
             ELSE IF fallback THEN releaseReview(m) ELSE m
    IN  IF work.state = "submitted" THEN payReject(p, work.worker, pending) ELSE p

cancelMoney(m, pending) ==
    LET p == releaseReview(releaseReward(m))
    IN  IF work.state = "submitted" THEN payReject(p, work.worker, pending)
                                    ELSE releaseReject(p)

\* The common end of an accept of w's result: the USDC is owed, the reward of
\* m is paid and the item is accepted.
Accepted(w, u, m, judged, verdict, fallback, pending) ==
    /\ Payable(u)
    /\ usdc' = oweWorkUSDC(u, w.worker)
    /\ SplitAdmitted(m, w.worker)
    /\ Books(acceptMoney(m, w.worker, verdict, fallback, pending))
    /\ Save([w EXCEPT !.state = "accepted", !.judged = judged])
    /\ UNCHANGED <<now, generation, knows, linked>>

Accept(a, pending) ==
    /\ effective = "submitted"
    /\ Decides(a) /\ Fenced(a)
    /\ ~reply.hidden
    /\ Accepted(work, usdc, money, knows[a].worker, Verdict(a), Fallback(a), pending)
    /\ reply' = reply

\* checkLateAccept: the requester, for a while after the deadline.
LateAccept(pending) ==
    /\ work.state = "submitted" /\ effective = "expired"
    /\ work.generation = generation
    /\ now < Deadline + LateGrace
    /\ Fenced(Requester)
    /\ ~reply.hidden /\ ~reply.edited
    /\ Accepted(work, reviveLapsedWorkUSDC(usdc), rehold(money),
                knows[Requester].worker, FALSE, FALSE, pending)
    /\ reply' = reply

\* acceptReply: the decider accepts b's reply; the board first claims and
\* submits it for b, as far as b has not.
AcceptReply(a, b, pending) ==
    LET open == MayClaim(b)
        w == IF open THEN claimed(b, "submitted", now) ELSE work
        to == PayTo(b, ~open, FALSE, TRUE)
        u == IF usdc.state = "promised" /\ to = NoOne
             THEN voidWorkUSDC(usdc, "no_payout_address")
             ELSE setWorkPayTo(usdc, b, to)
    IN  /\ a = IF work.reviewer # NoOne THEN work.reviewer ELSE Requester
        /\ \/ /\ open \/ (Holds(b) /\ b # work.reviewer)
              /\ reply' = Fresh
              /\ Accepted(w, u, money, b, a = work.reviewer, FALSE, pending)
           \/ /\ effective = "submitted" /\ b = work.worker /\ ~reply.hidden
              /\ reply' = reply
              /\ Accepted(w, usdc, money, b, a = work.reviewer, FALSE, pending)

\* A reject reopens the item; its reward stays held.
Reject(a, pending) ==
    /\ effective \in {"claimed", "submitted", "recovery_required"}
    /\ Decides(a) /\ Fenced(a)
    /\ Books(rejectMoney(money, Verdict(a), Fallback(a), pending))
    /\ usdc' = setWorkPayTo(usdc, NoOne, NoOne)
    /\ Save([work EXCEPT !.state = "open", !.worker = NoOne, !.claimEnd = 0])
    /\ UNCHANGED <<now, generation, reply, knows, linked>>

Cancel(pending) ==
    /\ effective \in {"open", "claimed", "submitted", "recovery_required"}
    /\ work.reviewer # NoOne => effective = "open"
    /\ Books(cancelMoney(money, pending))
    /\ usdc' = voidWorkUSDC(usdc, "cancelled")
    /\ Save([work EXCEPT !.state = "cancelled"])
    /\ UNCHANGED <<now, generation, reply, knows, linked>>

\* work.promise: USDC owed on an accepted result, after the fact.
Promise ==
    /\ WorkUSDC
    /\ work.state = "accepted"
    /\ usdc.state \in {"none", "void"}
    /\ usdc' = [state |-> "payable", worker |-> work.worker, reason |-> "",
                payTo |-> PayTo(work.worker, TRUE, FALSE, TRUE)]
    /\ Save(work)
    /\ UNCHANGED <<now, generation, reply, knows, reward, review, linked, escrow>>

\* work.settle: a transfer on chain to the address is the payment.
Settle ==
    /\ work.state = "accepted"
    /\ usdc.state = "payable"
    /\ LET to == PayTo(usdc.worker, TRUE, FALSE, TRUE)
       IN  to # NoOne /\ usdc' = [usdc EXCEPT !.state = "paid", !.payTo = to]
    /\ Save(work)
    /\ UNCHANGED <<now, generation, reply, knows, reward, review, linked, escrow>>

-----------------------------------------------------------------------------
(* The sweep, and what happens around the item.                            *)

Lapsed == work.state \notin Ended /\ Deadline <= now

\* Mutant: a payment that ended counts as made.
followedBlindly(row, e) ==
    IF row.state = "pending" /\ e[row.hold].state \in {"done", "cancelled"}
    THEN [row EXCEPT !.state = "paid"] ELSE row

\* settleWorkEscrows, for one row: a pending payment's end is recorded.
followed(row, e) == IF row.state # "pending" THEN row
                    ELSE CASE e[row.hold].state = "done" -> [row EXCEPT !.state = "paid"]
                           [] e[row.hold].state = "cancelled" -> [row EXCEPT !.state = "released"]
                           [] OTHER -> row

settleWorkEscrows(m) ==
    LET l == IF Lapsed THEN releaseReview(releaseReward(m)) ELSE m
    IN  [l EXCEPT !.reward = followed(@, l.escrow), !.review = followed(@, l.escrow)]

\* settleSplitPayouts: the deferred part is paid, or goes back.
SplitDue(m) == m.reward.state = "held" /\ m.reward.settles \in 1..now
ClawedBack(affiliated) == reply.hidden \/ affiliated

settleSplitPayouts(m, affiliated, pay) ==
    IF ~SplitDue(m) THEN m
    ELSE IF ClawedBack(affiliated) THEN releaseReward(m)
    ELSE payReward(m, m.reward.worker, pay = "pending")

\* Mutant: only a result's fee is looked at.
settleWorkRejectFeesPaid(m, pay) ==
    IF ~Lapsed \/ work.state # "submitted" \/ pay = "refused" THEN m
    ELSE payReject(m, work.worker, pay = "pending")

\* settleWorkRejectFees; a payment the worker has no room for waits.
settleWorkRejectFees(m, pay) ==
    IF ~Lapsed THEN m
    ELSE IF work.state # "submitted" THEN releaseReject(m)
    ELSE IF pay = "refused" THEN m
    ELSE payReject(m, work.worker, pay = "pending")

lapseReason == IF work.state # "submitted" THEN "expired"
               ELSE IF work.reviewer # NoOne THEN "review_lapsed"
               ELSE "requester_lapsed"

\* SweepAllowance: the ledger ends some pending payments, then the board
\* settles what they and the deadline decide, all in one transaction.  What
\* the sweep itself pays is done, waits, or is refused (recipient_limit); a
\* refused split payout fails the transaction.
Sweep(done, cancelled, affiliated, pay) ==
    /\ work.state # "none"
    /\ UNCHANGED <<now, generation, work, reply, knows, linked>>
    /\ \E swept \in {[money EXCEPT !.escrow =
                        E!ended(E!ended(@, done, "done"), cancelled, "cancelled")]} :
         \E settled \in {settleWorkEscrows(swept)} :   \* evaluated once
           /\ ~(SplitDue(settled) /\ ~ClawedBack(affiliated) /\ pay = "refused")
           /\ \E m \in {settleSplitPayouts(settled, affiliated, pay)} :
               Books(settleWorkRejectFees(m, pay))
    /\ usdc' = IF Lapsed THEN voidWorkUSDC(usdc, lapseReason) ELSE usdc

\* The requester cancels a payment that waits.
CancelPayment(k) ==
    /\ k \in E!In(escrow, "pending")
    /\ escrow' = E!ended(escrow, {k}, "cancelled")
    /\ UNCHANGED <<now, generation, work, reply, knows, reward, review, usdc, linked>>

\* work.get: who may decide reads the attempt that waits for it.
Read(a) ==
    /\ effective \in {"claimed", "submitted", "recovery_required", "expired"}
    /\ knows' = [knows EXCEPT ![a] = [generation |-> generation, fence |-> work.fence,
                                      worker |-> work.worker]]
    /\ UNCHANGED <<now, generation, work, reply, reward, review, usdc, linked, escrow>>

\* The worker edits its result; a moderator hides it or shows it again.
Edit == /\ work.state = "submitted"
        /\ reply' = [reply EXCEPT !.edited = TRUE]
        /\ UNCHANGED <<now, generation, work, knows, reward, review, usdc, linked, escrow>>

Moderate == /\ work.state \in {"submitted", "accepted"}
            /\ reply' = [reply EXCEPT !.hidden = ~@]
            /\ UNCHANGED <<now, generation, work, knows, reward, review, usdc, linked, escrow>>

Link(a) == /\ linked' = linked \cup {a}
           /\ UNCHANGED <<now, generation, work, reply, knows, reward, review, usdc, escrow>>

\* A backup is restored under a new generation: as if nothing had happened
\* since it was taken, but one decider may remember a claim that is lost.
Restore(a, lost) ==
    /\ generation < MaxGeneration
    /\ generation' = generation + 1
    /\ knows' = [knows EXCEPT ![a] = [generation |-> generation,
                                      fence |-> work.fence + 1, worker |-> lost]]
    /\ UNCHANGED <<now, work, reply, reward, review, usdc, linked, escrow>>

Tick == /\ work.state # "none" /\ now < Horizon
        /\ now' = now + 1
        /\ UNCHANGED <<generation, work, reply, knows, reward, review, usdc, linked, escrow>>

Next == \/ \E o \in Offers : Create(o)
        \/ \E a \in Workers, named \in BOOLEAN :
             \/ \E ttl \in ClaimTTLs : Claim(a, ttl, named)
             \/ ClaimWithResult(a, named)
             \/ Submit(a, named)
        \/ \E a \in Workers, ttl \in ClaimTTLs : Renew(a, ttl)
        \/ \E r \in Reviewers : SetReviewer(r)
        \/ \E a \in Deciders, pending \in BOOLEAN :
             \/ Accept(a, pending)
             \/ \E b \in Workers : AcceptReply(a, b, pending)
             \/ Reject(a, pending)
        \/ \E pending \in BOOLEAN : LateAccept(pending) \/ Cancel(pending)
        \/ Promise \/ Settle
        \/ \E done \in SUBSET E!In(escrow, "pending") :
             \E cancelled \in SUBSET (E!In(escrow, "pending") \ done) :
               \E affiliated \in BOOLEAN, pay \in {"done", "pending", "refused"} :
                 Sweep(done, cancelled, affiliated, pay)
        \/ \E k \in Keys : CancelPayment(k)
        \/ \E a \in Deciders : Read(a)
        \/ Edit \/ Moderate
        \/ \E a \in Linkable : Link(a)
        \/ \E a \in Deciders, lost \in Workers : Restore(a, lost)
        \/ Tick

Spec == Init /\ [][Next]_vars

\* The sweeper runs every minute: in the end it meets neither a freeze nor a
\* full inbound cap, and executes the payments that wait.
SettlingSweep == Sweep(E!In(escrow, "pending"), {}, FALSE, "done")

Fairness == WF_vars(Tick) /\ WF_vars(SettlingSweep)

LiveSpec == Spec /\ Fairness

-----------------------------------------------------------------------------
TypeOK ==
    /\ now \in 0..Horizon /\ generation \in 0..MaxGeneration
    /\ work \in [state : {"none", "open", "claimed", "submitted"} \cup Ended,
                 generation : 0..MaxGeneration, updated : 0..Horizon,
                 fence : 0..MaxFence, worker : Workers \cup {NoOne},
                 claimEnd : 0..Deadline, reviewer : Reviewers \cup {NoOne},
                 judged : Workers \cup {NoOne}]
    /\ reply \in [edited : BOOLEAN, hidden : BOOLEAN]
    /\ knows \in [Deciders -> [generation : 0..MaxGeneration, fence : 0..MaxFence + 1,
                               worker : Workers \cup {NoOne}]]
    /\ {reward, review} \subseteq
         [state : {"none", "held", "pending", "paid", "released"}, amount : Nat,
          hold : Keys, worker : Accounts \cup {NoOne}, settles : Nat]
    /\ usdc \in [state : {"none", "promised", "payable", "paid", "void"},
                 worker : Workers \cup {NoOne}, payTo : Workers \cup {NoOne},
                 reason : {"", "cancelled", "expired", "review_lapsed",
                           "requester_lapsed", "no_payout_address"}]
    /\ linked \subseteq Workers
    /\ escrow \in [Keys -> E!EscrowType]

\* A row and the escrow it names tell one story, so that no later payment or
\* release of the row is refused by the ledger: held and held, paid and done,
\* released and given back; a pending row is at most one sweep behind.
Tells(row) ==
    LET s == escrow[row.hold].state
    IN  CASE row.state = "held" -> s = "held"
          [] row.state = "pending" -> s \in {"pending", "done", "cancelled"}
          [] row.state = "paid" -> s = "done"
          [] row.state = "released" -> s \in {"released", "cancelled"}
          [] OTHER -> TRUE
RowsMatchEscrows == Tells(reward) /\ Tells(review)

\* Credits leave the reward's escrows only for an accepted result, only to its
\* worker, and never more than was offered, whatever the split, the deadline
\* and the late accept did before.
Moved(K) == {k \in K : escrow[k].state \in {"pending", "done"}}
unitsOf(k) == IF k \in Moved(Keys) THEN escrow[k].units ELSE 0
PaidForAccepted ==
    LET K == Moved({"reward", "late", "upfront"})
    IN  /\ \A k \in K : work.state = "accepted" /\ escrow[k].to = {work.worker}
        /\ unitsOf("reward") + unitsOf("late") + unitsOf("upfront") <= reward.amount

\* Until the deadline an item that is not decided holds its whole reward,
\* however many claims, rejects, reviewers and restores it has seen: a worker
\* may rely on it.
OfferIsBacked ==
    (work.state \notin Ended /\ now < Deadline /\ reward.state # "none") =>
        /\ reward.state = "held"
        /\ escrow["reward"].state = "held" /\ escrow["reward"].units = reward.amount

\* An accept goes to the worker whose attempt its decider read, or whose reply
\* it named, although claims lapse and pass to others in between.
JudgedAsRead == work.state = "accepted" => work.judged = work.worker

\* A reviewer never judges its own result, however the reviewer was changed.
ReviewerNeverWorker ==
    work.state \in {"submitted", "accepted"} => work.reviewer # work.worker

\* USDC is owed and paid to an address of the worker whose result was
\* accepted, never one an earlier worker of the item named.
USDCToWorker ==
    usdc.state \in {"payable", "paid"} =>
        /\ work.state = "accepted" /\ usdc.worker = work.worker
        /\ usdc.payTo \in {work.worker, NoOne}

\* Decisions and payments are for good: an accepted or cancelled item stays so
\* with its worker, an escrow that ended never changes, a paid row stays paid,
\* and a released reward is held again only for a late accept.
EndedForGood ==
    [][/\ work.state \in Ended => /\ work'.state = work.state
                                  /\ work'.worker = work.worker
       /\ \A k \in Keys : escrow[k].state \in {"done", "cancelled", "released"}
                             => escrow'[k] = escrow[k]
       /\ reward.state = "paid" => reward' = reward
       /\ usdc.state = "paid" => usdc' = usdc
       /\ (reward.state = "released" /\ reward' # reward) =>
             /\ work'.state = "accepted" /\ work.state = "submitted"
             /\ Deadline <= now]_vars

\* No credit stays locked: every escrow of the item is in the end paid,
\* cancelled or given back.
EscrowsEnd == []<>(\A k \in Keys : escrow[k].state \notin {"held", "pending"})

\* PROTOCOL.md, late accept: for the grace after the deadline the requester
\* may still accept a result left undecided on work with no reviewer.
LateAcceptOpen ==
    (/\ work.state = "submitted" /\ work.reviewer = NoOne
     /\ work.generation = generation
     /\ now >= Deadline /\ now < Deadline + LateGrace
     /\ ~reply.hidden /\ ~reply.edited /\ Fenced(Requester))
    => ENABLED \E pending \in BOOLEAN : LateAccept(pending)
=============================================================================
