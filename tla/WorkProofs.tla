----------------------------- MODULE WorkProofs -----------------------------
(***************************************************************************)
(* For any accounts, offers, times and split: credits leave a reward's     *)
(* escrows only for an accepted result and only to its worker, the rows    *)
(* and the escrows agree, an undecided item stays backed, a decision goes  *)
(* to the attempt it was about, and what has ended stays so.               *)
(*                                                                         *)
(* None of it is inductive as it stands.  The money needs the five stages  *)
(* a reward goes through (RewardInv); a decision needs that what a decider *)
(* knows of the current fence is its worker (KnowsInv); the USDC needs     *)
(* that a promise follows the worker, and that one the requester let lapse *)
(* is past the deadline, where no claim can change the worker (USDCInv).   *)
(***************************************************************************)
EXTENDS Work, TLAPS

-----------------------------------------------------------------------------
(* The money of a work item: what paying, giving back, holding again,      *)
(* splitting and following do to the rows and the escrows of a reward and  *)
(* of a reviewer's fee.  The five stages a reward goes through (RewardInv) *)
(* are closed under all of it.                                             *)

RowType == [state : {"none", "held", "pending", "paid", "released"}, amount : Nat,
            hold : Keys, worker : Accounts \cup {NoOne}, settles : Nat]
Escrows == [Keys -> E!EscrowType]

WorkType == [state : {"none", "open", "claimed", "submitted"} \cup Ended,
             generation : 0..MaxGeneration, updated : 0..Horizon,
             fence : 0..MaxFence, worker : Workers \cup {NoOne},
             claimEnd : 0..Deadline, reviewer : Reviewers \cup {NoOne},
             judged : Workers \cup {NoOne}]

USDCType == [state : {"none", "promised", "payable", "paid", "void"},
             worker : Workers \cup {NoOne}, payTo : Workers \cup {NoOne},
             reason : {"", "cancelled", "expired", "review_lapsed",
                       "requester_lapsed", "no_payout_address"}]

KnowsType == [generation : 0..MaxGeneration, fence : 0..MaxFence + 1,
              worker : Workers \cup {NoOne}]

\* What the row and its escrow say of a payment.
Agree(row, s) ==
    \/ row.state = "held" /\ s = "held"
    \/ row.state = "pending" /\ s \in {"pending", "done", "cancelled"}
    \/ row.state = "paid" /\ s = "done"
    \/ row.state = "released" /\ s \in {"released", "cancelled"}

-----------------------------------------------------------------------------
(* The stages of a reward, in an item w at instant n: not offered, held,   *)
(* given back at a cancel or the deadline, paid whole, paid in two parts.  *)

Absent(r, e) ==
    /\ r.state = "none" /\ r.amount = 0
    /\ \A k \in {"reward", "late", "upfront"} : e[k].state = "none"

Backed(r, e, w) ==
    /\ r.state = "held" /\ r.hold = "reward" /\ r.settles = 0
    /\ e["reward"].state = "held" /\ e["reward"].units = r.amount
    /\ e["late"].state = "none" /\ e["upfront"].state = "none"
    /\ w.state \in {"open", "claimed", "submitted"}

GivenBack(r, e, w, n) ==
    /\ r.state = "released" /\ r.hold = "reward" /\ r.settles = 0
    /\ e["reward"].state = "released"
    /\ e["late"].state = "none" /\ e["upfront"].state = "none"
    /\ \/ w.state = "cancelled"
       \/ w.state \in {"open", "claimed", "submitted"} /\ Deadline <= n

PaidWhole(r, e, w) ==
    /\ w.state = "accepted" /\ r.worker = w.worker /\ r.settles = 0
    /\ r.state # "held" /\ Agree(r, e[r.hold].state)
    /\ e[r.hold].state # "released"
    /\ e[r.hold].units = r.amount /\ e[r.hold].to = {w.worker}
    /\ e["upfront"].state = "none"
    /\ \/ r.hold = "reward" /\ e["late"].state = "none"
       \/ r.hold = "late" /\ e["reward"].state = "released"

PaidInParts(r, e, w) ==
    /\ w.state = "accepted" /\ r.worker = w.worker /\ r.settles > 0
    /\ r.hold = "reward" /\ Agree(r, e["reward"].state)
    /\ e["reward"].state \in {"pending", "done"} => e["reward"].to = {w.worker}
    /\ e["upfront"].state \in {"pending", "done", "cancelled"}
    /\ e["upfront"].to = {w.worker}
    /\ e["reward"].units + e["upfront"].units = r.amount
    /\ e["late"].state = "none"

RewardInv(r, e, w, n) ==
    \/ Absent(r, e)
    \/ Backed(r, e, w)
    \/ GivenBack(r, e, w, n)
    \/ PaidWhole(r, e, w)
    \/ PaidInParts(r, e, w)

ReviewInv(v, e) == \/ v.state = "none"
                   \/ v.hold = "review" /\ Agree(v, e["review"].state)

MoneyType(m) == m \in [reward : RowType, review : RowType, escrow : Escrows]

\* Before the item is created there is no money in it.
MoneyInv(m, w, n) ==
    /\ MoneyType(m)
    /\ RewardInv(m.reward, m.escrow, w, n)
    /\ ReviewInv(m.review, m.escrow)
    /\ w.state = "none" => /\ m.reward.state = "none" /\ m.review.state = "none"
                           /\ \A k \in Keys : m.escrow[k].state = "none"

-----------------------------------------------------------------------------
WorkInv(w) ==
    /\ w.state \in {"claimed", "submitted", "accepted"} => w.worker \in Workers
    /\ w.state \in {"submitted", "accepted"} => w.reviewer # w.worker
    /\ w.state = "accepted" => w.judged = w.worker

\* k knows of an attempt no later than w's, and of w's who makes it.
Recent(k, w, g) ==
    /\ k.generation <= g
    /\ k.generation = g =>
         /\ k.fence <= w.fence
         /\ (k.fence = w.fence /\ w.state \in {"claimed", "submitted"})
              => k.worker = w.worker

KnowsInv == \A a \in Deciders : Recent(knows[a], work, generation)

USDCInv(u, w, n) ==
    /\ u.payTo \in {u.worker, NoOne}
    /\ (u.state = "promised" /\ w.state \in {"claimed", "submitted"})
         => u.worker = w.worker
    /\ (u.state = "void" /\ w.state \notin Ended) =>
         /\ Deadline <= n
         /\ u.reason = "requester_lapsed" =>
              w.state = "submitted" /\ u.worker = w.worker
    /\ u.state \in {"payable", "paid"} => w.state = "accepted" /\ u.worker = w.worker

IInv == /\ TypeOK
        /\ WorkInv(work)
        /\ KnowsInv
        /\ USDCInv(usdc, work, now)
        /\ MoneyInv(money, work, now)

-----------------------------------------------------------------------------
LEMMA Constants ==
    /\ NoOne \notin Accounts /\ Workers \subseteq Accounts /\ Reviewers \subseteq Accounts
    /\ Requester \in Accounts /\ Requester \notin Workers /\ Deciders \subseteq Accounts
    /\ Deadline \in Nat /\ Deadline > 0 /\ Deferral \in Nat /\ Deferral > 0
    /\ Ppm \in Nat /\ Ppm > 0 /\ MinSplit \in Nat /\ DeferredPPM \in Nat
    /\ ReviewerGrace \in Nat /\ LateGrace \in Nat
    /\ MaxFence \in Nat /\ MaxGeneration \in Nat /\ Horizon \in Nat
    /\ ClaimTTLs \subseteq Nat
BY WorkAssumption DEF Accounts, Deciders

LEMMA KeysKnown == "reward" \in Keys /\ "late" \in Keys /\ "upfront" \in Keys
                   /\ "review" \in Keys /\ "reject" \in Keys
BY Zenon DEF Keys

\* The type invariant, variable by variable.
LEMMA Types ==
    TypeOK <=>
      /\ now \in 0..Horizon /\ generation \in 0..MaxGeneration
      /\ work \in WorkType
      /\ reply \in [edited : BOOLEAN, hidden : BOOLEAN]
      /\ knows \in [Deciders -> KnowsType]
      /\ MoneyType(money)
      /\ usdc \in USDCType
      /\ linked \subseteq Workers
BY Zenon DEF TypeOK, WorkType, MoneyType, money, RowType, Escrows, USDCType, KnowsType

-----------------------------------------------------------------------------
(* What the ledger's operators make of the escrows.                        *)

LEMMA Opened ==
    ASSUME NEW e \in Escrows, NEW k \in Keys, NEW n \in Nat
    PROVE  /\ E!opened(e, k, n) \in Escrows
           /\ E!opened(e, k, n)[k] = [state |-> "held", units |-> n, to |-> {}]
           /\ \A j \in Keys : j # k => E!opened(e, k, n)[j] = e[j]
BY Zenon DEF E!opened, Escrows, E!EscrowType

LEMMA PaidOut ==
    ASSUME NEW e \in Escrows, NEW k \in Keys, NEW b \in Accounts, NEW p \in BOOLEAN
    PROVE  /\ E!paid(e, k, b, p) \in Escrows
           /\ E!paid(e, k, b, p)[k].state = IF p THEN "pending" ELSE "done"
           /\ E!paid(e, k, b, p)[k].units = e[k].units
           /\ E!paid(e, k, b, p)[k].to = {b}
           /\ \A j \in Keys : j # k => E!paid(e, k, b, p)[j] = e[j]
BY Zenon DEF E!paid, Escrows, E!EscrowType

LEMMA EndedAre ==
    ASSUME NEW e \in Escrows, NEW K, NEW s \in {"done", "cancelled", "released"}
    PROVE  /\ E!ended(e, K, s) \in Escrows
           /\ \A j \in Keys : j \in K =>
                /\ E!ended(e, K, s)[j].state = s
                /\ E!ended(e, K, s)[j].units = e[j].units
                /\ E!ended(e, K, s)[j].to = e[j].to
           /\ \A j \in Keys : j \notin K => E!ended(e, K, s)[j] = e[j]
BY Zenon DEF E!ended, Escrows, E!EscrowType

LEMMA Carved ==
    ASSUME NEW e \in Escrows, NEW src \in Keys, NEW k \in Keys, src # k,
           NEW n \in Nat, n <= e[src].units
    PROVE  /\ E!split(e, src, k, n) \in Escrows
           /\ E!split(e, src, k, n)[k] = [state |-> "held", units |-> n, to |-> {}]
           /\ E!split(e, src, k, n)[src].state = e[src].state
           /\ E!split(e, src, k, n)[src].units = e[src].units - n
           /\ \A j \in Keys : j # k /\ j # src => E!split(e, src, k, n)[j] = e[j]
<1> DEFINE f == E!opened(e, k, n)
<1>1. /\ f \in Escrows
      /\ f[k] = [state |-> "held", units |-> n, to |-> {}]
      /\ \A j \in Keys : j # k => f[j] = e[j]
  BY Zenon, Opened
<1>2. e[src] \in E!EscrowType /\ e[src].units - n \in Nat
  BY DEF Escrows, E!EscrowType
<1>3. E!split(e, src, k, n) = [f EXCEPT ![src].units = @ - n]
  BY Zenon DEF E!split
<1> HIDE DEF f
<1>4. f[src] = e[src] /\ f \in [Keys -> E!EscrowType]
  BY Zenon, <1>1 DEF Escrows
<1> DEFINE g == [f EXCEPT ![src].units = @ - n]
<1>5. /\ g \in [Keys -> E!EscrowType]
      /\ g[src].state = e[src].state /\ g[src].units = e[src].units - n
      /\ \A j \in Keys : j # src => g[j] = f[j]
  BY Zenon, <1>2, <1>4 DEF E!EscrowType
<1> HIDE DEF g
<1> QED
  BY Zenon, <1>1, <1>3, <1>5 DEF Escrows, g

-----------------------------------------------------------------------------
(* The reviewer's fee and the reject fee leave the reward alone.           *)

\* An escrow that has ended is not touched.
EscrowsKept(e, f) ==
    \A k \in Keys : e[k].state \in {"done", "cancelled", "released"} => f[k] = e[k]

Aside(m, f) ==
    /\ MoneyType(f)
    /\ f.reward = m.reward
    /\ \A k \in {"reward", "late", "upfront"} : f.escrow[k] = m.escrow[k]
    /\ ReviewInv(f.review, f.escrow)
    /\ EscrowsKept(m.escrow, f.escrow)

LEMMA AsideTwice ==
    ASSUME NEW m, NEW f, NEW g, Aside(m, f), Aside(f, g)
    PROVE  Aside(m, g)
BY Zenon DEF Aside, EscrowsKept

LEMMA AsideNothing ==
    ASSUME NEW m, MoneyType(m), ReviewInv(m.review, m.escrow)
    PROVE  Aside(m, m)
BY Zenon DEF Aside, EscrowsKept

LEMMA AsideKeeps ==
    ASSUME NEW m, NEW f, NEW w, NEW n, Aside(m, f), RewardInv(m.reward, m.escrow, w, n)
    PROVE  RewardInv(f.reward, f.escrow, w, n)
BY ZenonT(30) DEF Aside, RewardInv, Absent, Backed, GivenBack, PaidWhole, PaidInParts

LEMMA PayReviewAside ==
    ASSUME NEW m, MoneyType(m), ReviewInv(m.review, m.escrow),
           NEW to \in Accounts, NEW p \in BOOLEAN
    PROVE  Aside(m, payReview(m, to, p))
<1>1. CASE m.review.state # "held"
  BY Zenon, <1>1, AsideNothing DEF payReview
<1>2. CASE m.review.state = "held"
  <2> DEFINE v == [m.review EXCEPT !.state = IF p THEN "pending" ELSE "paid",
                                   !.worker = to]
             e == E!paid(m.escrow, "review", to, p)
  <2>1. m.review.hold = "review" /\ m.escrow["review"].state = "held"
    BY Zenon, <1>2 DEF ReviewInv, Agree
  <2>2. m.review \in RowType /\ m.escrow \in Escrows
    BY Zenon DEF MoneyType
  <2>3. v \in RowType /\ v.state = (IF p THEN "pending" ELSE "paid") /\ v.hold = "review"
    BY Zenon, <2>1, <2>2 DEF RowType
  <2>4. /\ e \in Escrows /\ e["review"].state = (IF p THEN "pending" ELSE "done")
        /\ \A j \in Keys : j # "review" => e[j] = m.escrow[j]
    BY <2>2, PaidOut, KeysKnown
  <2>5. payReview(m, to, p) = [m EXCEPT !.review = v, !.escrow = e]
    BY Zenon, <1>2, <2>1 DEF payReview
  <2> HIDE DEF v, e
  <2>6. Agree(v, e["review"].state)
    BY Zenon, <2>3, <2>4 DEF Agree
  <2>7. EscrowsKept(m.escrow, e)
    BY Zenon, <2>1, <2>4 DEF EscrowsKept
  <2> QED
    BY ZenonT(30), <2>3, <2>4, <2>5, <2>6, <2>7, KeysKnown DEF Aside, MoneyType, ReviewInv
<1> QED
  BY Zenon, <1>1, <1>2

LEMMA ReleaseReviewAside ==
    ASSUME NEW m, MoneyType(m), ReviewInv(m.review, m.escrow)
    PROVE  Aside(m, releaseReview(m))
<1>1. CASE m.review.state # "held"
  BY Zenon, <1>1, AsideNothing DEF releaseReview
<1>2. CASE m.review.state = "held"
  <2> DEFINE v == [m.review EXCEPT !.state = "released"]
             e == E!ended(m.escrow, {"review"}, "released")
  <2>1. m.review.hold = "review" /\ m.escrow["review"].state = "held"
    BY Zenon, <1>2 DEF ReviewInv, Agree
  <2>2. m.review \in RowType /\ m.escrow \in Escrows
    BY Zenon DEF MoneyType
  <2>3. v \in RowType /\ v.state = "released" /\ v.hold = "review"
    BY Zenon, <2>1, <2>2 DEF RowType
  <2>4. /\ e \in Escrows /\ e["review"].state = "released"
        /\ \A j \in Keys : j # "review" => e[j] = m.escrow[j]
    BY <2>2, EndedAre, KeysKnown
  <2>5. releaseReview(m) = [m EXCEPT !.review = v, !.escrow = e]
    BY Zenon, <1>2, <2>1 DEF releaseReview
  <2> HIDE DEF v, e
  <2>6. Agree(v, e["review"].state)
    BY Zenon, <2>3, <2>4 DEF Agree
  <2>7. EscrowsKept(m.escrow, e)
    BY Zenon, <2>1, <2>4 DEF EscrowsKept
  <2> QED
    BY ZenonT(30), <2>3, <2>4, <2>5, <2>6, <2>7, KeysKnown DEF Aside, MoneyType, ReviewInv
<1> QED
  BY Zenon, <1>1, <1>2

LEMMA PayRejectAside ==
    ASSUME NEW m, MoneyType(m), ReviewInv(m.review, m.escrow),
           NEW to \in Accounts, NEW p \in BOOLEAN
    PROVE  Aside(m, payReject(m, to, p))
<1>1. CASE m.escrow["reject"].state # "held"
  BY Zenon, <1>1, AsideNothing DEF payReject
<1>2. CASE m.escrow["reject"].state = "held"
  <2> DEFINE e == E!paid(m.escrow, "reject", to, p)
  <2>1. m.escrow \in Escrows
    BY Zenon DEF MoneyType
  <2>2. e \in Escrows /\ \A j \in Keys : j # "reject" => e[j] = m.escrow[j]
    BY <2>1, PaidOut, KeysKnown
  <2>3. payReject(m, to, p) = [m EXCEPT !.escrow = e]
    BY Zenon, <1>2 DEF payReject
  <2> HIDE DEF e
  <2>4. EscrowsKept(m.escrow, e)
    BY Zenon, <1>2, <2>2 DEF EscrowsKept
  <2> QED
    BY Zenon, <2>2, <2>3, <2>4, KeysKnown DEF Aside, MoneyType, ReviewInv
<1> QED
  BY Zenon, <1>1, <1>2

LEMMA ReleaseRejectAside ==
    ASSUME NEW m, MoneyType(m), ReviewInv(m.review, m.escrow)
    PROVE  Aside(m, releaseReject(m))
<1>1. CASE m.escrow["reject"].state # "held"
  BY Zenon, <1>1, AsideNothing DEF releaseReject
<1>2. CASE m.escrow["reject"].state = "held"
  <2> DEFINE e == E!ended(m.escrow, {"reject"}, "released")
  <2>1. m.escrow \in Escrows
    BY Zenon DEF MoneyType
  <2>2. e \in Escrows /\ \A j \in Keys : j # "reject" => e[j] = m.escrow[j]
    BY <2>1, EndedAre, KeysKnown
  <2>3. releaseReject(m) = [m EXCEPT !.escrow = e]
    BY Zenon, <1>2 DEF releaseReject
  <2> HIDE DEF e
  <2>4. EscrowsKept(m.escrow, e)
    BY Zenon, <1>2, <2>2 DEF EscrowsKept
  <2> QED
    BY Zenon, <2>2, <2>3, <2>4, KeysKnown DEF Aside, MoneyType, ReviewInv
<1> QED
  BY Zenon, <1>1, <1>2

-----------------------------------------------------------------------------
(* The reward's own steps leave the fees alone.                            *)

Beside(m, f) ==
    /\ MoneyType(f)
    /\ f.review = m.review
    /\ f.escrow["review"] = m.escrow["review"]
    /\ EscrowsKept(m.escrow, f.escrow)

LEMMA BesideKeeps ==
    ASSUME NEW m, NEW f, Beside(m, f), ReviewInv(m.review, m.escrow)
    PROVE  ReviewInv(f.review, f.escrow)
BY DEF Beside, ReviewInv

\* A reward in one escrow, held: an accept can pay it.
Ready(r, e) ==
    /\ r.state = "held" /\ r.settles = 0
    /\ e[r.hold].state = "held" /\ e[r.hold].units = r.amount
    /\ e["upfront"].state = "none"
    /\ \/ r.hold = "reward" /\ e["late"].state = "none"
       \/ r.hold = "late" /\ e["reward"].state = "released"

\* What payReward does to a held row, whose escrow is k.
RowPaid(m, f, k, to, p) ==
    /\ f.reward.state = IF p THEN "pending" ELSE "paid"
    /\ f.reward.worker = to
    /\ f.reward.hold = k
    /\ f.reward.amount = m.reward.amount
    /\ f.reward.settles = m.reward.settles
    /\ f.escrow[k].state = IF p THEN "pending" ELSE "done"
    /\ f.escrow[k].units = m.escrow[k].units
    /\ f.escrow[k].to = {to}
    /\ \A j \in Keys : j # k => f.escrow[j] = m.escrow[j]

LEMMA PayRewardRow ==
    ASSUME NEW m, MoneyType(m), m.reward.state = "held",
           m.reward.hold \in {"reward", "late"},
           m.escrow[m.reward.hold].state = "held",
           NEW to \in Accounts, NEW p \in BOOLEAN, NEW f, f = payReward(m, to, p)
    PROVE  Beside(m, f) /\ RowPaid(m, f, m.reward.hold, to, p)
<1> DEFINE k == m.reward.hold
           r == [m.reward EXCEPT !.state = IF p THEN "pending" ELSE "paid", !.worker = to]
           e == E!paid(m.escrow, k, to, p)
<1>1. m.reward \in RowType /\ m.escrow \in Escrows
  BY Zenon DEF MoneyType
<1>2. k \in Keys
  BY Zenon, KeysKnown
<1>3. /\ r \in RowType /\ r.state = (IF p THEN "pending" ELSE "paid") /\ r.worker = to
      /\ r.hold = m.reward.hold /\ r.amount = m.reward.amount
      /\ r.settles = m.reward.settles
  BY Zenon, <1>1 DEF RowType
<1>4. /\ e \in Escrows /\ e[k].state = (IF p THEN "pending" ELSE "done")
      /\ e[k].units = m.escrow[k].units /\ e[k].to = {to}
      /\ \A j \in Keys : j # k => e[j] = m.escrow[j]
  BY <1>1, <1>2, PaidOut
<1>5. f = [m EXCEPT !.reward = r, !.escrow = e]
  BY Zenon DEF payReward
<1> HIDE DEF r, e
<1>6. EscrowsKept(m.escrow, e)
  BY Zenon, <1>4 DEF EscrowsKept
<1>7. f.reward = r /\ f.escrow = e /\ f.review = m.review /\ MoneyType(f)
  BY Zenon, <1>3, <1>4, <1>5 DEF MoneyType
<1>8. Beside(m, f)
  BY Zenon, <1>4, <1>6, <1>7, KeysKnown DEF Beside
<1> QED
  BY Zenon, <1>3, <1>4, <1>7, <1>8 DEF RowPaid

LEMMA PayWhole ==
    ASSUME NEW m, MoneyType(m), Ready(m.reward, m.escrow),
           NEW to \in Accounts, NEW p \in BOOLEAN, NEW f, f = payReward(m, to, p),
           NEW w, w.state = "accepted", w.worker = to
    PROVE  Beside(m, f) /\ PaidWhole(f.reward, f.escrow, w)
<1>0. /\ m.reward.state = "held" /\ m.reward.hold \in {"reward", "late"}
      /\ m.escrow[m.reward.hold].state = "held"
  BY Zenon DEF Ready
<1>1. Beside(m, f) /\ RowPaid(m, f, m.reward.hold, to, p)
  BY Zenon, <1>0, PayRewardRow
<1> QED
  BY ZenonT(30), <1>1, KeysKnown DEF Ready, PaidWhole, Agree, RowPaid

\* The deferred part of a split reward, when it falls due.
LEMMA PayDeferred ==
    ASSUME NEW m, MoneyType(m), NEW w, PaidInParts(m.reward, m.escrow, w),
           m.reward.state = "held", m.reward.worker \in Accounts,
           NEW p \in BOOLEAN, NEW f, f = payReward(m, m.reward.worker, p)
    PROVE  Beside(m, f) /\ PaidInParts(f.reward, f.escrow, w)
<1>0. m.reward.hold = "reward" /\ m.escrow["reward"].state = "held"
  BY Zenon DEF PaidInParts, Agree
<1>1. Beside(m, f) /\ RowPaid(m, f, m.reward.hold, m.reward.worker, p)
  <2>1. m.reward.hold \in {"reward", "late"} /\ m.escrow[m.reward.hold].state = "held"
    BY Zenon, <1>0
  <2> QED
    BY Zenon, <2>1, PayRewardRow
<1>2. RowPaid(m, f, "reward", m.reward.worker, p)
  BY Zenon, <1>0, <1>1
<1> QED
  BY ZenonT(30), <1>1, <1>2, KeysKnown DEF PaidInParts, Agree, RowPaid

\* What releaseReward does to a held row.
LEMMA ReleaseRewardRow ==
    ASSUME NEW m, MoneyType(m), m.reward.state = "held", m.reward.hold = "reward",
           m.escrow["reward"].state = "held", NEW f, f = releaseReward(m)
    PROVE  /\ Beside(m, f)
           /\ f.reward.state = "released"
           /\ f.reward.worker = m.reward.worker
           /\ f.reward.hold = "reward"
           /\ f.reward.amount = m.reward.amount
           /\ f.reward.settles = m.reward.settles
           /\ f.escrow["reward"].state = "released"
           /\ f.escrow["reward"].units = m.escrow["reward"].units
           /\ \A k \in Keys : k # "reward" => f.escrow[k] = m.escrow[k]
<1> DEFINE r == [m.reward EXCEPT !.state = "released"]
           e == E!ended(m.escrow, {"reward"}, "released")
<1>1. m.reward \in RowType /\ m.escrow \in Escrows
  BY Zenon DEF MoneyType
<1>3. /\ r \in RowType /\ r.state = "released" /\ r.worker = m.reward.worker
      /\ r.hold = "reward" /\ r.amount = m.reward.amount
      /\ r.settles = m.reward.settles
  BY Zenon, <1>1 DEF RowType
<1>4. /\ e \in Escrows /\ e["reward"].state = "released"
      /\ e["reward"].units = m.escrow["reward"].units
      /\ \A j \in Keys : j # "reward" => e[j] = m.escrow[j]
  BY <1>1, EndedAre, KeysKnown
<1>5. f = [m EXCEPT !.reward = r, !.escrow = e]
  BY Zenon DEF releaseReward
<1> HIDE DEF r, e
<1>6. EscrowsKept(m.escrow, e)
  BY Zenon, <1>4 DEF EscrowsKept
<1>7. f.reward = r /\ f.escrow = e /\ f.review = m.review /\ MoneyType(f)
  BY Zenon, <1>3, <1>4, <1>5 DEF MoneyType
<1>8. Beside(m, f)
  BY Zenon, <1>4, <1>6, <1>7, KeysKnown DEF Beside
<1> QED
  BY Zenon, <1>3, <1>4, <1>7, <1>8

LEMMA GiveBack ==
    ASSUME NEW m, MoneyType(m), NEW w, Backed(m.reward, m.escrow, w),
           NEW f, f = releaseReward(m), NEW v, NEW n,
           \/ v.state = "cancelled"
           \/ v.state \in {"open", "claimed", "submitted"} /\ Deadline <= n
    PROVE  Beside(m, f) /\ GivenBack(f.reward, f.escrow, v, n)
<1>1. /\ Beside(m, f)
      /\ f.reward.state = "released" /\ f.reward.hold = "reward"
      /\ f.reward.settles = m.reward.settles
      /\ f.escrow["reward"].state = "released"
      /\ \A k \in Keys : k # "reward" => f.escrow[k] = m.escrow[k]
  BY ReleaseRewardRow DEF Backed
<1> QED
  BY Zenon, <1>1, KeysKnown DEF Backed, GivenBack

LEMMA ClawBack ==
    ASSUME NEW m, MoneyType(m), NEW w, PaidInParts(m.reward, m.escrow, w),
           m.reward.state = "held", NEW f, f = releaseReward(m)
    PROVE  Beside(m, f) /\ PaidInParts(f.reward, f.escrow, w)
<1>0. m.reward.hold = "reward" /\ m.escrow["reward"].state = "held"
  BY Zenon DEF PaidInParts, Agree
<1>1. /\ Beside(m, f)
      /\ f.reward.state = "released" /\ f.reward.worker = m.reward.worker
      /\ f.reward.hold = "reward" /\ f.reward.amount = m.reward.amount
      /\ f.reward.settles = m.reward.settles
      /\ f.escrow["reward"].state = "released"
      /\ f.escrow["reward"].units = m.escrow["reward"].units
      /\ \A k \in Keys : k # "reward" => f.escrow[k] = m.escrow[k]
  BY <1>0, ReleaseRewardRow
<1> QED
  BY ZenonT(30), <1>1, KeysKnown DEF PaidInParts, Agree

\* A reward the deadline gave back is held again, in a second escrow.
LEMMA HeldAgain ==
    ASSUME NEW m, MoneyType(m), NEW w, NEW n, GivenBack(m.reward, m.escrow, w, n),
           NEW f, f = rehold(m)
    PROVE  /\ Beside(m, f) /\ Ready(f.reward, f.escrow)
           /\ f.reward.hold = "late"
<1> DEFINE r == [m.reward EXCEPT !.state = "held", !.hold = "late"]
           e == E!opened(m.escrow, "late", m.reward.amount)
<1>0. /\ m.reward.state = "released" /\ m.reward.settles = 0
      /\ m.escrow["reward"].state = "released"
      /\ m.escrow["late"].state = "none" /\ m.escrow["upfront"].state = "none"
  BY Zenon DEF GivenBack
<1>1. m.reward \in RowType /\ m.escrow \in Escrows /\ m.reward.amount \in Nat
  BY Zenon DEF MoneyType, RowType
<1>2. /\ r \in RowType /\ r.state = "held" /\ r.hold = "late"
      /\ r.amount = m.reward.amount /\ r.settles = 0
  BY Zenon, <1>0, <1>1, KeysKnown DEF RowType
<1>3. /\ e \in Escrows
      /\ e["late"] = [state |-> "held", units |-> m.reward.amount, to |-> {}]
      /\ \A j \in Keys : j # "late" => e[j] = m.escrow[j]
  BY ZenonT(30), <1>1, Opened, KeysKnown
<1>4. f = [m EXCEPT !.reward = r, !.escrow = e]
  BY Zenon, <1>0 DEF rehold
<1> HIDE DEF r, e
<1>5. EscrowsKept(m.escrow, e)
  BY Zenon, <1>0, <1>3 DEF EscrowsKept
<1>6. f.reward = r /\ f.escrow = e /\ f.review = m.review /\ MoneyType(f)
  BY Zenon, <1>2, <1>3, <1>4 DEF MoneyType
<1>7. Ready(r, e)
  BY <1>0, <1>2, <1>3, KeysKnown DEF Ready
<1> QED
  BY Zenon, <1>2, <1>3, <1>5, <1>6, <1>7, KeysKnown DEF Beside

\* Both parts of a split are parts of the reward.
LEMMA Deferred ==
    ASSUME NEW n \in Nat
    PROVE  deferredAmount(n) \in 0..n /\ (deferredAmount(n) > 0 => deferredAmount(n) < n)
<1> DEFINE d == (n * DeferredPPM) \div Ppm
<1>1. n * DeferredPPM \in Nat
  BY Constants
<1>2. d \in Int
  BY <1>1, Constants
<1>3. deferredAmount(n) = IF n < MinSplit \/ d < 1 \/ n - d < 1 THEN 0 ELSE d
  BY Zenon DEF deferredAmount
<1> QED
  BY <1>2, <1>3

LEMMA SplitInParts ==
    ASSUME NEW m, MoneyType(m), Ready(m.reward, m.escrow), m.reward.hold = "reward",
           NEW to \in Accounts, NEW p \in BOOLEAN, Splits(m, to), now \in Nat,
           NEW f, f = splitPayout(m, to, p),
           NEW w, w.state = "accepted", w.worker = to
    PROVE  Beside(m, f) /\ PaidInParts(f.reward, f.escrow, w)
<1> DEFINE n == m.reward.amount
           up == n - splitDeferred(m, to)
           r == [m.reward EXCEPT !.worker = to, !.settles = now + Deferral]
           e == E!split(m.escrow, "reward", "upfront", up)
           g == E!paid(e, "upfront", to, p)
<1>0. /\ m.reward.state = "held" /\ m.escrow["reward"].state = "held"
      /\ m.escrow["reward"].units = n
      /\ m.escrow["late"].state = "none" /\ m.escrow["upfront"].state = "none"
  BY Zenon DEF Ready
<1>1. m.reward \in RowType /\ m.escrow \in Escrows /\ n \in Nat
  BY Zenon DEF MoneyType, RowType
<1>2. up \in Nat /\ up <= n
  BY <1>1, Deferred DEF splitDeferred
<1>3. /\ r \in RowType /\ r.state = "held" /\ r.hold = "reward" /\ r.worker = to
      /\ r.amount = n /\ r.settles > 0
  <2>1. now + Deferral \in Nat /\ now + Deferral > 0
    BY Constants
  <2> QED
    BY Zenon, <1>0, <1>1, <2>1 DEF RowType
<1> HIDE DEF up, n
<1>4. /\ e \in Escrows
      /\ e["upfront"] = [state |-> "held", units |-> up, to |-> {}]
      /\ e["reward"].state = "held" /\ e["reward"].units = n - up
      /\ \A j \in Keys : j # "upfront" /\ j # "reward" => e[j] = m.escrow[j]
  BY <1>0, <1>1, <1>2, Carved, KeysKnown
<1> HIDE DEF e
<1>5. /\ g \in Escrows
      /\ g["upfront"].state = (IF p THEN "pending" ELSE "done")
      /\ g["upfront"].units = up /\ g["upfront"].to = {to}
      /\ \A j \in Keys : j # "upfront" => g[j] = e[j]
  BY <1>4, PaidOut, KeysKnown
<1>6. f = [m EXCEPT !.reward = r, !.escrow = g]
  BY Zenon DEF splitPayout, up, n, e
<1> HIDE DEF r, g
<1>7. EscrowsKept(m.escrow, g)
  BY Zenon, <1>0, <1>4, <1>5 DEF EscrowsKept
<1>8. f.reward = r /\ f.escrow = g /\ f.review = m.review /\ MoneyType(f)
  BY Zenon, <1>3, <1>5, <1>6 DEF MoneyType
<1>9. Beside(m, f)
  BY Zenon, <1>4, <1>5, <1>7, <1>8, KeysKnown DEF Beside
<1>10. PaidInParts(r, g, w)
  BY <1>1, <1>2, <1>0, <1>3, <1>4, <1>5, KeysKnown DEF PaidInParts, Agree
<1> QED
  BY Zenon, <1>8, <1>9, <1>10

-----------------------------------------------------------------------------
(* The money of a decision.                                                *)

LEMMA KeptTwice ==
    ASSUME NEW e, NEW f, NEW g, EscrowsKept(e, f), EscrowsKept(f, g)
    PROVE  EscrowsKept(e, g)
BY Zenon DEF EscrowsKept

Undecided == {"open", "claimed", "submitted"}

\* Until the deadline the reward of an undecided item is where it was put.
LEMMA StillBacked ==
    ASSUME NEW r, NEW e, NEW w, NEW n, w.state \in Undecided, RewardInv(r, e, w, n)
    PROVE  \/ Absent(r, e)
           \/ Backed(r, e, w)
           \/ GivenBack(r, e, w, n) /\ Deadline <= n
BY Zenon DEF RewardInv, Undecided, GivenBack, PaidWhole, PaidInParts

LEMMA AcceptMoney ==
    ASSUME NEW m, MoneyType(m), ReviewInv(m.review, m.escrow),
           Absent(m.reward, m.escrow) \/ Ready(m.reward, m.escrow),
           now \in Nat, m.reward.state = "held" /\ m.reward.hold = "late" => Deadline <= now,
           NEW to \in Accounts, SplitAdmitted(m, to),
           NEW verdict \in BOOLEAN, NEW fallback \in BOOLEAN, NEW p \in BOOLEAN,
           verdict => work.reviewer \in Accounts,
           NEW f, f = acceptMoney(m, to, verdict, fallback, p),
           NEW w, w.state = "accepted", w.worker = to, NEW n
    PROVE  MoneyInv(f, w, n) /\ EscrowsKept(m.escrow, f.escrow)
<1> DEFINE g == payWorkRewardSplit(m, to, p)
           h == IF verdict THEN payReview(g, work.reviewer, p)
                ELSE IF fallback THEN releaseReview(g) ELSE g
<1>1. Beside(m, g) /\ RewardInv(g.reward, g.escrow, w, n)
  <2>1. CASE Absent(m.reward, m.escrow)
    <3>1. g = m
      BY Zenon, <2>1 DEF Absent, payWorkRewardSplit, Splits, payReward
    <3> QED
      BY Zenon, <2>1, <3>1 DEF Beside, RewardInv, EscrowsKept
  <2>2. CASE Ready(m.reward, m.escrow) /\ ~Splits(m, to)
    <3>1. g = payReward(m, to, p)
      BY Zenon, <2>2 DEF payWorkRewardSplit
    <3> HIDE DEF g
    <3>2. Beside(m, g) /\ PaidWhole(g.reward, g.escrow, w)
      BY Zenon, <2>2, <3>1, PayWhole
    <3> QED
      BY Zenon, <3>2 DEF RewardInv
  <2>3. CASE Ready(m.reward, m.escrow) /\ Splits(m, to)
    <3>1. g = splitPayout(m, to, p)
      BY Zenon, <2>3 DEF payWorkRewardSplit
    <3>2. Deadline > now
      BY Zenon, <2>3 DEF SplitAdmitted
    <3>3. m.reward.hold = "reward"
      BY <2>3, <3>2, Constants DEF Ready
    <3> HIDE DEF g
    <3>4. Beside(m, g) /\ PaidInParts(g.reward, g.escrow, w)
      BY Zenon, <2>3, <3>1, <3>3, SplitInParts
    <3> QED
      BY Zenon, <3>4 DEF RewardInv
  <2> QED
    BY Zenon, <2>1, <2>2, <2>3
<1>2. MoneyType(g) /\ ReviewInv(g.review, g.escrow)
  BY Zenon, <1>1, BesideKeeps DEF Beside
<1> HIDE DEF g
<1>3. Aside(g, h)
  BY Zenon, <1>2, PayReviewAside, ReleaseReviewAside, AsideNothing
<1>4. f = releaseReject(h)
  BY Zenon DEF acceptMoney, g
<1> HIDE DEF h
<1>5. Aside(h, f)
  BY ZenonT(30), <1>3, <1>4, ReleaseRejectAside DEF Aside
<1>6. Aside(g, f)
  BY Zenon, <1>3, <1>5, AsideTwice
<1>7. RewardInv(f.reward, f.escrow, w, n)
  BY Zenon, <1>1, <1>6, AsideKeeps
<1>8. EscrowsKept(m.escrow, f.escrow)
  BY Zenon, <1>1, <1>6, KeptTwice DEF Beside, Aside
<1> QED
  BY Zenon, <1>6, <1>7, <1>8 DEF MoneyInv, Aside

LEMMA RejectMoney ==
    ASSUME NEW m, MoneyType(m), ReviewInv(m.review, m.escrow),
           NEW verdict \in BOOLEAN, NEW fallback \in BOOLEAN, NEW p \in BOOLEAN,
           verdict => work.reviewer \in Accounts,
           work.state = "submitted" => work.worker \in Accounts
    PROVE  Aside(m, rejectMoney(m, verdict, fallback, p))
<1> DEFINE g == IF verdict THEN payReview(m, work.reviewer, p)
                ELSE IF fallback THEN releaseReview(m) ELSE m
<1>1. Aside(m, g)
  BY Zenon, PayReviewAside, ReleaseReviewAside, AsideNothing
<1>2. rejectMoney(m, verdict, fallback, p) =
        IF work.state = "submitted" THEN payReject(g, work.worker, p) ELSE g
  BY Zenon DEF rejectMoney
<1> HIDE DEF g
<1>3. work.state = "submitted" => Aside(g, payReject(g, work.worker, p))
  BY ZenonT(30), <1>1, PayRejectAside DEF Aside
<1> QED
  BY Zenon, <1>1, <1>2, <1>3, AsideTwice

LEMMA CancelMoney ==
    ASSUME NEW m, MoneyType(m), ReviewInv(m.review, m.escrow),
           Absent(m.reward, m.escrow) \/ Backed(m.reward, m.escrow, work),
           NEW p \in BOOLEAN, work.state = "submitted" => work.worker \in Accounts,
           NEW f, f = cancelMoney(m, p), NEW w, w.state = "cancelled", NEW n
    PROVE  MoneyInv(f, w, n) /\ EscrowsKept(m.escrow, f.escrow)
<1> DEFINE g == releaseReward(m)
           h == releaseReview(g)
<1>1. Beside(m, g) /\ RewardInv(g.reward, g.escrow, w, n)
  <2>1. CASE Absent(m.reward, m.escrow)
    <3>1. g = m
      BY Zenon, <2>1 DEF Absent, releaseReward
    <3> QED
      BY Zenon, <2>1, <3>1 DEF Beside, RewardInv, EscrowsKept
  <2>2. CASE Backed(m.reward, m.escrow, work)
    BY Zenon, <2>2, GiveBack DEF RewardInv
  <2> QED
    BY Zenon, <2>1, <2>2
<1>2. MoneyType(g) /\ ReviewInv(g.review, g.escrow)
  BY Zenon, <1>1, BesideKeeps DEF Beside
<1> HIDE DEF g
<1>3. Aside(g, h)
  BY Zenon, <1>2, ReleaseReviewAside
<1>4. f = IF work.state = "submitted" THEN payReject(h, work.worker, p)
                                      ELSE releaseReject(h)
  BY Zenon DEF cancelMoney, g
<1> HIDE DEF h
<1>5. Aside(h, f)
  BY <1>3, <1>4, ReleaseRejectAside, PayRejectAside DEF Aside
<1>6. Aside(g, f)
  BY Zenon, <1>3, <1>5, AsideTwice
<1>7. RewardInv(f.reward, f.escrow, w, n)
  BY Zenon, <1>1, <1>6, AsideKeeps
<1>8. EscrowsKept(m.escrow, f.escrow)
  BY Zenon, <1>1, <1>6, KeptTwice DEF Beside, Aside
<1> QED
  BY Zenon, <1>6, <1>7, <1>8 DEF MoneyInv, Aside

-----------------------------------------------------------------------------
(* The money of a sweep.                                                   *)

\* What is paid or given back stays so.
Onward(m, f) == /\ EscrowsKept(m.escrow, f.escrow)
                /\ m.reward.state \in {"paid", "released"} => f.reward = m.reward

LEMMA OnwardTwice ==
    ASSUME NEW m, NEW f, NEW g, Onward(m, f), Onward(f, g)
    PROVE  Onward(m, g)
BY KeptTwice DEF Onward

\* Money that is in order, but for the item that has none yet.
InOrder(m, w, n) == /\ MoneyType(m)
                    /\ RewardInv(m.reward, m.escrow, w, n)
                    /\ ReviewInv(m.review, m.escrow)

LEMMA PaymentsEnd ==
    ASSUME NEW m, NEW w, NEW n, InOrder(m, w, n),
           NEW done \in SUBSET E!In(m.escrow, "pending"),
           NEW cancelled \in SUBSET (E!In(m.escrow, "pending") \ done),
           NEW f, f = [m EXCEPT !.escrow =
                         E!ended(E!ended(@, done, "done"), cancelled, "cancelled")]
    PROVE  InOrder(f, w, n) /\ Onward(m, f)
<1> DEFINE d == E!ended(m.escrow, done, "done")
           e == E!ended(d, cancelled, "cancelled")
<1>0. m.escrow \in Escrows
  BY Zenon DEF InOrder, MoneyType
<1>1. d \in Escrows /\ \A k \in Keys : /\ k \in done => d[k].state = "done"
                                       /\ d[k].units = m.escrow[k].units
                                       /\ d[k].to = m.escrow[k].to
                                       /\ k \notin done => d[k] = m.escrow[k]
  BY <1>0, EndedAre
<1> HIDE DEF d
<1>2. e \in Escrows /\ \A k \in Keys : /\ k \in cancelled => e[k].state = "cancelled"
                                       /\ e[k].units = d[k].units
                                       /\ e[k].to = d[k].to
                                       /\ k \notin cancelled => e[k] = d[k]
  BY <1>1, EndedAre
<1>3. f = [m EXCEPT !.escrow = e]
  BY Zenon DEF d
<1> HIDE DEF e
<1>4. ASSUME NEW k \in Keys
      PROVE  /\ e[k].units = m.escrow[k].units /\ e[k].to = m.escrow[k].to
             /\ m.escrow[k].state # "pending" => e[k] = m.escrow[k]
             /\ m.escrow[k].state = "pending" => e[k].state \in {"pending", "done", "cancelled"}
  <2>1. k \in done \cup cancelled => m.escrow[k].state = "pending"
    BY Zenon DEF E!In
  <2> QED
    BY Zenon, <1>1, <1>2, <2>1
<1>5. MoneyType(f) /\ f.reward = m.reward /\ f.review = m.review /\ f.escrow = e
  BY Zenon, <1>2, <1>3 DEF InOrder, MoneyType
<1>6. ReviewInv(f.review, f.escrow)
  BY Zenon, <1>4, <1>5, KeysKnown DEF InOrder, ReviewInv, Agree
<1>7. EscrowsKept(m.escrow, e)
  BY Zenon, <1>4 DEF EscrowsKept
<1>8. RewardInv(f.reward, f.escrow, w, n)
  <2>1. CASE Absent(m.reward, m.escrow)
    BY <2>1, <1>4, <1>5, KeysKnown DEF RewardInv, Absent
  <2>2. CASE Backed(m.reward, m.escrow, w)
    BY Zenon, <2>2, <1>4, <1>5, KeysKnown DEF RewardInv, Backed
  <2>3. CASE GivenBack(m.reward, m.escrow, w, n)
    BY Zenon, <2>3, <1>4, <1>5, KeysKnown DEF RewardInv, GivenBack
  <2>4. CASE PaidWhole(m.reward, m.escrow, w)
    <3> DEFINE k == m.reward.hold
    <3>1. k \in Keys
      BY Zenon, <2>4, KeysKnown DEF PaidWhole
    <3>2. Agree(m.reward, e[k].state) /\ e[k].state # "released"
      BY Zenon, <2>4, <1>4, <3>1 DEF PaidWhole, Agree
    <3>3. e[k].units = m.reward.amount /\ e[k].to = {w.worker}
      BY Zenon, <2>4, <1>4, <3>1 DEF PaidWhole
    <3>4. PaidWhole(m.reward, e, w)
      BY Zenon, <2>4, <1>4, <3>2, <3>3, KeysKnown DEF PaidWhole
    <3> QED
      BY Zenon, <1>5, <3>4 DEF RewardInv
  <2>5. CASE PaidInParts(m.reward, m.escrow, w)
    BY <2>5, <1>4, <1>5, KeysKnown DEF RewardInv, PaidInParts, Agree
  <2> QED
    BY Zenon, <2>1, <2>2, <2>3, <2>4, <2>5 DEF InOrder, RewardInv
<1> QED
  BY Zenon, <1>5, <1>6, <1>7, <1>8 DEF InOrder, Onward

LEMMA LapseMoney ==
    ASSUME NEW m, NEW w, NEW n, InOrder(m, w, n), w.state \in Undecided, Deadline <= n,
           NEW f, f = releaseReview(releaseReward(m))
    PROVE  InOrder(f, w, n) /\ Onward(m, f)
<1> DEFINE g == releaseReward(m)
<1>1. Beside(m, g) /\ RewardInv(g.reward, g.escrow, w, n)
      /\ (m.reward.state \in {"paid", "released"} => g.reward = m.reward)
  <2>1. CASE Backed(m.reward, m.escrow, w)
    <3>1. Beside(m, g) /\ GivenBack(g.reward, g.escrow, w, n)
      BY Zenon, <2>1, GiveBack DEF InOrder, Undecided
    <3> QED
      BY Zenon, <2>1, <3>1 DEF RewardInv, Backed
  <2>2. CASE Absent(m.reward, m.escrow) \/ GivenBack(m.reward, m.escrow, w, n)
    <3>1. g = m
      BY Zenon, <2>2 DEF releaseReward, Absent, GivenBack
    <3> QED
      BY Zenon, <3>1 DEF Beside, InOrder, EscrowsKept
  <2> QED
    BY Zenon, <2>1, <2>2, StillBacked DEF InOrder
<1>2. MoneyType(g) /\ ReviewInv(g.review, g.escrow)
  BY Zenon, <1>1, BesideKeeps DEF Beside, InOrder
<1> HIDE DEF g
<1>3. Aside(g, f)
  BY Zenon, <1>2, ReleaseReviewAside DEF g
<1>4. RewardInv(f.reward, f.escrow, w, n)
  BY Zenon, <1>1, <1>3, AsideKeeps
<1>5. EscrowsKept(m.escrow, f.escrow)
  BY Zenon, <1>1, <1>3, KeptTwice DEF Beside, Aside
<1> QED
  BY Zenon, <1>1, <1>3, <1>4, <1>5 DEF Aside, InOrder, Onward

\* A row that follows its payment.
LEMMA FollowedRow ==
    ASSUME NEW row \in RowType, NEW e
    PROVE  /\ followed(row, e) \in RowType
           /\ followed(row, e).hold = row.hold
           /\ followed(row, e).amount = row.amount
           /\ followed(row, e).worker = row.worker
           /\ followed(row, e).settles = row.settles
           /\ row.state # "pending" => followed(row, e) = row
           /\ row.state = "pending" => followed(row, e).state # "held"
           /\ Agree(row, e[row.hold].state) => Agree(followed(row, e), e[row.hold].state)
<1>1. CASE row.state # "pending"
  BY Zenon, <1>1 DEF followed
<1>2. CASE row.state = "pending" /\ e[row.hold].state = "done"
  <2>1. followed(row, e) = [row EXCEPT !.state = "paid"]
    BY Zenon, <1>2 DEF followed
  <2> QED
    BY Zenon, <1>2, <2>1 DEF RowType, Agree
<1>3. CASE row.state = "pending" /\ e[row.hold].state = "cancelled"
  <2>1. followed(row, e) = [row EXCEPT !.state = "released"]
    BY Zenon, <1>3 DEF followed
  <2> QED
    BY Zenon, <1>3, <2>1 DEF RowType, Agree
<1>4. CASE row.state = "pending" /\ e[row.hold].state \notin {"done", "cancelled"}
  <2>1. followed(row, e) = row
    BY Zenon, <1>4 DEF followed
  <2> QED
    BY Zenon, <1>4, <2>1
<1> QED
  BY Zenon, <1>1, <1>2, <1>3, <1>4

LEMMA FollowMoney ==
    ASSUME NEW m, NEW w, NEW n, InOrder(m, w, n),
           NEW f, f = [m EXCEPT !.reward = followed(@, m.escrow),
                                !.review = followed(@, m.escrow)]
    PROVE  InOrder(f, w, n) /\ Onward(m, f)
<1> DEFINE r == followed(m.reward, m.escrow)
           v == followed(m.review, m.escrow)
           e == m.escrow
<1>0. m.reward \in RowType /\ m.review \in RowType
  BY Zenon DEF InOrder, MoneyType
<1>1. /\ r \in RowType /\ r.hold = m.reward.hold /\ r.amount = m.reward.amount
      /\ r.worker = m.reward.worker /\ r.settles = m.reward.settles
      /\ m.reward.state # "pending" => r = m.reward
      /\ m.reward.state = "pending" => r.state # "held"
      /\ Agree(m.reward, e[m.reward.hold].state) => Agree(r, e[m.reward.hold].state)
  BY Zenon, <1>0, FollowedRow
<1>2. /\ v \in RowType /\ v.hold = m.review.hold
      /\ m.review.state # "pending" => v = m.review
      /\ Agree(m.review, e[m.review.hold].state) => Agree(v, e[m.review.hold].state)
  BY Zenon, <1>0, FollowedRow
<1>3. f = [m EXCEPT !.reward = r, !.review = v]
  BY Zenon
<1> HIDE DEF r, v
<1>4. MoneyType(f) /\ f.reward = r /\ f.review = v /\ f.escrow = m.escrow
  BY Zenon, <1>1, <1>2, <1>3 DEF InOrder, MoneyType
<1>5. ReviewInv(v, e)
  BY Zenon, <1>2 DEF InOrder, ReviewInv, Agree
<1>6. RewardInv(r, e, w, n)
  <2>1. CASE Absent(m.reward, e) \/ Backed(m.reward, e, w) \/ GivenBack(m.reward, e, w, n)
    <3>1. r = m.reward
      BY Zenon, <2>1, <1>1 DEF Absent, Backed, GivenBack
    <3> QED
      BY Zenon, <3>1 DEF InOrder
  <2>2. CASE PaidWhole(m.reward, e, w)
    <3>1. r.state # "held"
      BY Zenon, <2>2, <1>1 DEF PaidWhole
    <3> QED
      BY Zenon, <2>2, <1>1, <3>1 DEF RewardInv, PaidWhole
  <2>3. CASE PaidInParts(m.reward, e, w)
    BY Zenon, <2>3, <1>1 DEF RewardInv, PaidInParts
  <2> QED
    BY Zenon, <2>1, <2>2, <2>3 DEF InOrder, RewardInv
<1>7. EscrowsKept(m.escrow, f.escrow)
  BY Zenon, <1>4 DEF EscrowsKept
<1> QED
  BY Zenon, <1>1, <1>4, <1>5, <1>6, <1>7 DEF InOrder, Onward

LEMMA DeferredMoney ==
    ASSUME NEW m, NEW n, InOrder(m, work, n), now \in Nat,
           work.state = "accepted" => work.worker \in Accounts,
           NEW affiliated \in BOOLEAN, NEW pay \in {"done", "pending", "refused"},
           NEW f, f = settleSplitPayouts(m, affiliated, pay)
    PROVE  InOrder(f, work, n) /\ Onward(m, f)
<1>1. CASE ~SplitDue(m)
  BY Zenon, <1>1 DEF settleSplitPayouts, Onward, EscrowsKept
<1>2. CASE SplitDue(m)
  <2>1. m.reward.state = "held" /\ m.reward.settles # 0
    BY <1>2 DEF SplitDue
  <2>2. PaidInParts(m.reward, m.escrow, work)
    BY Zenon, <2>1 DEF InOrder, RewardInv, Absent, Backed, GivenBack, PaidWhole
  <2>3. m.reward.worker \in Accounts /\ MoneyType(m)
    BY Zenon, <2>2 DEF PaidInParts, InOrder
  <2>4. (pay = "pending") \in BOOLEAN
    BY Zenon
  <2>5. Beside(m, f) /\ PaidInParts(f.reward, f.escrow, work)
    <3>1. CASE ClawedBack(affiliated)
      <4>1. f = releaseReward(m)
        BY Zenon, <1>2, <3>1 DEF settleSplitPayouts
      <4> QED
        BY Zenon, <2>1, <2>2, <2>3, <4>1, ClawBack
    <3>2. CASE ~ClawedBack(affiliated)
      <4>1. f = payReward(m, m.reward.worker, pay = "pending")
        BY Zenon, <1>2, <3>2 DEF settleSplitPayouts
      <4> QED
        BY Zenon, <2>1, <2>2, <2>3, <2>4, <4>1, PayDeferred
    <3> QED
      BY Zenon, <3>1, <3>2
  <2>6. ReviewInv(f.review, f.escrow)
    BY Zenon, <2>5, BesideKeeps DEF InOrder
  <2> QED
    BY Zenon, <2>1, <2>5, <2>6 DEF InOrder, RewardInv, Beside, Onward
<1> QED
  BY Zenon, <1>1, <1>2

LEMMA RejectFeeMoney ==
    ASSUME NEW m, NEW n, InOrder(m, work, n),
           work.state = "submitted" => work.worker \in Accounts,
           NEW pay \in {"done", "pending", "refused"},
           NEW f, f = settleWorkRejectFees(m, pay)
    PROVE  InOrder(f, work, n) /\ Onward(m, f)
<1>1. MoneyType(m) /\ ReviewInv(m.review, m.escrow)
  BY Zenon DEF InOrder
<1>2. (pay = "pending") \in BOOLEAN
  BY Zenon
<1>3. \/ f = m
      \/ f = releaseReject(m)
      \/ work.state = "submitted" /\ f = payReject(m, work.worker, pay = "pending")
  BY Zenon DEF settleWorkRejectFees
<1>4. Aside(m, f)
  BY Zenon, <1>1, <1>2, <1>3, AsideNothing, ReleaseRejectAside, PayRejectAside
<1>5. RewardInv(f.reward, f.escrow, work, n)
  BY Zenon, <1>4, AsideKeeps DEF InOrder
<1> QED
  BY Zenon, <1>4, <1>5 DEF Aside, InOrder, Onward

LEMMA SweepMoney ==
    ASSUME InOrder(money, work, now), now \in Nat,
           work.state \in Undecided \cup Ended,
           work.state \in {"submitted", "accepted"} => work.worker \in Accounts,
           NEW done \in SUBSET E!In(escrow, "pending"),
           NEW cancelled \in SUBSET (E!In(escrow, "pending") \ done),
           NEW affiliated \in BOOLEAN, NEW pay \in {"done", "pending", "refused"},
           Sweep(done, cancelled, affiliated, pay)
    PROVE  InOrder(money', work, now) /\ Onward(money, money')
<1>0. money.escrow = escrow
  BY Zenon DEF money
<1> DEFINE swept == [money EXCEPT !.escrow =
                       E!ended(E!ended(@, done, "done"), cancelled, "cancelled")]
           lapsed == IF Lapsed THEN releaseReview(releaseReward(swept)) ELSE swept
           settled == [lapsed EXCEPT !.reward = followed(@, lapsed.escrow),
                                     !.review = followed(@, lapsed.escrow)]
           deferred == settleSplitPayouts(settled, affiliated, pay)
           last == settleWorkRejectFees(deferred, pay)
<1>1. InOrder(swept, work, now) /\ Onward(money, swept)
  BY Zenon, <1>0, PaymentsEnd
<1>2. Books(last)
  BY Zenon DEF Sweep, settleWorkEscrows
<1> HIDE DEF swept
<1>3. InOrder(lapsed, work, now) /\ Onward(money, lapsed)
  <2>1. CASE Lapsed
    <3>1. work.state \in Undecided /\ Deadline <= now
      BY Zenon, <2>1 DEF Lapsed
    <3>2. InOrder(lapsed, work, now) /\ Onward(swept, lapsed)
      BY Zenon, <1>1, <2>1, <3>1, LapseMoney
    <3> QED
      BY Zenon, <1>1, <3>2, OnwardTwice
  <2>2. CASE ~Lapsed
    BY Zenon, <1>1, <2>2
  <2> QED
    BY Zenon, <2>1, <2>2
<1> HIDE DEF lapsed
<1>4. InOrder(settled, work, now) /\ Onward(lapsed, settled)
  BY Zenon, <1>3, FollowMoney
<1> HIDE DEF settled
<1>5. InOrder(deferred, work, now) /\ Onward(settled, deferred)
  BY Zenon, <1>4, DeferredMoney
<1> HIDE DEF deferred
<1>6. InOrder(last, work, now) /\ Onward(deferred, last)
  BY Zenon, <1>5, RejectFeeMoney
<1>7. Onward(money, last)
  BY Zenon, <1>3, <1>4, <1>5, <1>6, OnwardTwice
<1> HIDE DEF last
<1>8. money' = last
  <2>1. last \in [reward : RowType, review : RowType, escrow : Escrows]
    BY Zenon, <1>6 DEF InOrder, MoneyType
  <2> QED
    BY Zenon, <1>2, <2>1 DEF Books, money
<1> QED
  BY Zenon, <1>6, <1>7, <1>8

-----------------------------------------------------------------------------
(* The lifecycle and the USDC.                                             *)

LEMMA TypesNext ==
    TypeOK' <=>
      /\ now' \in 0..Horizon /\ generation' \in 0..MaxGeneration
      /\ work' \in WorkType
      /\ reply' \in [edited : BOOLEAN, hidden : BOOLEAN]
      /\ knows' \in [Deciders -> KnowsType]
      /\ MoneyType(money')
      /\ usdc' \in USDCType
      /\ linked' \subseteq Workers
BY Zenon DEF TypeOK, WorkType, MoneyType, money, RowType, Escrows, USDCType, KnowsType

\* The stored state behind the one a command meets.
LEMMA EffectiveMeans ==
    ASSUME TypeOK
    PROVE  /\ effective = "open" => work.state \in {"open", "claimed"} /\ now < Deadline
           /\ effective = "claimed" => work.state = "claimed" /\ now < Deadline
           /\ effective = "submitted" => work.state = "submitted" /\ now < Deadline
           /\ effective = "recovery_required" => work.state \in Undecided /\ now < Deadline
           /\ effective = "expired" => work.state \in Undecided /\ Deadline <= now
<1>1. now \in Nat /\ Deadline \in Nat
  BY Constants, Types
<1>2. work.state \in {"none", "open", "claimed", "submitted", "accepted", "cancelled"}
  <2>1. work.state \in {"none", "open", "claimed", "submitted"} \cup Ended
    BY Zenon DEF TypeOK
  <2> QED
    BY Zenon, <2>1 DEF Ended
<1>3. CASE work.state \in {"none", "accepted", "cancelled"}
  <2>1. effective = work.state
    BY Zenon, <1>3 DEF effective, Ended
  <2> QED
    BY Zenon, <1>3, <2>1
<1>4. CASE work.state \in Undecided
  <2>1. effective =
          IF Deadline <= now
          THEN IF work.state = "submitted" /\ work.reviewer # NoOne
               THEN "review_lapsed" ELSE "expired"
          ELSE IF work.generation # generation THEN "recovery_required"
          ELSE IF work.state = "claimed" /\ work.claimEnd <= now THEN "open"
          ELSE work.state
    BY Zenon, <1>4 DEF effective, Ended, Undecided
  <2> QED
    BY <1>1, <1>4, <2>1 DEF Undecided
<1> QED
  BY Zenon, <1>2, <1>3, <1>4 DEF Undecided

\* What Save writes.
SavedAs(w) == /\ work' \in WorkType
              /\ work'.state = w.state /\ work'.fence = w.fence
              /\ work'.worker = w.worker /\ work'.reviewer = w.reviewer
              /\ work'.judged = w.judged

LEMMA Saved ==
    ASSUME TypeOK, NEW w \in WorkType, Save(w)
    PROVE  SavedAs(w)
<1>1. generation \in 0..MaxGeneration /\ now \in 0..Horizon
  BY Zenon DEF TypeOK
<1>2. work' = [w EXCEPT !.generation = generation, !.updated = now]
  BY Zenon DEF Save
<1> QED
  BY Zenon, <1>1, <1>2 DEF WorkType, SavedAs

\* A step that passes the fence on, or keeps it with its worker.
LEMMA KnowsKept ==
    ASSUME TypeOK, KnowsInv, UNCHANGED <<knows, generation>>,
           work'.fence \in Nat,
           \/ work'.fence = work.fence + 1
           \/ /\ work'.fence = work.fence
              /\ work'.state \in {"claimed", "submitted"} =>
                   work.state \in {"claimed", "submitted"} /\ work'.worker = work.worker
    PROVE  KnowsInv'
<1>1. ASSUME NEW a \in Deciders PROVE Recent(knows'[a], work', generation')
  <2>1. knows[a] \in KnowsType /\ work.fence \in Nat
    <3>1. knows \in [Deciders -> KnowsType] /\ work.fence \in 0..MaxFence
      BY Zenon, Types DEF WorkType
    <3> QED
      BY <3>1, Constants
  <2>2. knows[a].fence \in Nat
    BY <2>1, Constants DEF KnowsType
  <2>3. Recent(knows[a], work, generation)
    BY Zenon DEF KnowsInv
  <2> QED
    BY <2>1, <2>2, <2>3 DEF Recent
<1> QED
  BY Zenon, <1>1 DEF KnowsInv

LEMMA PayToOwn ==
    ASSUME NEW a, usdc.payTo \in {usdc.worker, NoOne},
           NEW submit \in BOOLEAN, NEW named \in BOOLEAN, NEW sends \in BOOLEAN
    PROVE  PayTo(a, submit, named, sends) \in {a, NoOne}
BY Zenon DEF PayTo

LEMMA SetPayTo ==
    ASSUME NEW u \in USDCType, u.payTo \in {u.worker, NoOne},
           NEW a \in Workers \cup {NoOne}, NEW to \in {a, NoOne},
           NEW f, f = setWorkPayTo(u, a, to)
    PROVE  /\ f \in USDCType /\ f.payTo \in {f.worker, NoOne}
           /\ f.state = u.state /\ f.reason = u.reason
           /\ u.state = "promised" => f.worker = a
           /\ u.state # "promised" => f = u
BY Zenon DEF setWorkPayTo, USDCType

LEMMA VoidUSDC ==
    ASSUME NEW u \in USDCType,
           NEW reason \in {"cancelled", "expired", "review_lapsed", "requester_lapsed",
                           "no_payout_address"},
           NEW f, f = voidWorkUSDC(u, reason)
    PROVE  /\ f \in USDCType /\ f.payTo = u.payTo /\ f.worker = u.worker
           /\ u.state = "promised" => f.state = "void" /\ f.reason = reason
           /\ u.state # "promised" => f = u
BY Zenon DEF voidWorkUSDC, USDCType

LEMMA ReviveUSDC ==
    ASSUME NEW u \in USDCType, NEW f, f = reviveLapsedWorkUSDC(u)
    PROVE  /\ f \in USDCType /\ f.payTo = u.payTo /\ f.worker = u.worker
           /\ \/ f = u /\ ~(u.state = "void" /\ u.reason = "requester_lapsed")
              \/ f.state = "promised" /\ u.state = "void" /\ u.reason = "requester_lapsed"
BY Zenon DEF reviveLapsedWorkUSDC, USDCType

LEMMA OweUSDC ==
    ASSUME NEW u \in USDCType, NEW a \in Workers, NEW f, f = oweWorkUSDC(u, a)
    PROVE  /\ f \in USDCType /\ f.payTo = u.payTo
           /\ u.state = "promised" => f.state = "payable" /\ f.worker = a
           /\ u.state # "promised" => f = u
BY Zenon DEF oweWorkUSDC, USDCType

-----------------------------------------------------------------------------
(* The steps.                                                              *)

\* What EndedForGood asks of a step.
ForGood ==
    /\ work.state \in Ended => /\ work'.state = work.state
                               /\ work'.worker = work.worker
    /\ \A k \in Keys : escrow[k].state \in {"done", "cancelled", "released"}
                          => escrow'[k] = escrow[k]
    /\ reward.state = "paid" => reward' = reward
    /\ usdc.state = "paid" => usdc' = usdc
    /\ (reward.state = "released" /\ reward' # reward) =>
          /\ work'.state = "accepted" /\ work.state = "submitted"
          /\ Deadline <= now

\* The invariant, taken apart.
LEMMA Facts ==
    ASSUME IInv
    PROVE  /\ TypeOK /\ WorkInv(work) /\ KnowsInv /\ USDCInv(usdc, work, now)
           /\ now \in Nat /\ now \in 0..Horizon /\ generation \in 0..MaxGeneration
           /\ work \in WorkType /\ knows \in [Deciders -> KnowsType]
           /\ reply \in [edited : BOOLEAN, hidden : BOOLEAN]
           /\ usdc \in USDCType /\ linked \subseteq Workers
           /\ work.state \in {"none", "accepted", "cancelled"} \cup Undecided
           /\ work.fence \in 0..MaxFence
           /\ InOrder(money, work, now)
<1>1. TypeOK
  BY Zenon DEF IInv
<1>2. work \in WorkType
  BY Zenon, <1>1, Types
<1>3. work.state \in {"none", "open", "claimed", "submitted"} \cup Ended
      /\ work.fence \in 0..MaxFence
  BY Zenon, <1>2 DEF WorkType
<1>4. work.state \in {"none", "accepted", "cancelled"} \cup Undecided
  BY Zenon, <1>3 DEF Undecided, Ended
<1>5. InOrder(money, work, now)
  BY Zenon DEF IInv, MoneyInv, InOrder
<1> QED
  BY <1>1, <1>2, <1>3, <1>4, <1>5, Types, Constants DEF IInv

LEMMA Undisturbed ==
    ASSUME NEW m, NEW w, NEW n \in Nat, InOrder(m, w, n), w.state \in Undecided,
           n < Deadline, NEW v, v.state \in Undecided
    PROVE  MoneyInv(m, v, n)
<1>1. Absent(m.reward, m.escrow) \/ Backed(m.reward, m.escrow, w)
  BY StillBacked, Constants DEF InOrder
<1>2. RewardInv(m.reward, m.escrow, v, n)
  BY Zenon, <1>1 DEF RewardInv, Backed, Undecided
<1> QED
  BY Zenon, <1>2 DEF InOrder, MoneyInv, Undecided

\* A step of the lifecycle that moves no money and decides nothing.
LEMMA QuietStep ==
    ASSUME IInv, UNCHANGED <<now, generation, knows, reward, review, linked, escrow>>,
           work.state \in Undecided, now < Deadline,
           work' \in WorkType, work'.state \in Undecided,
           usdc' \in USDCType, reply' \in [edited : BOOLEAN, hidden : BOOLEAN],
           WorkInv(work'), KnowsInv', USDCInv(usdc', work', now)
    PROVE  IInv' /\ ForGood
<1>1. money' = money
  BY Zenon DEF money
<1>2. MoneyInv(money, work', now)
  BY Zenon, Facts, Undisturbed
<1>3. TypeOK'
  BY Zenon, <1>1, Facts, TypesNext DEF InOrder
<1>4. usdc.state # "paid"
  BY Zenon, Facts DEF USDCInv, Undecided
<1>5. ForGood
  BY Zenon, <1>4 DEF ForGood, Ended, Undecided
<1> QED
  BY Zenon, <1>1, <1>2, <1>3, <1>5 DEF IInv

\* A worker takes the item: the fence moves on.
LEMMA ClaimedAs ==
    ASSUME IInv, NEW a \in Workers, MayClaim(a), NEW state \in {"claimed", "submitted"},
           NEW end \in 0..Deadline
    PROVE  /\ claimed(a, state, end) \in WorkType
           /\ claimed(a, state, end).state = state
           /\ claimed(a, state, end).fence = work.fence + 1
           /\ claimed(a, state, end).worker = a
           /\ claimed(a, state, end).reviewer = work.reviewer
           /\ a # work.reviewer
           /\ work.state \in {"open", "claimed"} /\ now < Deadline
<1>1. work \in WorkType /\ work.fence \in 0..MaxFence
  BY Zenon, Facts
<1>2. work.fence < MaxFence /\ a # work.reviewer /\ effective = "open"
  BY Zenon DEF MayClaim
<1>3. work.fence + 1 \in 0..MaxFence
  BY <1>1, <1>2, Constants
<1>4. claimed(a, state, end) =
        [work EXCEPT !.state = state, !.fence = work.fence + 1, !.worker = a,
                     !.claimEnd = end]
  BY Zenon DEF claimed
<1>5. work.state \in {"open", "claimed"} /\ now < Deadline
  BY Zenon, <1>2, EffectiveMeans, Facts
<1> QED
  BY ZenonT(30), <1>1, <1>2, <1>3, <1>4, <1>5 DEF WorkType

\* The USDC row follows the worker who claims, or submits.
LEMMA USDCFollows ==
    ASSUME IInv, work.state \in Undecided, now < Deadline,
           NEW a \in Workers, NEW submit \in BOOLEAN, NEW named \in BOOLEAN,
           NEW sends \in BOOLEAN,
           NEW f, f = setWorkPayTo(usdc, a, PayTo(a, submit, named, sends)), NEW w, w.worker = a, w.state \in Undecided
    PROVE  f \in USDCType /\ USDCInv(f, w, now)
<1>1. usdc \in USDCType /\ USDCInv(usdc, work, now) /\ now \in Nat
  BY Zenon, Facts
<1>2. usdc.payTo \in {usdc.worker, NoOne}
  BY Zenon, <1>1 DEF USDCInv
<1>3. PayTo(a, submit, named, sends) \in {a, NoOne}
  BY <1>2, PayToOwn
<1>4. /\ f \in USDCType /\ f.payTo \in {f.worker, NoOne}
      /\ f.state = usdc.state /\ f.reason = usdc.reason
      /\ usdc.state = "promised" => f.worker = a
      /\ usdc.state # "promised" => f = usdc
  BY <1>1, <1>2, <1>3, SetPayTo
<1>5. usdc.state \notin {"void", "payable", "paid"}
  BY <1>1, Constants DEF USDCInv, Undecided, Ended
<1> QED
  BY Zenon, <1>4, <1>5 DEF USDCInv

LEMMA ClaimSteps ==
    ASSUME IInv, NEW a \in Workers, NEW named \in BOOLEAN,
           (\E ttl \in ClaimTTLs : Claim(a, ttl, named)) \/ ClaimWithResult(a, named)
    PROVE  IInv' /\ ForGood
<1>1. PICK state \in {"claimed", "submitted"}, end \in 0..Deadline, sends \in BOOLEAN :
        /\ MayClaim(a)
        /\ Save(claimed(a, state, end))
        /\ usdc' = setWorkPayTo(usdc, a, PayTo(a, FALSE, named, sends))
        /\ reply' \in [edited : BOOLEAN, hidden : BOOLEAN]
        /\ UNCHANGED <<now, generation, knows, reward, review, linked, escrow>>
  <2>1. ASSUME NEW ttl \in ClaimTTLs, Claim(a, ttl, named)
        PROVE  /\ now + ttl \in 0..Deadline /\ MayClaim(a)
               /\ Save(claimed(a, "claimed", now + ttl))
               /\ usdc' = setWorkPayTo(usdc, a, PayTo(a, FALSE, named, FALSE))
               /\ reply' \in [edited : BOOLEAN, hidden : BOOLEAN]
               /\ UNCHANGED <<now, generation, knows, reward, review, linked, escrow>>
    BY <2>1, Facts, Constants DEF Claim
  <2>2. ASSUME ClaimWithResult(a, named)
        PROVE  /\ now \in 0..Deadline /\ MayClaim(a)
               /\ Save(claimed(a, "submitted", now))
               /\ usdc' = setWorkPayTo(usdc, a, PayTo(a, FALSE, named, TRUE))
               /\ reply' \in [edited : BOOLEAN, hidden : BOOLEAN]
               /\ UNCHANGED <<now, generation, knows, reward, review, linked, escrow>>
    <3>1. now < Deadline
      BY Zenon, <2>2, EffectiveMeans, Facts DEF ClaimWithResult, MayClaim
    <3> QED
      BY <2>2, <3>1, Facts, Constants DEF ClaimWithResult, Fresh
  <2> QED
    BY Zenon, <2>1, <2>2
<1>2. /\ claimed(a, state, end) \in WorkType
      /\ claimed(a, state, end).state = state
      /\ claimed(a, state, end).fence = work.fence + 1
      /\ claimed(a, state, end).worker = a
      /\ claimed(a, state, end).reviewer = work.reviewer
      /\ a # work.reviewer
      /\ work.state \in {"open", "claimed"} /\ now < Deadline
  BY <1>1, ClaimedAs
<1>3. SavedAs(claimed(a, state, end))
  BY Zenon, <1>1, <1>2, Saved, Facts
<1>4. /\ work' \in WorkType /\ work'.state = state /\ work'.worker = a
      /\ work'.fence = work.fence + 1 /\ work'.reviewer # a
  BY Zenon, <1>2, <1>3 DEF SavedAs
<1>5. WorkInv(work')
  BY Zenon, <1>4 DEF WorkInv
<1>6. KnowsInv'
  <2>1. work'.fence \in Nat
    BY <1>4, Constants DEF WorkType
  <2> QED
    BY Zenon, <1>1, <1>4, <2>1, KnowsKept, Facts
<1>7. usdc' \in USDCType /\ USDCInv(usdc', work', now)
  BY Zenon, <1>1, <1>2, <1>4, USDCFollows DEF Undecided
<1> QED
  BY Zenon, <1>1, <1>2, <1>4, <1>5, <1>6, <1>7, QuietStep DEF Undecided

\* The steps of a claim that is held, and a change of the reviewer, keep the
\* fence.
LEMMA HeldSteps ==
    ASSUME IInv, NEW a \in Workers,
           \/ \E named \in BOOLEAN : Submit(a, named)
           \/ \E ttl \in ClaimTTLs : Renew(a, ttl)
    PROVE  IInv' /\ ForGood
<1>1. work \in WorkType /\ now \in Nat
  BY Zenon, Facts
<1>2. Holds(a) /\ work.state = "claimed" /\ now < Deadline /\ work.worker = a
  <2>1. Holds(a)
    BY Zenon DEF Submit, Renew
  <2> QED
    BY Zenon, <2>1, EffectiveMeans, Facts DEF Holds
<1>3. PICK w \in WorkType :
        /\ Save(w)
        /\ w.state \in {"claimed", "submitted"}
        /\ w.fence = work.fence /\ w.worker = a /\ w.reviewer = work.reviewer
        /\ w.state = "submitted" => a # work.reviewer
  <2>1. ASSUME NEW named \in BOOLEAN, Submit(a, named)
        PROVE  LET w == [work EXCEPT !.state = "submitted"]
               IN  /\ w \in WorkType /\ Save(w) /\ w.state = "submitted"
                   /\ w.fence = work.fence /\ w.worker = a /\ w.reviewer = work.reviewer
                   /\ a # work.reviewer
    BY Zenon, <1>1, <1>2, <2>1 DEF Submit, WorkType
  <2>2. ASSUME NEW ttl \in ClaimTTLs, Renew(a, ttl)
        PROVE  LET w == [work EXCEPT !.claimEnd = now + ttl]
               IN  /\ w \in WorkType /\ Save(w) /\ w.state = "claimed"
                   /\ w.fence = work.fence /\ w.worker = a /\ w.reviewer = work.reviewer
    <3>1. now + ttl \in 0..Deadline
      BY <1>1, <2>2, Constants DEF Renew
    <3> QED
      BY Zenon, <1>1, <1>2, <2>2, <3>1 DEF Renew, WorkType
  <2> QED
    BY Zenon, <2>1, <2>2
<1>4. /\ work' \in WorkType /\ work'.state \in {"claimed", "submitted"}
      /\ work'.worker = a /\ work'.fence = work.fence
      /\ work'.state = "submitted" => work'.reviewer # a
  BY Zenon, <1>3, Saved, Facts DEF SavedAs
<1>5. /\ UNCHANGED <<now, generation, knows, reward, review, linked, escrow>>
      /\ reply' \in [edited : BOOLEAN, hidden : BOOLEAN]
  <2>1. UNCHANGED <<now, generation, knows, reward, review, linked, escrow>>
    BY Zenon DEF Submit, Renew
  <2>2. reply' = reply \/ reply' = Fresh
    BY Zenon DEF Submit, Renew
  <2>3. Fresh \in [edited : BOOLEAN, hidden : BOOLEAN]
    BY Zenon DEF Fresh
  <2> QED
    BY Zenon, <2>1, <2>2, <2>3, Facts
<1>6. WorkInv(work')
  BY Zenon, <1>4 DEF WorkInv
<1>7. KnowsInv'
  <2>1. work'.fence \in Nat
    BY <1>4, Constants DEF WorkType
  <2> QED
    BY Zenon, <1>2, <1>4, <1>5, <2>1, KnowsKept, Facts
<1>8. usdc' \in USDCType /\ USDCInv(usdc', work', now)
  <2>1. ASSUME NEW named \in BOOLEAN, Submit(a, named)
        PROVE  usdc' \in USDCType /\ USDCInv(usdc', work', now)
    <3>1. usdc' = setWorkPayTo(usdc, a, PayTo(a, TRUE, named, TRUE))
      BY Zenon, <2>1 DEF Submit
    <3> QED
      BY Zenon, <1>2, <1>4, <3>1, USDCFollows DEF Undecided
  <2>2. ASSUME UNCHANGED usdc PROVE usdc' \in USDCType /\ USDCInv(usdc', work', now)
    <3>1. USDCInv(usdc, work, now) /\ usdc \in USDCType
      BY Zenon, Facts
    <3>2. usdc.state \notin {"void", "payable", "paid"}
      BY <1>1, <1>2, <3>1, Constants DEF USDCInv, Ended
    <3> QED
      BY Zenon, <1>2, <1>4, <2>2, <3>1, <3>2 DEF USDCInv
  <2> QED
    BY Zenon, <2>1, <2>2 DEF Renew
<1> QED
  BY Zenon, <1>2, <1>4, <1>5, <1>6, <1>7, <1>8, QuietStep DEF Undecided

LEMMA SetReviewerStep ==
    ASSUME IInv, NEW r \in Reviewers, SetReviewer(r)
    PROVE  IInv' /\ ForGood
<1> DEFINE w == [work EXCEPT !.reviewer = r]
<1>1. work \in WorkType /\ now \in Nat
  BY Zenon, Facts
<1>2. work.state \in {"open", "claimed"} /\ now < Deadline
  BY Zenon, EffectiveMeans, Facts DEF SetReviewer
<1>3. /\ w \in WorkType /\ w.state = work.state /\ w.fence = work.fence
      /\ w.worker = work.worker
  BY Zenon, <1>1 DEF WorkType
<1>4. Save(w)
  BY Zenon DEF SetReviewer
<1> HIDE DEF w
<1>5. /\ work' \in WorkType /\ work'.state = work.state
      /\ work'.worker = work.worker /\ work'.fence = work.fence
  BY Zenon, <1>3, <1>4, Saved, Facts DEF SavedAs
<1>6. /\ UNCHANGED <<now, generation, knows, reward, review, linked, escrow, usdc, reply>>
  BY Zenon DEF SetReviewer
<1>7. WorkInv(work')
  BY Zenon, <1>2, <1>5, Facts DEF WorkInv
<1>8. KnowsInv'
  <2>1. work'.fence \in Nat
    BY <1>5, Constants DEF WorkType
  <2> QED
    BY Zenon, <1>5, <1>6, <2>1, KnowsKept, Facts
<1>9. USDCInv(usdc', work', now)
  BY Zenon, <1>5, <1>6, Facts DEF USDCInv
<1> QED
  BY Zenon, <1>2, <1>5, <1>6, <1>7, <1>8, <1>9, QuietStep, Facts DEF Undecided

-----------------------------------------------------------------------------
(* The decisions.                                                          *)

\* The money of both rows after Books.
LEMMA BookedMoney ==
    ASSUME NEW m, MoneyType(m), Books(m)
    PROVE  money' = m
BY Zenon DEF MoneyType, Books, money

\* What an accept asks for: a worker's result in w, with USDC u promised to
\* that worker if at all ...
Judgeable(w, u) ==
    /\ w \in WorkType /\ w.worker \in Workers /\ w.reviewer # w.worker
    /\ w.fence \in {work.fence, work.fence + 1}
    /\ u \in USDCType /\ u.payTo \in {u.worker, NoOne}
    /\ u.state \notin {"payable", "paid"}
    /\ u.state = "promised" => u.worker = w.worker

\* ... and money m that can pay it.
PayReady(m) ==
    /\ MoneyType(m) /\ ReviewInv(m.review, m.escrow)
    /\ Absent(m.reward, m.escrow) \/ Ready(m.reward, m.escrow)
    /\ m.reward.state = "held" /\ m.reward.hold = "late" => Deadline <= now
    /\ EscrowsKept(escrow, m.escrow)
    /\ \/ m.reward = reward
       \/ reward.state = "released" /\ work.state = "submitted" /\ Deadline <= now

LEMMA AcceptedKnows ==
    ASSUME IInv, NEW w \in WorkType, w.worker = work'.worker,
           UNCHANGED <<generation, knows>>, work'.state = "accepted",
           work'.fence \in {work.fence, work.fence + 1}
    PROVE  KnowsInv'
<1>1. ASSUME NEW a \in Deciders PROVE Recent(knows[a], work', generation)
  <2>1. Recent(knows[a], work, generation)
    BY Zenon, Facts DEF KnowsInv
  <2>2. knows[a] \in KnowsType /\ work.fence \in 0..MaxFence
    BY Zenon, Facts
  <2>3. knows[a].fence \in Nat /\ work.fence \in Nat
    BY <2>2, Constants DEF KnowsType
  <2> QED
    BY <2>1, <2>3 DEF Recent
<1> QED
  BY Zenon, <1>1 DEF KnowsInv

LEMMA AcceptedStep ==
    ASSUME IInv, work.state \in Undecided,
           NEW w, NEW u, Judgeable(w, u), NEW m, PayReady(m),
           NEW judged, judged = w.worker,
           NEW verdict \in BOOLEAN, NEW fallback \in BOOLEAN, NEW p \in BOOLEAN,
           verdict => work.reviewer \in Accounts,
           reply' \in [edited : BOOLEAN, hidden : BOOLEAN],
           Accepted(w, u, m, judged, verdict, fallback, p)
    PROVE  IInv' /\ ForGood
<1> DEFINE v == [w EXCEPT !.state = "accepted", !.judged = judged]
           f == acceptMoney(m, w.worker, verdict, fallback, p)
<1>1. /\ v \in WorkType /\ v.state = "accepted" /\ v.worker = w.worker
      /\ v.judged = w.worker /\ v.reviewer = w.reviewer /\ v.fence = w.fence
  BY Zenon DEF Judgeable, WorkType, Ended
<1>2. /\ Save(v) /\ Books(f) /\ usdc' = oweWorkUSDC(u, w.worker)
      /\ SplitAdmitted(m, w.worker)
      /\ UNCHANGED <<now, generation, knows, linked>>
  BY Zenon DEF Accepted
<1> HIDE DEF v
<1>3. /\ work' \in WorkType /\ work'.state = "accepted" /\ work'.worker = w.worker
      /\ work'.judged = w.worker /\ work'.reviewer = w.reviewer
      /\ work'.fence = w.fence
  BY Zenon, <1>1, <1>2, Saved, Facts DEF SavedAs
<1>4. MoneyInv(f, work', now) /\ EscrowsKept(m.escrow, f.escrow)
  BY ZenonT(30), <1>2, <1>3, AcceptMoney, Facts, Constants DEF Judgeable, PayReady
<1> HIDE DEF f
<1>5. MoneyType(f) /\ money' = f
  BY Zenon, <1>2, <1>4, BookedMoney DEF MoneyInv
<1>6. /\ usdc' \in USDCType /\ usdc'.payTo = u.payTo
      /\ u.state = "promised" => usdc'.state = "payable" /\ usdc'.worker = w.worker
      /\ u.state # "promised" => usdc' = u
  <2>1. u \in USDCType /\ w.worker \in Workers /\ (u.state = "promised" => u.worker = w.worker)
    BY Zenon DEF Judgeable
  <2> QED
    BY <1>2, <2>1, OweUSDC
<1>7. USDCInv(usdc', work', now)
  BY Zenon, <1>3, <1>6 DEF Judgeable, USDCInv, Ended
<1>8. WorkInv(work')
  BY Zenon, <1>3 DEF Judgeable, WorkInv
<1>9. KnowsInv'
  <2>1. w \in WorkType /\ w.fence \in {work.fence, work.fence + 1}
    BY Zenon DEF Judgeable
  <2> QED
    BY Zenon, <1>2, <1>3, <2>1, AcceptedKnows
<1>10. TypeOK'
  BY Zenon, <1>2, <1>3, <1>5, <1>6, TypesNext, Facts
<1>11. ForGood
  <2>1. EscrowsKept(escrow, escrow')
    BY Zenon, <1>2, <1>4, KeptTwice DEF Books, PayReady
  <2>2. usdc.state # "paid" /\ work.state \notin Ended
    BY Zenon, Facts DEF USDCInv, Undecided, Ended
  <2>3. reward.state # "paid"
    BY Zenon DEF Absent, Ready, PayReady
  <2>4. reward.state = "released" => work.state = "submitted" /\ Deadline <= now
    BY Zenon DEF Absent, Ready, PayReady
  <2> QED
    BY Zenon, <1>3, <2>1, <2>2, <2>3, <2>4 DEF ForGood, EscrowsKept
<1> QED
  BY Zenon, <1>2, <1>4, <1>5, <1>7, <1>8, <1>9, <1>10, <1>11 DEF IInv

LEMMA BackedIsReady ==
    ASSUME NEW r, NEW e, NEW w, Backed(r, e, w)
    PROVE  Ready(r, e) /\ r.hold = "reward"
BY Zenon DEF Backed, Ready

\* The money of an undecided item before its deadline can pay an accept.
LEMMA MoneyReady ==
    ASSUME IInv, work.state \in Undecided, now < Deadline
    PROVE  /\ MoneyType(money) /\ ReviewInv(money.review, money.escrow)
           /\ Absent(money.reward, money.escrow) \/ Backed(money.reward, money.escrow, work)
           /\ Absent(money.reward, money.escrow) \/ Ready(money.reward, money.escrow)
           /\ ~(money.reward.state = "held" /\ money.reward.hold = "late")
           /\ EscrowsKept(escrow, money.escrow)
           /\ money.reward = reward
<1>1. InOrder(money, work, now) /\ now \in Nat
  BY Zenon, Facts
<1>2. Absent(money.reward, money.escrow) \/ Backed(money.reward, money.escrow, work)
  BY <1>1, StillBacked, Constants DEF InOrder
<1>3. ~(money.reward.state = "held" /\ money.reward.hold = "late")
  BY Zenon, <1>2 DEF Absent, Backed
<1>4. EscrowsKept(escrow, money.escrow) /\ money.reward = reward
  BY Zenon DEF money, EscrowsKept
<1> QED
  BY Zenon, <1>1, <1>2, <1>3, <1>4, BackedIsReady DEF InOrder

LEMMA MoneyPayReady ==
    ASSUME IInv, work.state \in Undecided, now < Deadline
    PROVE  PayReady(money)
BY Zenon, MoneyReady DEF PayReady

\* A fence that is still the item's is its worker's.
LEMMA FencedKnows ==
    ASSUME IInv, NEW a \in Deciders, Fenced(a), work.state = "submitted"
    PROVE  knows[a].worker = work.worker
BY Zenon, Facts DEF Fenced, KnowsInv, Recent

LEMMA AcceptStep ==
    ASSUME IInv, NEW a \in Deciders, NEW p \in BOOLEAN, Accept(a, p)
    PROVE  IInv' /\ ForGood
<1>1. work.state = "submitted" /\ now < Deadline
  BY Zenon, EffectiveMeans, Facts DEF Accept
<1>2. /\ work \in WorkType /\ work.worker \in Workers /\ work.reviewer # work.worker
      /\ work.fence \in {work.fence, work.fence + 1}
  BY Zenon, <1>1, Facts DEF WorkInv
<1>3. Judgeable(work, usdc)
  <2>1. /\ usdc \in USDCType /\ usdc.payTo \in {usdc.worker, NoOne}
        /\ usdc.state \notin {"payable", "paid"}
        /\ usdc.state = "promised" => usdc.worker = work.worker
    BY Zenon, <1>1, Facts DEF USDCInv
  <2> QED
    BY Zenon, <1>2, <2>1 DEF Judgeable
<1>4. knows[a].worker = work.worker
  BY Zenon, <1>1, FencedKnows DEF Accept
<1>5. /\ Verdict(a) \in BOOLEAN /\ Fallback(a) \in BOOLEAN
      /\ Verdict(a) => work.reviewer \in Accounts
  BY Zenon, Constants DEF Verdict, Fallback
<1>6. /\ Accepted(work, usdc, money, knows[a].worker, Verdict(a), Fallback(a), p)
      /\ reply' \in [edited : BOOLEAN, hidden : BOOLEAN]
  BY Zenon, Facts DEF Accept
<1>7. work.state \in Undecided
  BY Zenon, <1>1 DEF Undecided
<1>8. PayReady(money)
  BY Zenon, <1>1, <1>7, MoneyPayReady
<1> QED
  BY ZenonT(30), <1>3, <1>4, <1>5, <1>6, <1>7, <1>8, AcceptedStep

LEMMA LateAcceptStep ==
    ASSUME IInv, NEW p \in BOOLEAN, LateAccept(p)
    PROVE  IInv' /\ ForGood
<1> DEFINE m == rehold(money)
           u == reviveLapsedWorkUSDC(usdc)
<1>1. work.state = "submitted" /\ Deadline <= now /\ work.state \in Undecided
  BY Zenon, EffectiveMeans, Facts DEF LateAccept, Undecided
<1>2. /\ work \in WorkType /\ work.worker \in Workers /\ work.reviewer # work.worker
      /\ work.fence \in {work.fence, work.fence + 1}
  BY Zenon, <1>1, Facts DEF WorkInv
<1>3. Judgeable(work, u)
  <2>1. usdc \in USDCType /\ USDCInv(usdc, work, now)
    BY Zenon, Facts
  <2>2. /\ u \in USDCType /\ u.payTo = usdc.payTo /\ u.worker = usdc.worker
        /\ \/ u = usdc /\ ~(usdc.state = "void" /\ usdc.reason = "requester_lapsed")
           \/ u.state = "promised" /\ usdc.state = "void" /\ usdc.reason = "requester_lapsed"
    BY Zenon, <2>1, ReviveUSDC
  <2> HIDE DEF u
  <2>3. /\ u.payTo \in {u.worker, NoOne} /\ u.state \notin {"payable", "paid"}
        /\ u.state = "promised" => u.worker = work.worker
    BY Zenon, <1>1, <2>1, <2>2 DEF USDCInv, Ended
  <2> QED
    BY Zenon, <1>2, <2>2, <2>3 DEF Judgeable
<1>4. Requester \in Deciders /\ knows[Requester].worker = work.worker
  <2>1. Requester \in Deciders
    BY Zenon DEF Deciders
  <2> QED
    BY Zenon, <1>1, <2>1, FencedKnows DEF LateAccept
<1>5. /\ MoneyType(m) /\ ReviewInv(m.review, m.escrow)
      /\ Absent(m.reward, m.escrow) \/ Ready(m.reward, m.escrow)
      /\ EscrowsKept(escrow, m.escrow)
      /\ m.reward = reward \/ reward.state = "released"
  <2>1. InOrder(money, work, now) /\ money.reward = reward /\ money.escrow = escrow
    BY Zenon, Facts DEF money
  <2>2. CASE Absent(money.reward, money.escrow) \/ Backed(money.reward, money.escrow, work)
    <3>1. m = money
      BY Zenon, <2>2 DEF rehold, Absent, Backed
    <3> QED
      BY Zenon, <2>1, <2>2, <3>1, BackedIsReady DEF InOrder, EscrowsKept
  <2>3. CASE GivenBack(money.reward, money.escrow, work, now)
    <3>1. Beside(money, m) /\ Ready(m.reward, m.escrow)
      BY Zenon, <2>1, <2>3, HeldAgain DEF InOrder
    <3> HIDE DEF m
    <3>2. ReviewInv(m.review, m.escrow)
      BY Zenon, <2>1, <3>1, BesideKeeps DEF InOrder
    <3> QED
      BY Zenon, <2>1, <2>3, <3>1, <3>2 DEF Beside, GivenBack
  <2> QED
    BY Zenon, <1>1, <2>1, <2>2, <2>3, StillBacked DEF InOrder
<1>6. PICK no \in BOOLEAN :
        ~no /\ Accepted(work, u, m, knows[Requester].worker, no, no, p)
  BY Zenon DEF LateAccept
<1>7. reply' \in [edited : BOOLEAN, hidden : BOOLEAN]
  BY Zenon, Facts DEF LateAccept
<1> HIDE DEF m, u
<1>8. PayReady(m)
  BY Zenon, <1>1, <1>5 DEF PayReady
<1>9. work.state \in Undecided /\ (no => work.reviewer \in Accounts)
  BY Zenon, <1>1, <1>6
<1> QED
  BY Zenon, <1>3, <1>4, <1>6, <1>7, <1>8, <1>9, AcceptedStep

\* The USDC of an accepted reply: its author's, or void for want of an address.
LEMMA ReplyUSDC ==
    ASSUME IInv, work.state \in Undecided, NEW b \in Workers, NEW to \in {b, NoOne},
           NEW f, f = IF usdc.state = "promised" /\ to = NoOne
                      THEN voidWorkUSDC(usdc, "no_payout_address")
                      ELSE setWorkPayTo(usdc, b, to)
    PROVE  /\ f \in USDCType /\ f.payTo \in {f.worker, NoOne}
           /\ f.state \notin {"payable", "paid"}
           /\ f.state = "promised" => f.worker = b
<1>1. /\ usdc \in USDCType /\ usdc.payTo \in {usdc.worker, NoOne}
      /\ usdc.state \notin {"payable", "paid"}
  BY Zenon, Facts DEF USDCInv, Undecided
<1>2. CASE usdc.state = "promised" /\ to = NoOne
  <2>1. f = voidWorkUSDC(usdc, "no_payout_address")
    BY Zenon, <1>2
  <2> QED
    BY <1>1, <1>2, <2>1, VoidUSDC
<1>3. CASE ~(usdc.state = "promised" /\ to = NoOne)
  <2>1. f = setWorkPayTo(usdc, b, to)
    BY Zenon, <1>3
  <2> QED
    BY <1>1, <1>3, <2>1, SetPayTo
<1> QED
  BY Zenon, <1>2, <1>3

LEMMA AcceptReplyStep ==
    ASSUME IInv, NEW a \in Deciders, NEW b \in Workers, NEW p \in BOOLEAN,
           AcceptReply(a, b, p)
    PROVE  IInv' /\ ForGood
<1> DEFINE open == MayClaim(b)
           w == IF open THEN claimed(b, "submitted", now) ELSE work
           to == PayTo(b, ~open, FALSE, TRUE)
           u == IF usdc.state = "promised" /\ to = NoOne
                THEN voidWorkUSDC(usdc, "no_payout_address")
                ELSE setWorkPayTo(usdc, b, to)
           taken == open \/ (Holds(b) /\ b # work.reviewer)
           sent == effective = "submitted" /\ b = work.worker
<1>1. PICK verdict \in BOOLEAN, no \in BOOLEAN :
        /\ verdict = (a = work.reviewer) /\ ~no
        /\ \/ taken /\ reply' = Fresh /\ Accepted(w, u, money, b, verdict, no, p)
           \/ sent /\ reply' = reply /\ Accepted(w, usdc, money, b, verdict, no, p)
  BY Zenon DEF AcceptReply
<1>2. /\ verdict \in BOOLEAN /\ no \in BOOLEAN
      /\ verdict => work.reviewer \in Accounts
  BY Zenon, <1>1, Constants
<1>3. reply' \in [edited : BOOLEAN, hidden : BOOLEAN]
  <2>1. reply' = reply \/ reply' = Fresh
    BY Zenon, <1>1
  <2>2. Fresh \in [edited : BOOLEAN, hidden : BOOLEAN]
    BY Zenon DEF Fresh
  <2> QED
    BY Zenon, <2>1, <2>2, Facts
<1>4. ASSUME open
      PROVE  /\ w \in WorkType /\ w.worker = b /\ w.reviewer # b
             /\ w.fence = work.fence + 1
             /\ work.state \in Undecided /\ now < Deadline
  <2>1. work.state \in {"open", "claimed"} /\ now < Deadline
    BY Zenon, <1>4, EffectiveMeans, Facts DEF MayClaim
  <2>2. now \in 0..Deadline
    BY <2>1, Facts, Constants
  <2> QED
    BY <1>4, <2>1, <2>2, ClaimedAs DEF Undecided
<1>5. ASSUME ~open
      PROVE  /\ w = work /\ w \in WorkType /\ w.worker = b /\ w.reviewer # b
             /\ work.state \in Undecided /\ now < Deadline
  <2>1. CASE Holds(b) /\ b # work.reviewer
    BY Zenon, <1>5, <2>1, EffectiveMeans, Facts DEF Holds, Undecided
  <2>2. CASE sent
    <3>1. work.state = "submitted" /\ now < Deadline
      BY Zenon, <2>2, EffectiveMeans, Facts
    <3> QED
      BY Zenon, <1>5, <2>2, <3>1, Facts DEF Undecided, WorkInv
  <2> QED
    BY Zenon, <1>1, <1>5, <2>1, <2>2
<1>6. /\ w \in WorkType /\ w.worker \in Workers /\ b = w.worker
      /\ w.reviewer # w.worker
      /\ w.fence \in {work.fence, work.fence + 1}
      /\ work.state \in Undecided /\ now < Deadline
  BY Zenon, <1>4, <1>5
<1>7. /\ u \in USDCType /\ u.payTo \in {u.worker, NoOne}
      /\ u.state \notin {"payable", "paid"}
      /\ u.state = "promised" => u.worker = w.worker
  <2>1. usdc.payTo \in {usdc.worker, NoOne}
    BY Zenon, Facts DEF USDCInv
  <2> HIDE DEF open
  <2>2. to \in {b, NoOne}
    BY Zenon, <2>1 DEF PayTo
  <2> HIDE DEF to
  <2>3. work.state \in Undecided /\ w.worker = b
    BY Zenon, <1>6
  <2> HIDE DEF w
  <2>4. /\ u \in USDCType /\ u.payTo \in {u.worker, NoOne}
        /\ u.state \notin {"payable", "paid"}
        /\ u.state = "promised" => u.worker = b
    BY ZenonT(30), <2>2, <2>3, ReplyUSDC
  <2> QED
    BY Zenon, <2>3, <2>4
<1>8. sent => /\ usdc \in USDCType /\ usdc.payTo \in {usdc.worker, NoOne}
              /\ usdc.state \notin {"payable", "paid"}
              /\ usdc.state = "promised" => usdc.worker = w.worker
  BY Zenon, <1>6, EffectiveMeans, Facts DEF USDCInv
<1> HIDE DEF open, w, to, u, taken
<1>9. PayReady(money)
  BY Zenon, <1>6, MoneyPayReady
<1>10. Judgeable(w, u) /\ (sent => Judgeable(w, usdc))
  BY Zenon, <1>6, <1>7, <1>8 DEF Judgeable
<1>11. PICK f : Judgeable(w, f) /\ Accepted(w, f, money, b, verdict, no, p)
  BY Zenon, <1>1, <1>10
<1>12. work.state \in Undecided /\ b = w.worker /\ (verdict => work.reviewer \in Accounts)
  BY Zenon, <1>2, <1>6
<1> QED
  BY ZenonT(30), <1>2, <1>3, <1>9, <1>11, <1>12, AcceptedStep

-----------------------------------------------------------------------------
(* The other decisions.                                                    *)

LEMMA RejectStep ==
    ASSUME IInv, NEW a \in Deciders, NEW p \in BOOLEAN, Reject(a, p)
    PROVE  IInv' /\ ForGood
<1> DEFINE w == [work EXCEPT !.state = "open", !.worker = NoOne, !.claimEnd = 0]
           m == rejectMoney(money, Verdict(a), Fallback(a), p)
<1>1. work.state \in Undecided /\ now < Deadline /\ now \in Nat
  BY Zenon, EffectiveMeans, Facts DEF Reject, Undecided
<1>2. /\ w \in WorkType /\ w.state = "open" /\ w.worker = NoOne /\ w.fence = work.fence
  <2>1. work \in WorkType /\ 0 \in 0..Deadline
    BY Facts, Constants
  <2> QED
    BY Zenon, <2>1 DEF WorkType
<1>3. /\ Save(w) /\ Books(m) /\ usdc' = setWorkPayTo(usdc, NoOne, NoOne)
      /\ UNCHANGED <<now, generation, reply, knows, linked>>
  BY Zenon DEF Reject
<1> HIDE DEF w
<1>4. /\ work' \in WorkType /\ work'.state = "open" /\ work'.worker = NoOne
      /\ work'.fence = work.fence
  BY Zenon, <1>2, <1>3, Saved, Facts DEF SavedAs
<1>5. Aside(money, m)
  <2>1. /\ Verdict(a) \in BOOLEAN /\ Fallback(a) \in BOOLEAN
        /\ Verdict(a) => work.reviewer \in Accounts
    BY Zenon, Constants DEF Verdict, Fallback
  <2>2. work.state = "submitted" => work.worker \in Accounts
    BY Zenon, Facts, Constants DEF WorkInv
  <2> QED
    BY Zenon, <2>1, <2>2, RejectMoney, Facts DEF InOrder
<1> HIDE DEF m
<1>6. InOrder(m, work, now)
  BY Zenon, <1>5, AsideKeeps, Facts DEF InOrder, Aside
<1>7. money' = m
  BY Zenon, <1>3, <1>6, BookedMoney DEF InOrder
<1>8. MoneyInv(m, work', now)
  BY <1>1, <1>4, <1>6, Undisturbed DEF Undecided
<1>9. usdc' \in USDCType /\ USDCInv(usdc', work', now)
  <2>1. usdc \in USDCType /\ USDCInv(usdc, work, now)
    BY Zenon, Facts
  <2>2. usdc.payTo \in {usdc.worker, NoOne} /\ usdc.state \notin {"void", "payable", "paid"}
    BY <1>1, <2>1, Constants DEF USDCInv, Undecided, Ended
  <2>3. /\ usdc' \in USDCType /\ usdc'.payTo \in {usdc'.worker, NoOne}
        /\ usdc'.state = usdc.state
    BY <1>3, <2>1, <2>2, SetPayTo
  <2> QED
    BY Zenon, <1>4, <2>2, <2>3 DEF USDCInv
<1>10. KnowsInv'
  <2>1. work'.fence \in Nat
    BY <1>4, Constants DEF WorkType
  <2> QED
    BY Zenon, <1>3, <1>4, <2>1, KnowsKept, Facts
<1>11. TypeOK'
  BY Zenon, <1>3, <1>4, <1>6, <1>7, <1>9, TypesNext, Facts DEF InOrder
<1>12. ForGood
  <2>1. usdc.state # "paid" /\ work.state \notin Ended
    BY Zenon, <1>1, Facts DEF USDCInv, Undecided, Ended
  <2>2. reward' = reward /\ EscrowsKept(escrow, escrow')
    BY Zenon, <1>3, <1>5 DEF Aside, Books, money
  <2> QED
    BY Zenon, <2>1, <2>2 DEF ForGood, EscrowsKept
<1> QED
  BY Zenon, <1>3, <1>4, <1>7, <1>8, <1>9, <1>10, <1>11, <1>12 DEF IInv, WorkInv

LEMMA CancelStep ==
    ASSUME IInv, NEW p \in BOOLEAN, Cancel(p)
    PROVE  IInv' /\ ForGood
<1> DEFINE w == [work EXCEPT !.state = "cancelled"]
           m == cancelMoney(money, p)
<1>1. work.state \in Undecided /\ now < Deadline /\ now \in Nat
  BY Zenon, EffectiveMeans, Facts DEF Cancel, Undecided
<1>2. w \in WorkType /\ w.state = "cancelled" /\ w.fence = work.fence
  BY Zenon, Facts DEF WorkType, Ended
<1>3. /\ Save(w) /\ Books(m) /\ usdc' = voidWorkUSDC(usdc, "cancelled")
      /\ UNCHANGED <<now, generation, reply, knows, linked>>
  BY Zenon DEF Cancel
<1> HIDE DEF w
<1>4. work' \in WorkType /\ work'.state = "cancelled" /\ work'.fence = work.fence
  BY Zenon, <1>2, <1>3, Saved, Facts DEF SavedAs
<1>5. MoneyInv(m, work', now) /\ EscrowsKept(money.escrow, m.escrow)
  <2>1. work.state = "submitted" => work.worker \in Accounts
    BY Zenon, Facts, Constants DEF WorkInv
  <2> QED
    BY Zenon, <1>1, <1>4, <2>1, MoneyReady, CancelMoney
<1> HIDE DEF m
<1>6. MoneyType(m) /\ money' = m
  BY Zenon, <1>3, <1>5, BookedMoney DEF MoneyInv
<1>7. usdc' \in USDCType /\ USDCInv(usdc', work', now)
  <2>1. usdc \in USDCType /\ usdc.payTo \in {usdc.worker, NoOne}
        /\ usdc.state \notin {"payable", "paid"}
    BY Zenon, <1>1, Facts DEF USDCInv, Undecided
  <2>2. /\ usdc' \in USDCType /\ usdc'.payTo = usdc.payTo /\ usdc'.worker = usdc.worker
        /\ usdc.state = "promised" => usdc'.state = "void"
        /\ usdc.state # "promised" => usdc' = usdc
    BY <1>3, <2>1, VoidUSDC
  <2> QED
    BY Zenon, <1>4, <2>1, <2>2 DEF USDCInv, Ended
<1>8. KnowsInv'
  <2>1. work'.fence \in Nat
    BY <1>4, Constants DEF WorkType
  <2> QED
    BY Zenon, <1>3, <1>4, <2>1, KnowsKept, Facts
<1>9. TypeOK'
  BY Zenon, <1>3, <1>4, <1>6, <1>7, TypesNext, Facts
<1>10. ForGood
  <2>1. usdc.state # "paid" /\ work.state \notin Ended
    BY Zenon, <1>1, Facts DEF USDCInv, Undecided, Ended
  <2>2. EscrowsKept(escrow, escrow')
    BY Zenon, <1>3, <1>5 DEF Books, money
  <2>3. reward.state \notin {"paid", "released"}
    BY Zenon, <1>1, MoneyReady DEF Absent, Backed
  <2> QED
    BY Zenon, <2>1, <2>2, <2>3 DEF ForGood, EscrowsKept
<1> QED
  BY Zenon, <1>3, <1>4, <1>5, <1>6, <1>7, <1>8, <1>9, <1>10 DEF IInv, WorkInv

\* f is e with the escrow under k opened for n units, or not at all.
HeldAs(e, f, k, n) ==
    /\ f \in Escrows
    /\ n > 0 => f[k].state = "held" /\ f[k].units = n
    /\ n = 0 => f[k] = e[k]
    /\ \A j \in Keys : j # k => f[j] = e[j]

LEMMA HoldKey ==
    ASSUME NEW e \in Escrows, NEW k \in Keys, NEW n \in Nat
    PROVE  HeldAs(e, holdKey(e, k, n), k, n)
<1>1. CASE n = 0
  BY <1>1 DEF holdKey, HeldAs
<1>2. CASE n > 0
  <2> DEFINE f == E!opened(e, k, n)
  <2>1. holdKey(e, k, n) = f
    BY <1>2 DEF holdKey
  <2>2. /\ f \in Escrows /\ f[k] = [state |-> "held", units |-> n, to |-> {}]
        /\ \A j \in Keys : j # k => f[j] = e[j]
    BY ZenonT(30), Opened
  <2> HIDE DEF f
  <2> QED
    BY <1>2, <2>1, <2>2 DEF HeldAs
<1> QED
  BY <1>1, <1>2

RowHeld(r, n, k) ==
    /\ r \in RowType
    /\ r.amount = n /\ r.settles = 0
    /\ n > 0 => r.state = "held" /\ r.hold = k
    /\ n = 0 => r.state = "none"

LEMMA RowAs ==
    ASSUME NEW n \in Nat, NEW k \in Keys
    PROVE  RowHeld(Row(n, k), n, k)
<1>1. NoRow \in RowType
  BY Zenon, KeysKnown DEF NoRow, RowType
<1>2. CASE n = 0
  BY <1>1, <1>2 DEF Row, NoRow, RowHeld
<1>3. CASE n > 0
  <2> DEFINE r == Row(n, k)
  <2>1. r = [NoRow EXCEPT !.state = "held", !.amount = n, !.hold = k]
    BY <1>3 DEF Row
  <2>2. NoRow.settles = 0
    BY Zenon DEF NoRow
  <2> HIDE DEF r
  <2>3. r \in RowType
    BY Zenon, <1>1, <2>1 DEF RowType
  <2>4. r.state = "held" /\ r.amount = n /\ r.hold = k /\ r.settles = 0
    BY Zenon, <1>1, <2>1, <2>2 DEF RowType
  <2>5. RowHeld(r, n, k)
    BY <1>3, <2>3, <2>4 DEF RowHeld
  <2> QED
    BY Zenon, <2>5 DEF r
<1> QED
  BY <1>2, <1>3

LEMMA CreatedMoney ==
    ASSUME escrow \in Escrows, \A k \in Keys : escrow[k].state = "none",
           NEW o \in Offers, NEW m, m = holdWorkEscrows(o),
           NEW w, w.state = "open", NEW n
    PROVE  MoneyInv(m, w, n)
<1> DEFINE e == holdKey(escrow, "reward", o.reward)
           f == holdKey(e, "review", o.review)
           g == holdKey(f, "reject", o.reject)
<1>1. o.reward \in Nat /\ o.review \in Nat /\ o.reject \in Nat
  BY Zenon, WorkAssumption
<1>2. /\ m.reward = Row(o.reward, "reward") /\ m.review = Row(o.review, "review")
      /\ m.escrow = g /\ m = [reward |-> m.reward, review |-> m.review, escrow |-> m.escrow]
  BY Zenon DEF holdWorkEscrows
<1>3. /\ e \in Escrows
      /\ o.reward > 0 => e["reward"].state = "held" /\ e["reward"].units = o.reward
      /\ o.reward = 0 => e["reward"].state = "none"
      /\ \A j \in Keys : j # "reward" => e[j].state = "none"
  <2>1. HeldAs(escrow, e, "reward", o.reward)
    BY Zenon, <1>1, HoldKey, KeysKnown
  <2> HIDE DEF e
  <2> QED
    BY Zenon, <1>1, <2>1, KeysKnown DEF HeldAs
<1> HIDE DEF e
<1>4. /\ f \in Escrows /\ f["reward"] = e["reward"]
      /\ o.review > 0 => f["review"].state = "held"
      /\ f["late"].state = "none" /\ f["upfront"].state = "none"
  <2>1. HeldAs(e, f, "review", o.review)
    BY Zenon, <1>1, <1>3, HoldKey, KeysKnown
  <2> HIDE DEF f
  <2> QED
    BY <1>1, <1>3, <2>1, KeysKnown DEF HeldAs
<1> HIDE DEF f
<1>5. /\ g \in Escrows /\ g["reward"] = f["reward"] /\ g["review"] = f["review"]
      /\ g["late"] = f["late"] /\ g["upfront"] = f["upfront"]
  <2>1. HeldAs(f, g, "reject", o.reject)
    BY Zenon, <1>1, <1>4, HoldKey, KeysKnown
  <2> HIDE DEF g
  <2> QED
    BY Zenon, <1>1, <1>4, <2>1, KeysKnown DEF HeldAs
<1> HIDE DEF g
<1>6. RowHeld(m.reward, o.reward, "reward") /\ RowHeld(m.review, o.review, "review")
  BY Zenon, <1>1, <1>2, RowAs, KeysKnown
<1>7. MoneyType(m)
  BY Zenon, <1>2, <1>5, <1>6 DEF MoneyType, RowHeld
<1>8. Absent(m.reward, m.escrow) \/ Backed(m.reward, m.escrow, w)
  <2>1. CASE o.reward = 0
    BY ZenonT(30), <1>2, <1>3, <1>4, <1>5, <2>1, <1>6 DEF Absent, RowHeld
  <2>2. CASE o.reward > 0
    BY Zenon, <1>2, <1>3, <1>4, <1>5, <2>2, <1>6 DEF Backed, RowHeld
  <2> QED
    BY <1>1, <2>1, <2>2
<1>9. ReviewInv(m.review, m.escrow)
  BY <1>1, <1>2, <1>4, <1>5, <1>6 DEF ReviewInv, Agree, RowHeld
<1> QED
  BY Zenon, <1>7, <1>8, <1>9 DEF MoneyInv, RewardInv

LEMMA CreateStep ==
    ASSUME IInv, NEW o \in Offers, Create(o)
    PROVE  IInv' /\ ForGood
<1> DEFINE w == [work EXCEPT !.state = "open", !.reviewer = o.reviewer]
           m == holdWorkEscrows(o)
<1>1. /\ work.state = "none" /\ Save(w) /\ Books(m)
      /\ usdc' = IF o.usdc THEN [usdc EXCEPT !.state = "promised"] ELSE usdc
      /\ UNCHANGED <<now, generation, reply, knows, linked>>
  BY Zenon DEF Create
<1>2. w \in WorkType /\ w.state = "open" /\ w.fence = work.fence
  <2>1. o.reviewer \in Reviewers \cup {NoOne}
    BY Zenon, WorkAssumption
  <2> QED
    BY Zenon, <2>1, Facts DEF WorkType
<1> HIDE DEF w
<1>3. work' \in WorkType /\ work'.state = "open" /\ work'.fence = work.fence
  BY Zenon, <1>1, <1>2, Saved, Facts DEF SavedAs
<1>4. /\ escrow \in Escrows /\ \A k \in Keys : escrow[k].state = "none"
      /\ reward.state = "none"
  <2>1. MoneyInv(money, work, now)
    BY Zenon DEF IInv
  <2>2. money.escrow = escrow /\ money.reward = reward
    BY Zenon DEF money
  <2> QED
    BY Zenon, <1>1, <2>1, <2>2 DEF MoneyInv, MoneyType
<1>5. MoneyInv(m, work', now)
  BY Zenon, <1>3, <1>4, CreatedMoney
<1> HIDE DEF m
<1>6. MoneyType(m) /\ money' = m
  BY Zenon, <1>1, <1>5, BookedMoney DEF MoneyInv
<1>7. usdc' \in USDCType /\ USDCInv(usdc', work', now) /\ usdc.state # "paid"
  <2>1. usdc \in USDCType /\ USDCInv(usdc, work, now)
    BY Zenon, Facts
  <2>2. CASE o.usdc
    <3>1. usdc' = [usdc EXCEPT !.state = "promised"]
      BY Zenon, <1>1, <2>2
    <3>2. /\ usdc' \in USDCType /\ usdc'.state = "promised"
          /\ usdc'.payTo = usdc.payTo /\ usdc'.worker = usdc.worker
      BY Zenon, <2>1, <3>1 DEF USDCType
    <3> QED
      BY Zenon, <1>1, <1>3, <2>1, <3>2 DEF USDCInv
  <2>3. CASE ~o.usdc
    BY Zenon, <1>1, <1>3, <2>1, <2>3 DEF USDCInv, Ended
  <2> QED
    BY Zenon, <2>2, <2>3
<1>8. KnowsInv'
  <2>1. work'.fence \in Nat
    BY <1>3, Constants DEF WorkType
  <2> QED
    BY Zenon, <1>1, <1>3, <2>1, KnowsKept, Facts
<1>9. TypeOK'
  BY Zenon, <1>1, <1>3, <1>6, <1>7, TypesNext, Facts
<1>10. ForGood
  BY Zenon, <1>1, <1>4, <1>7 DEF ForGood, Ended
<1> QED
  BY Zenon, <1>1, <1>3, <1>5, <1>6, <1>7, <1>8, <1>9, <1>10 DEF IInv, WorkInv

-----------------------------------------------------------------------------
(* What happens after the decision and around the item.                    *)

\* Of the item the money sees its state, its worker and the time.
LEMMA MoneySees ==
    ASSUME NEW m, NEW w, NEW n \in Nat, MoneyInv(m, w, n),
           NEW v, v.state = w.state, v.worker = w.worker, NEW l \in Nat, n <= l
    PROVE  MoneyInv(m, v, l)
<1>1. GivenBack(m.reward, m.escrow, w, n) => GivenBack(m.reward, m.escrow, v, l)
  BY Constants DEF GivenBack
<1>2. RewardInv(m.reward, m.escrow, v, l)
  BY Zenon, <1>1 DEF MoneyInv, RewardInv, Backed, PaidWhole, PaidInParts
<1> QED
  BY Zenon, <1>2 DEF MoneyInv

\* The USDC of an accepted result is owed, or settled.
LEMMA OwedStep ==
    ASSUME IInv, work.state = "accepted", Save(work),
           usdc' \in USDCType, usdc'.state \in {"payable", "paid"},
           usdc'.worker = work.worker, usdc'.payTo \in {usdc'.worker, NoOne},
           usdc.state # "paid",
           UNCHANGED <<now, generation, reply, knows, reward, review, linked, escrow>>
    PROVE  IInv' /\ ForGood
<1>1. /\ work' \in WorkType /\ work'.state = "accepted" /\ work'.worker = work.worker
      /\ work'.fence = work.fence /\ work'.reviewer = work.reviewer
      /\ work'.judged = work.judged
  BY Zenon, Saved, Facts DEF SavedAs
<1>2. money' = money
  BY Zenon DEF money
<1>3. MoneyInv(money', work', now')
  <2>1. MoneyInv(money, work, now) /\ now \in Nat /\ now <= now
    BY Facts DEF IInv
  <2>2. MoneyInv(money, work', now)
    BY Zenon, <1>1, <2>1, MoneySees
  <2> QED
    BY Zenon, <1>2, <2>2
<1>4. USDCInv(usdc', work', now')
  BY Zenon, <1>1 DEF USDCInv, Ended
<1>5. WorkInv(work')
  BY Zenon, <1>1, Facts DEF WorkInv
<1>6. KnowsInv'
  <2>1. work'.fence \in Nat
    BY <1>1, Constants DEF WorkType
  <2> QED
    BY Zenon, <1>1, <2>1, KnowsKept, Facts
<1>7. TypeOK'
  BY Zenon, <1>1, <1>2, TypesNext, Facts DEF InOrder
<1>8. ForGood
  BY Zenon, <1>1 DEF ForGood
<1> QED
  BY Zenon, <1>3, <1>4, <1>5, <1>6, <1>7, <1>8 DEF IInv

LEMMA PromiseStep ==
    ASSUME IInv, Promise
    PROVE  IInv' /\ ForGood
<1>1. /\ work.state = "accepted" /\ work.worker \in Workers
      /\ usdc.payTo \in {usdc.worker, NoOne}
  BY Zenon, Facts DEF Promise, WorkInv, USDCInv
<1>2. PayTo(work.worker, TRUE, FALSE, TRUE) \in {work.worker, NoOne}
  BY Zenon, <1>1 DEF PayTo
<1>3. PICK to \in {work.worker, NoOne} :
        usdc' = [state |-> "payable", worker |-> work.worker, reason |-> "", payTo |-> to]
  BY Zenon, <1>2 DEF Promise
<1>4. /\ usdc' \in USDCType /\ usdc'.state = "payable" /\ usdc'.worker = work.worker
      /\ usdc'.payTo \in {usdc'.worker, NoOne}
  BY Zenon, <1>1, <1>3 DEF USDCType
<1>5. /\ usdc.state # "paid" /\ Save(work)
      /\ UNCHANGED <<now, generation, reply, knows, reward, review, linked, escrow>>
  BY Zenon DEF Promise
<1> QED
  BY Zenon, <1>1, <1>4, <1>5, OwedStep

LEMMA SettleStep ==
    ASSUME IInv, Settle
    PROVE  IInv' /\ ForGood
<1>1. /\ work.state = "accepted" /\ usdc.state = "payable" /\ usdc \in USDCType
      /\ usdc.worker = work.worker /\ usdc.payTo \in {usdc.worker, NoOne}
  BY Zenon, Facts DEF Settle, USDCInv
<1>2. PayTo(usdc.worker, TRUE, FALSE, TRUE) \in {usdc.worker, NoOne}
  BY Zenon, <1>1 DEF PayTo
<1>3. PICK to \in {usdc.worker, NoOne} : usdc' = [usdc EXCEPT !.state = "paid", !.payTo = to]
  BY Zenon, <1>2 DEF Settle
<1>4. /\ usdc' \in USDCType /\ usdc'.state = "paid" /\ usdc'.worker = work.worker
      /\ usdc'.payTo \in {usdc'.worker, NoOne}
  BY Zenon, <1>1, <1>3 DEF USDCType
<1>5. /\ Save(work)
      /\ UNCHANGED <<now, generation, reply, knows, reward, review, linked, escrow>>
  BY Zenon DEF Settle
<1> QED
  BY Zenon, <1>1, <1>4, <1>5, OwedStep

LEMMA SweepStep ==
    ASSUME IInv,
           NEW done \in SUBSET E!In(escrow, "pending"),
           NEW cancelled \in SUBSET (E!In(escrow, "pending") \ done),
           NEW affiliated \in BOOLEAN, NEW pay \in {"done", "pending", "refused"},
           Sweep(done, cancelled, affiliated, pay)
    PROVE  IInv' /\ ForGood
<1>1. /\ work.state # "none" /\ UNCHANGED <<now, generation, work, reply, knows, linked>>
      /\ usdc' = IF Lapsed THEN voidWorkUSDC(usdc, lapseReason) ELSE usdc
  BY Zenon DEF Sweep
<1>2. work.state \in Undecided \cup Ended
  BY Zenon, <1>1, Facts DEF Ended
<1>3. work.state \in {"submitted", "accepted"} => work.worker \in Accounts
  BY Zenon, Facts, Constants DEF WorkInv
<1>4. InOrder(money', work, now) /\ Onward(money, money')
  BY Zenon, <1>2, <1>3, SweepMoney, Facts
<1>5. MoneyInv(money', work', now') /\ MoneyType(money')
  BY Zenon, <1>1, <1>4 DEF MoneyInv, InOrder
<1>6. /\ usdc' \in USDCType /\ USDCInv(usdc', work, now)
      /\ usdc.state = "paid" => usdc' = usdc
  <2>1. usdc \in USDCType /\ USDCInv(usdc, work, now)
    BY Zenon, Facts
  <2>2. CASE Lapsed
    <3>1. usdc' = voidWorkUSDC(usdc, lapseReason)
      BY Zenon, <1>1, <2>2
    <3>2. /\ lapseReason \in {"expired", "review_lapsed", "requester_lapsed"}
          /\ lapseReason = "requester_lapsed" => work.state = "submitted"
      BY Zenon DEF lapseReason
    <3>3. /\ usdc' \in USDCType /\ usdc'.payTo = usdc.payTo /\ usdc'.worker = usdc.worker
          /\ usdc.state = "promised" => usdc'.state = "void" /\ usdc'.reason = lapseReason
          /\ usdc.state # "promised" => usdc' = usdc
      BY <2>1, <3>1, <3>2, VoidUSDC
    <3>4. Deadline <= now
      BY Zenon, <2>2 DEF Lapsed
    <3> QED
      BY Zenon, <2>1, <3>2, <3>3, <3>4 DEF USDCInv
  <2>3. CASE ~Lapsed
    BY Zenon, <1>1, <2>1, <2>3
  <2> QED
    BY Zenon, <2>2, <2>3
<1>7. WorkInv(work') /\ KnowsInv'
  BY Zenon, <1>1, Facts DEF KnowsInv
<1>8. TypeOK'
  BY Zenon, <1>1, <1>5, <1>6, TypesNext, Facts
<1>9. ForGood
  <2>1. /\ EscrowsKept(escrow, escrow')
        /\ reward.state \in {"paid", "released"} => reward' = reward
    BY Zenon, <1>4 DEF Onward, money
  <2> QED
    BY Zenon, <1>1, <1>6, <2>1 DEF ForGood, EscrowsKept
<1> QED
  BY Zenon, <1>1, <1>5, <1>6, <1>7, <1>8, <1>9 DEF IInv

LEMMA CancelPaymentStep ==
    ASSUME IInv, NEW k \in Keys, CancelPayment(k)
    PROVE  IInv' /\ ForGood
<1> DEFINE m == [money EXCEPT !.escrow =
                   E!ended(E!ended(@, {}, "done"), {k}, "cancelled")]
<1>1. /\ k \in E!In(escrow, "pending")
      /\ escrow' = E!ended(escrow, {k}, "cancelled")
      /\ UNCHANGED <<now, generation, work, reply, knows, reward, review, usdc, linked>>
  BY Zenon DEF CancelPayment
<1>2. escrow \in Escrows /\ money.escrow = escrow
  BY Zenon, Facts DEF InOrder, MoneyType, money
<1>3. E!ended(escrow, {}, "done") = escrow
  BY Zenon, <1>2 DEF E!ended, Escrows
<1>4. money' = m
  BY <1>1, <1>2, <1>3 DEF money
<1>5. InOrder(m, work, now) /\ Onward(money, m)
  <2>1. {} \in SUBSET E!In(money.escrow, "pending")
        /\ {k} \in SUBSET (E!In(money.escrow, "pending") \ {})
    BY Zenon, <1>1, <1>2
  <2> QED
    BY Zenon, <2>1, PaymentsEnd, Facts
<1> HIDE DEF m
<1>6. work.state # "none"
  <2>1. MoneyInv(money, work, now)
    BY Zenon DEF IInv
  <2> QED
    BY Zenon, <1>1, <1>2, <2>1 DEF MoneyInv, E!In
<1>7. MoneyInv(money', work', now') /\ MoneyType(money')
  BY Zenon, <1>1, <1>4, <1>5, <1>6 DEF MoneyInv, InOrder
<1>8. WorkInv(work') /\ KnowsInv' /\ USDCInv(usdc', work', now')
  BY Zenon, <1>1, Facts DEF KnowsInv
<1>9. TypeOK'
  BY Zenon, <1>1, <1>7, TypesNext, Facts
<1>10. ForGood
  <2>1. EscrowsKept(escrow, escrow')
    BY Zenon, <1>4, <1>5 DEF Onward, money
  <2> QED
    BY Zenon, <1>1, <2>1 DEF ForGood, EscrowsKept
<1> QED
  BY Zenon, <1>7, <1>8, <1>9, <1>10 DEF IInv

LEMMA USDCSees ==
    ASSUME NEW u, NEW w, NEW t \in Nat, NEW n \in Nat, t <= n, USDCInv(u, w, t)
    PROVE  USDCInv(u, w, n)
BY Constants DEF USDCInv

\* A step that leaves the item and its money alone.
LEMMA AroundStep ==
    ASSUME IInv, UNCHANGED <<work, reward, review, usdc, escrow>>,
           now' \in 0..Horizon, now <= now', generation' \in 0..MaxGeneration,
           reply' \in [edited : BOOLEAN, hidden : BOOLEAN],
           knows' \in [Deciders -> KnowsType], linked' \subseteq Workers, KnowsInv'
    PROVE  IInv' /\ ForGood
<1>1. money' = money
  BY Zenon DEF money
<1>2. MoneyInv(money', work', now')
  <2>1. MoneyInv(money, work, now) /\ now \in Nat /\ now' \in Nat
    BY Facts, Constants DEF IInv
  <2>2. MoneyInv(money, work, now')
    BY Zenon, <2>1, MoneySees
  <2> QED
    BY Zenon, <1>1, <2>2
<1>3. WorkInv(work') /\ USDCInv(usdc', work', now')
  <2>1. now \in Nat /\ now' \in Nat /\ now <= now'
    BY Facts, Constants
  <2>2. WorkInv(work) /\ USDCInv(usdc, work, now)
    BY Zenon, Facts
  <2>3. USDCInv(usdc, work, now')
    BY Zenon, <2>1, <2>2, USDCSees
  <2> QED
    BY Zenon, <2>2, <2>3
<1>4. TypeOK'
  BY Zenon, <1>1, TypesNext, Facts DEF InOrder
<1>5. ForGood
  BY Zenon DEF ForGood
<1> QED
  BY Zenon, <1>2, <1>3, <1>4, <1>5 DEF IInv

\* What a decider reads is the attempt that is current.
LEMMA ReadStep ==
    ASSUME IInv, NEW a \in Deciders, Read(a)
    PROVE  IInv' /\ ForGood
<1> DEFINE k == [generation |-> generation, fence |-> work.fence, worker |-> work.worker]
<1>1. /\ knows' = [knows EXCEPT ![a] = k]
      /\ UNCHANGED <<now, generation, work, reply, reward, review, usdc, linked, escrow>>
  BY Zenon DEF Read
<1>2. work.fence \in Nat /\ work.fence \in 0..MaxFence + 1 /\ generation \in Nat
  BY Facts, Constants
<1>3. k \in KnowsType /\ Recent(k, work, generation)
  BY <1>2, Facts DEF KnowsType, WorkType, Recent
<1> HIDE DEF k
<1>4. knows' \in [Deciders -> KnowsType] /\ KnowsInv'
  BY Zenon, <1>1, <1>3, Facts DEF KnowsInv
<1> QED
  BY <1>1, <1>4, AroundStep, Facts

LEMMA KnownNumbers ==
    ASSUME NEW k \in KnowsType
    PROVE  k.generation \in Nat /\ k.fence \in Nat
BY Constants DEF KnowsType

\* What is known of a generation is recent, whatever it says, in the next one.
LEMMA Outdated ==
    ASSUME NEW k \in KnowsType, NEW g \in Nat, k.generation <= g, NEW w
    PROVE  Recent(k, w, g + 1)
<1>1. k.generation \in Nat
  BY Zenon, KnownNumbers
<1>2. k.generation < g + 1
  BY <1>1
<1> QED
  BY <1>1, <1>2 DEF Recent

\* After a restore every fence a decider knows is of an earlier generation.
LEMMA RestoreStep ==
    ASSUME IInv, NEW a \in Deciders, NEW lost \in Workers, Restore(a, lost)
    PROVE  IInv' /\ ForGood
<1> DEFINE k == [generation |-> generation, fence |-> work.fence + 1, worker |-> lost]
<1>1. /\ generation < MaxGeneration /\ generation' = generation + 1
      /\ knows' = [knows EXCEPT ![a] = k]
      /\ UNCHANGED <<now, work, reply, reward, review, usdc, linked, escrow>>
  BY Zenon DEF Restore
<1>2. work.fence + 1 \in 0..MaxFence + 1 /\ generation \in Nat
      /\ generation' \in 0..MaxGeneration
  BY <1>1, Facts, Constants
<1>3. k \in KnowsType /\ k.generation <= generation
  BY <1>2, Facts DEF KnowsType
<1> HIDE DEF k
<1>4. knows' \in [Deciders -> KnowsType]
  BY Zenon, <1>1, <1>3, Facts
<1>5. ASSUME NEW b \in Deciders PROVE Recent(knows'[b], work', generation')
  <2>1. knows[b] \in KnowsType /\ Recent(knows[b], work, generation)
    BY Zenon, Facts DEF KnowsInv
  <2>2. knows[b].generation <= generation
    BY <2>1, Zenon DEF Recent
  <2>3. knows'[b] = IF b = a THEN k ELSE knows[b]
    BY Zenon, <1>1, Facts
  <2>4. PICK o \in KnowsType : knows'[b] = o /\ o.generation <= generation
    BY <1>3, <2>1, <2>2, <2>3, Zenon
  <2>5. Recent(o, work', generation + 1)
    BY <1>2, <2>4, Outdated, Zenon
  <2> QED
    BY <1>1, <2>4, <2>5, Zenon
<1> QED
  BY <1>1, <1>2, <1>4, <1>5, AroundStep, Facts DEF KnowsInv

LEMMA OtherSteps ==
    ASSUME IInv, Edit \/ Moderate \/ (\E a \in Linkable : Link(a)) \/ Tick \/ UNCHANGED vars
    PROVE  IInv' /\ ForGood
<1>1. /\ UNCHANGED <<work, reward, review, usdc, escrow, generation, knows>>
      /\ now' = now \/ (now < Horizon /\ now' = now + 1)
      /\ reply' = reply \/ reply' = [reply EXCEPT !.edited = TRUE]
                        \/ reply' = [reply EXCEPT !.hidden = ~@]
      /\ linked' = linked \/ \E a \in Linkable : linked' = linked \cup {a}
  BY Zenon DEF Edit, Moderate, Link, Tick, vars
<1>2. now' \in 0..Horizon /\ now <= now'
  BY <1>1, Facts, Constants
<1>3. reply' \in [edited : BOOLEAN, hidden : BOOLEAN]
  BY Zenon, <1>1, Facts
<1>4. linked' \subseteq Workers
  BY <1>1, Facts, WorkAssumption
<1>5. KnowsInv'
  BY Zenon, <1>1, Facts DEF KnowsInv
<1> QED
  BY Zenon, <1>1, <1>2, <1>3, <1>4, <1>5, AroundStep, Facts

-----------------------------------------------------------------------------
(* The invariant, and what follows from it.                                *)

LEMMA Initially == Init => IInv
<1> SUFFICES ASSUME Init PROVE IInv
  BY Zenon
<1>1. escrow \in Escrows /\ \A k \in Keys : escrow[k].state = "none"
  BY Zenon DEF Init, E!Init, E!NoEscrow, Escrows, E!EscrowType
<1>2. NoRow \in RowType /\ NoRow.state = "none" /\ NoRow.amount = 0
  BY Zenon, KeysKnown DEF NoRow, RowType
<1>3. /\ money.reward = NoRow /\ money.review = NoRow /\ money.escrow = escrow
      /\ MoneyType(money)
  BY Zenon, <1>1, <1>2 DEF Init, money, MoneyType
<1>4. MoneyInv(money, work, now)
  BY Zenon, <1>1, <1>2, <1>3, KeysKnown DEF MoneyInv, RewardInv, Absent, ReviewInv
<1>5. /\ now \in 0..Horizon /\ generation \in 0..MaxGeneration
      /\ 0 \in 0..MaxFence /\ 0 \in 0..MaxFence + 1 /\ 0 \in 0..Deadline
      /\ now = 0 /\ generation = 0
  <2>1. now = 0 /\ generation = 0
    BY Zenon DEF Init
  <2> QED
    BY <2>1, Constants
<1>6. work \in WorkType /\ WorkInv(work) /\ work.fence = 0 /\ work.state = "none"
  BY Zenon, <1>5 DEF Init, WorkType, WorkInv
<1>7. usdc \in USDCType /\ USDCInv(usdc, work, now)
  BY Zenon DEF Init, USDCType, USDCInv
<1>8. knows \in [Deciders -> KnowsType] /\ KnowsInv
  <2>1. NoAttempt \in KnowsType /\ NoAttempt.generation = 0 /\ NoAttempt.fence = 0
    BY Zenon, <1>5 DEF NoAttempt, KnowsType
  <2>2. knows = [a \in Deciders |-> NoAttempt]
    BY Zenon DEF Init
  <2>3. ASSUME NEW a \in Deciders PROVE Recent(knows[a], work, generation)
    <3>1. knows[a] = NoAttempt
      BY Zenon, <2>2
    <3> QED
      BY <1>5, <1>6, <2>1, <3>1 DEF Recent
  <2> QED
    BY Zenon, <2>1, <2>2, <2>3 DEF KnowsInv
<1>9. reply \in [edited : BOOLEAN, hidden : BOOLEAN] /\ linked \subseteq Workers
  BY Zenon DEF Init, Fresh
<1> QED
  BY Zenon, <1>3, <1>4, <1>5, <1>6, <1>7, <1>8, <1>9, Types DEF IInv

\* Every step, action by action.
LEMMA Step ==
    ASSUME IInv, [Next]_vars
    PROVE  IInv' /\ ForGood
<1>1. CASE \E o \in Offers : Create(o)
  BY Zenon, <1>1, CreateStep
<1>2. CASE \E a \in Workers, named \in BOOLEAN :
             (\E ttl \in ClaimTTLs : Claim(a, ttl, named)) \/ ClaimWithResult(a, named)
  BY Zenon, <1>2, ClaimSteps
<1>3. CASE \E a \in Workers, named \in BOOLEAN : Submit(a, named)
  BY Zenon, <1>3, HeldSteps
<1>4. CASE \E a \in Workers, ttl \in ClaimTTLs : Renew(a, ttl)
  BY Zenon, <1>4, HeldSteps
<1>5. CASE \E r \in Reviewers : SetReviewer(r)
  BY Zenon, <1>5, SetReviewerStep
<1>6. CASE \E a \in Deciders, p \in BOOLEAN : Accept(a, p)
  BY Zenon, <1>6, AcceptStep
<1>7. CASE \E a \in Deciders, p \in BOOLEAN : \E b \in Workers : AcceptReply(a, b, p)
  BY Zenon, <1>7, AcceptReplyStep
<1>8. CASE \E a \in Deciders, p \in BOOLEAN : Reject(a, p)
  BY Zenon, <1>8, RejectStep
<1>9. CASE \E p \in BOOLEAN : LateAccept(p) \/ Cancel(p)
  BY Zenon, <1>9, LateAcceptStep, CancelStep
<1>10. CASE Promise \/ Settle
  BY Zenon, <1>10, PromiseStep, SettleStep
<1>11. CASE \E done \in SUBSET E!In(escrow, "pending") :
              \E cancelled \in SUBSET (E!In(escrow, "pending") \ done) :
                \E affiliated \in BOOLEAN, pay \in {"done", "pending", "refused"} :
                  Sweep(done, cancelled, affiliated, pay)
  BY Zenon, <1>11, SweepStep
<1>12. CASE \E k \in Keys : CancelPayment(k)
  BY Zenon, <1>12, CancelPaymentStep
<1>13. CASE \E a \in Deciders : Read(a)
  BY Zenon, <1>13, ReadStep
<1>14. CASE \E a \in Deciders, lost \in Workers : Restore(a, lost)
  BY Zenon, <1>14, RestoreStep
<1>15. CASE Edit \/ Moderate \/ (\E a \in Linkable : Link(a)) \/ Tick \/ UNCHANGED vars
  BY Zenon, <1>15, OtherSteps
<1> QED
  BY Zenon, <1>1, <1>2, <1>3, <1>4, <1>5, <1>6, <1>7, <1>8, <1>9, <1>10, <1>11, <1>12, <1>13,
     <1>14, <1>15 DEF Next

LEMMA Invariant == Spec => []IInv
<1>1. IInv /\ [Next]_vars => IInv'
  BY Zenon, Step
<1> QED
  BY <1>1, Initially, PTL DEF Spec

LEMMA MoneyMatches == IInv => RowsMatchEscrows
<1> SUFFICES ASSUME IInv PROVE Tells(reward) /\ Tells(review)
  BY Zenon DEF RowsMatchEscrows
<1>1. RewardInv(reward, escrow, work, now) /\ ReviewInv(review, escrow)
  BY Zenon DEF IInv, MoneyInv, money
<1>2. Agree(reward, escrow[reward.hold].state) \/ reward.state = "none"
  BY Zenon, <1>1 DEF RewardInv, Absent, Backed, GivenBack, PaidWhole, PaidInParts, Agree
<1>3. Agree(review, escrow[review.hold].state) \/ review.state = "none"
  BY Zenon, <1>1 DEF ReviewInv
<1> QED
  BY Zenon, <1>2, <1>3 DEF Agree, Tells

LEMMA MoneyForResult == IInv => PaidForAccepted
<1> SUFFICES ASSUME IInv PROVE PaidForAccepted
  BY Zenon
<1>1. /\ RewardInv(reward, escrow, work, now)
      /\ escrow \in Escrows /\ reward \in RowType
  BY Zenon DEF IInv, MoneyInv, MoneyType, money
<1>2. /\ reward.amount \in Nat
      /\ \A k \in Keys : escrow[k].units \in Nat
  BY Zenon, <1>1 DEF RowType, Escrows, E!EscrowType
<1>3. \A k \in Keys : unitsOf(k) = IF escrow[k].state \in {"pending", "done"}
                                   THEN escrow[k].units ELSE 0
  BY Zenon DEF unitsOf, Moved
<1>4. \A k \in {"reward", "late", "upfront"} : escrow[k].state \in {"pending", "done"} =>
         work.state = "accepted" /\ escrow[k].to = {work.worker}
  BY Zenon, <1>1 DEF RewardInv, Absent, Backed, GivenBack, PaidWhole, PaidInParts
<1>5. unitsOf("reward") + unitsOf("late") + unitsOf("upfront") <= reward.amount
  <2>1. CASE \/ Absent(reward, escrow) \/ Backed(reward, escrow, work)
             \/ GivenBack(reward, escrow, work, now)
    <3>1. \A k \in {"reward", "late", "upfront"} : unitsOf(k) = 0
      BY Zenon, <1>3, <2>1, KeysKnown DEF Absent, Backed, GivenBack
    <3> QED
      BY <1>2, <3>1
  <2>2. CASE PaidWhole(reward, escrow, work)
    <3>1. unitsOf("upfront") = 0
      BY Zenon, <1>3, <2>2, KeysKnown DEF PaidWhole
    <3>2. CASE reward.hold = "reward" /\ escrow["late"].state = "none"
      <4>1. unitsOf("late") = 0 /\ unitsOf("reward") \in {0, reward.amount}
        BY Zenon, <1>3, <2>2, <3>2, KeysKnown DEF PaidWhole
      <4> QED
        BY <1>2, <3>1, <4>1
    <3>3. CASE reward.hold = "late" /\ escrow["reward"].state = "released"
      <4>1. unitsOf("reward") = 0 /\ unitsOf("late") \in {0, reward.amount}
        BY Zenon, <1>3, <2>2, <3>3, KeysKnown DEF PaidWhole
      <4> QED
        BY <1>2, <3>1, <4>1
    <3> QED
      BY Zenon, <2>2, <3>2, <3>3 DEF PaidWhole
  <2>3. CASE PaidInParts(reward, escrow, work)
    <3>1. /\ unitsOf("late") = 0 /\ unitsOf("reward") \in {0, escrow["reward"].units}
          /\ unitsOf("upfront") \in {0, escrow["upfront"].units}
      BY Zenon, <1>3, <2>3, KeysKnown DEF PaidInParts
    <3>2. escrow["reward"].units + escrow["upfront"].units = reward.amount
      BY Zenon, <2>3 DEF PaidInParts
    <3>3. escrow["reward"].units \in Nat /\ escrow["upfront"].units \in Nat
      BY Zenon, <1>2, KeysKnown
    <3> QED
      BY <3>1, <3>2, <3>3
  <2> QED
    BY Zenon, <1>1, <2>1, <2>2, <2>3 DEF RewardInv
<1> QED
  BY Zenon, <1>4, <1>5 DEF PaidForAccepted, Moved

LEMMA OfferBacked == IInv => OfferIsBacked
<1> SUFFICES ASSUME IInv, work.state \notin Ended, now < Deadline, reward.state # "none"
             PROVE  /\ reward.state = "held"
                    /\ escrow["reward"].state = "held"
                    /\ escrow["reward"].units = reward.amount
  BY Zenon DEF OfferIsBacked
<1>1. CASE work.state = "none"
  BY Zenon, <1>1 DEF IInv, MoneyInv, money
<1>2. CASE work.state \in Undecided
  <2>1. /\ Absent(money.reward, money.escrow) \/ Backed(money.reward, money.escrow, work)
        /\ money.escrow = escrow /\ money.reward = reward
    BY Zenon, <1>2, MoneyReady DEF money
  <2> QED
    BY Zenon, <2>1 DEF Absent, Backed
<1> QED
  BY Zenon, <1>1, <1>2, Facts DEF Ended

LEMMA USDCFollowsResult == IInv => USDCToWorker
BY Zenon DEF IInv, USDCInv, USDCToWorker

-----------------------------------------------------------------------------
(* The theorems.                                                           *)

\* The row of the reward, and the one of the reviewer's fee, always tell what
\* the ledger's escrow says, through splits, the deadline, the late accept and
\* payments that wait and are cancelled (workreward.go, splitpayout.go).
THEOREM RowsAndEscrowsAgree == Spec => []RowsMatchEscrows
BY Invariant, MoneyMatches, PTL

\* Credits leave the reward's escrows only for an accepted result, only to its
\* worker and never more than was offered (payWorkReward, splitPayout,
\* reholdWorkReward and the sweep).
THEOREM RewardPaidForAccepted == Spec => []PaidForAccepted
BY Invariant, MoneyForResult, PTL

\* Until the deadline an undecided item holds its whole reward, whatever
\* claims, rejects, reviewers and restores it has seen (work.go, workreward.go).
THEOREM OfferStaysBacked == Spec => []OfferIsBacked
BY Invariant, OfferBacked, PTL

\* A fenced decision goes to the worker whose attempt its decider read, also
\* when claims lapse and a backup is restored in between (work.go: the fence
\* and the generation; worklate.go, workreply.go).
THEOREM DecisionsHitTheirAttempt == Spec => []JudgedAsRead
<1>1. IInv => JudgedAsRead
  BY Zenon DEF IInv, WorkInv, JudgedAsRead
<1> QED
  BY <1>1, Invariant, PTL

\* No result waits for, or was accepted by, the account that made it
\* (refuseReviewerWorker and work.set_reviewer).
THEOREM ReviewersDoNotJudgeThemselves == Spec => []ReviewerNeverWorker
<1>1. IInv => ReviewerNeverWorker
  BY Zenon DEF IInv, WorkInv, ReviewerNeverWorker
<1> QED
  BY <1>1, Invariant, PTL

\* USDC is owed, and paid, to an address of the worker whose result was
\* accepted (setWorkPayTo, oweWorkUSDC, work.promise, work.settle).
THEOREM USDCReachesTheWorker == Spec => []USDCToWorker
BY Invariant, USDCFollowsResult, PTL

\* What is decided or paid stays so; only a late accept takes a released
\* reward up again (every command of work.go and the sweep).
THEOREM DecidedForGood == Spec => EndedForGood
<1>1. IInv /\ [Next]_vars => [ForGood]_vars
  BY Zenon, Step
<1>2. Spec => [][ForGood]_vars
  BY <1>1, Invariant, PTL DEF Spec
<1> QED
  BY <1>2, PTL DEF EndedForGood, ForGood
=============================================================================
