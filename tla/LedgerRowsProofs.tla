-------------------------- MODULE LedgerRowsProofs --------------------------
(***************************************************************************)
(* For any accounts, keys, units and times: what may happen to the rows of *)
(* holds and transfers keeps the ledger's promises to the services engine  *)
(* and to the board.                                                       *)
(*                                                                         *)
(* None of it is inductive as it stands: that an escrow's payment ends     *)
(* once needs that a transfer and its hold end together, and that needs to *)
(* know which holds have a transfer at all (Linked). RowsInv says so, with *)
(* the shape of the rows; every operation touches one or two rows, or in a *)
(* sweep two disjoint sets of them, and the lemmas are about the rows      *)
(* touched.                                                                *)
(***************************************************************************)
EXTENDS LedgerRows, FiniteSetTheorems, TLAPS

\* The prover of every leaf that names no other.
USE Zenon

LEMMA TouchesNone ==
    ASSUME NEW f, Table(f)
    PROVE  Touches(f, f, {})
BY DEF Touches

-----------------------------------------------------------------------------
(* The rows stay well-formed and linked.                                   *)

LEMMA HoldsGrow ==
    ASSUME NEW hs, HoldsOK(hs), NEW gs, NEW X, Touches(hs, gs, X), X \subseteq Ids,
           IsFiniteSet(X), \A id \in X : IsHold(gs[id])
    PROVE  HoldsOK(gs)
<1>1. DOMAIN gs = DOMAIN hs \cup X /\ Table(gs)
  BY DEF Touches
<1>2. \A id \in DOMAIN gs : IsHold(gs[id])
  BY <1>1 DEF Touches, HoldsOK
<1>3. IsFiniteSet(DOMAIN gs) /\ DOMAIN gs \subseteq Ids
  BY <1>1, FS_Union DEF HoldsOK
<1> QED
  BY <1>1, <1>2, <1>3 DEF HoldsOK

LEMMA TransfersGrow ==
    ASSUME NEW ts, TransfersOK(ts), NEW us, NEW X, Touches(ts, us, X), X \subseteq Ids,
           IsFiniteSet(X), \A id \in X : IsTransfer(us[id])
    PROVE  TransfersOK(us)
<1>1. DOMAIN us = DOMAIN ts \cup X /\ Table(us)
  BY DEF Touches
<1>2. \A id \in DOMAIN us : IsTransfer(us[id])
  BY <1>1 DEF Touches, TransfersOK
<1>3. IsFiniteSet(DOMAIN us) /\ DOMAIN us \subseteq Ids
  BY <1>1, FS_Union DEF TransfersOK
<1> QED
  BY <1>1, <1>2, <1>3 DEF TransfersOK

LEMMA LinkedIs ==
    ASSUME NEW hs, NEW ts
    PROVE  Linked(hs, ts) <=> \A id : LinkedAt(hs, ts, id)
BY DEF Linked, LinkedAt

LEMMA LinkedKept ==
    ASSUME NEW hs, NEW ts, Linked(hs, ts), NEW gs, NEW us, NEW X, NEW Y,
           Touches(hs, gs, X), Touches(ts, us, Y), \A id \in X \cup Y : LinkedAt(gs, us, id)
    PROVE  Linked(gs, us)
<1>1. ASSUME NEW id, id \notin X \cup Y PROVE LinkedAt(gs, us, id)
  <2>1. LinkedAt(hs, ts, id)
    BY LinkedIs
  <2>2. /\ id \in DOMAIN gs <=> id \in DOMAIN hs
        /\ id \in DOMAIN us <=> id \in DOMAIN ts
        /\ id \in DOMAIN hs => gs[id] = hs[id]
        /\ id \in DOMAIN ts => us[id] = ts[id]
    BY <1>1 DEF Touches
  <2> QED
    BY <2>1, <2>2 DEF LinkedAt
<1> QED
  BY <1>1, LinkedIs

\* The rows after a step that touches those of X and Y.
LEMMA RowsTouched ==
    ASSUME Rows(holds, transfers), NEW X, NEW Y, Touches(holds, holds', X),
           Touches(transfers, transfers', Y), X \subseteq Ids, Y \subseteq Ids,
           IsFiniteSet(X), IsFiniteSet(Y),
           \A id \in X : IsHold(holds'[id]), \A id \in Y : IsTransfer(transfers'[id]),
           \A id \in X \cup Y : LinkedAt(holds', transfers', id)
    PROVE  Rows(holds, transfers)'
<1>1. PICK gs, us : gs = holds' /\ us = transfers'
  OBVIOUS
<1>2. HoldsOK(gs)
  BY <1>1, HoldsGrow DEF Rows
<1>3. TransfersOK(us)
  BY <1>1, TransfersGrow DEF Rows
<1>4. Linked(holds, transfers)
  BY DEF Rows
<1>5. Linked(gs, us)
  BY <1>1, <1>4, LinkedKept
<1>6. Rows(gs, us)
  BY <1>2, <1>3, <1>5 DEF Rows
<1> QED
  BY <1>1, <1>6

LEMMA TransfersStay ==
    ASSUME Rows(holds, transfers), transfers' = transfers
    PROVE  Touches(transfers, transfers', {})
BY TouchesNone DEF Rows, TransfersOK

LEMMA HoldsStay ==
    ASSUME Rows(holds, transfers), holds' = holds
    PROVE  Touches(holds, holds', {})
BY TouchesNone DEF Rows, HoldsOK

LEMMA IdsAre ==
    ASSUME NEW a, NEW kind, NEW key
    PROVE  /\ Id(a, kind, key).kind = kind
           /\ Id(a, kind, key) \in CallIds => kind = "service" /\ key \in CallKeys
           /\ Id(a, kind, key) \in EscrowIds => kind = "escrow" /\ key \in EscrowKeys
BY SMT DEF Id, CallIds, EscrowIds

\* A hold that changes alone.
LEMMA OneHold ==
    ASSUME Rows(holds, transfers), NEW id \in Ids, Touches(holds, holds', {id}), SameTransfers,
           IsHold(holds'[id]), LinkedAt(holds', transfers, id)
    PROVE  Rows(holds, transfers)'
<1>1. IsFiniteSet({id}) /\ IsFiniteSet({}) /\ {id} \subseteq Ids
  BY FS_Singleton, FS_EmptySet
<1>2. Touches(transfers, transfers', {}) /\ transfers' = transfers
  BY TransfersStay DEF SameTransfers
<1>3. \A i \in {id} \cup {} : LinkedAt(holds', transfers', i)
  BY <1>2
<1> QED
  BY <1>1, <1>2, <1>3, RowsTouched

\* A hold that ends alone, as one without a transfer may.
LEMMA HoldEnds ==
    ASSUME Rows(holds, transfers), NEW id \in DOMAIN holds, id \notin DOMAIN transfers,
           NEW state, NEW used, EndsAs(holds, holds', id, state, used), SameTransfers
    PROVE  Rows(holds, transfers)'
<1>1. /\ Touches(holds, holds', {id}) /\ IsHold(holds'[id])
      /\ holds'[id].service = holds[id].service
  BY DEF EndsAs, Ended
<1>2. LinkedAt(holds, transfers, id)
  BY LinkedIs DEF Rows
<1>3. LinkedAt(holds', transfers, id)
  BY <1>1, <1>2 DEF LinkedAt, Touches
<1>4. id \in Ids
  BY DEF Rows, HoldsOK
<1> QED
  BY <1>1, <1>3, <1>4, OneHold

LEMMA ServiceUnsent ==
    ASSUME Rows(holds, transfers), NEW id, id.kind = "service"
    PROVE  id \notin DOMAIN transfers
BY DEF Rows, Linked, LinkedAt

LEMMA OpenKept ==
    ASSUME Rows(holds, transfers), ReserveRow \/ EscrowRow
    PROVE  Rows(holds, transfers)'
<1>1. ASSUME NEW a \in Accounts, NEW key \in CallKeys \cup DepositKeys, NEW n, NEW end,
             OpenRow(Id(a, "service", key), ServiceOf(key), n, end), SameTransfers
      PROVE  Rows(holds, transfers)'
  <2>1. PICK id : id = Id(a, "service", key)
    OBVIOUS
  <2>2. id \in Ids /\ Touches(holds, holds', {id}) /\ IsNew(holds'[id], ServiceOf(key), n, end)
    BY <1>1, <2>1 DEF OpenRow
  <2>3. IsHold(holds'[id]) /\ holds'[id].service = ServiceOf(key)
    BY <2>2 DEF IsNew
  <2>4. id.kind = "service" /\ (id \in CallIds => key \in CallKeys)
    BY <2>1, IdsAre
  <2>5. ServiceOf(key) # "ledger" /\ (key \in CallKeys => ServiceOf(key) = "call")
    BY SMT, RowsAssumption DEF ServiceOf
  <2>6. id \notin DOMAIN transfers
    BY <2>4, ServiceUnsent
  <2>7. id.kind # "transfer"
    BY SMT, <2>4
  <2>8. LinkedAt(holds', transfers, id)
    BY <2>3, <2>4, <2>5, <2>6, <2>7 DEF LinkedAt
  <2> QED
    BY <1>1, <2>2, <2>3, <2>8, OneHold
<1>2. ASSUME NEW a \in Accounts, NEW key \in EscrowKeys, NEW n, NEW end,
             OpenRow(Id(a, "escrow", key), "ledger", n, end), SameTransfers
      PROVE  Rows(holds, transfers)'
  <2>1. PICK id : id = Id(a, "escrow", key)
    OBVIOUS
  <2>2. /\ id \in Ids /\ Touches(holds, holds', {id}) /\ id \notin DOMAIN holds
        /\ IsNew(holds'[id], "ledger", n, end)
    BY <1>2, <2>1 DEF OpenRow
  <2>3. IsHold(holds'[id]) /\ holds'[id].service = "ledger"
    BY <2>2 DEF IsNew
  <2>4. id.kind = "escrow" /\ (id \in CallIds => "escrow" = "service")
    BY <2>1, IdsAre
  <2>5. id \notin CallIds /\ id.kind # "service" /\ id.kind # "transfer"
    BY SMT, <2>4
  <2>6. id \notin DOMAIN transfers
    BY <2>2, <2>4 DEF Rows, Linked, LinkedAt
  <2>7. LinkedAt(holds', transfers, id)
    BY <2>3, <2>5, <2>6 DEF LinkedAt
  <2> QED
    BY <1>2, <2>2, <2>3, <2>7, OneHold
<1> QED
  BY <1>1, <1>2 DEF ReserveRow, EscrowRow

LEMMA EndKept ==
    ASSUME Rows(holds, transfers), SettleRow \/ ReleaseRow
    PROVE  Rows(holds, transfers)'
<1>1. ASSUME NEW id, IsService(id), NEW state, NEW used, EndRow(id, state, used), SameTransfers
      PROVE  Rows(holds, transfers)'
  <2>1. id \in DOMAIN holds /\ id.kind = "service" /\ EndsAs(holds, holds', id, state, used)
    BY <1>1 DEF EndRow, IsService
  <2> QED
    BY <1>1, <2>1, ServiceUnsent, HoldEnds
<1>2. ASSUME NEW id, Unpaid(id), NEW state, NEW used, EndRow(id, state, used), SameTransfers
      PROVE  Rows(holds, transfers)'
  <2>1. id \in DOMAIN holds /\ id \notin DOMAIN transfers /\ EndsAs(holds, holds', id, state, used)
    BY <1>2 DEF EndRow, Unpaid
  <2> QED
    BY <1>2, <2>1, HoldEnds
<1> QED
  BY <1>1, <1>2 DEF SettleRow, ReleaseRow

LEMMA MarkedIs ==
    ASSUME NEW h, IsHold(h)
    PROVE  /\ IsHold(Marked(h)) /\ Marked(h).service = h.service /\ Marked(h).max = h.max
           /\ Marked(h).used = h.used /\ Marked(h).state = h.state /\ Marked(h).expires = h.expires
           /\ Marked(h).parts = h.parts
BY DEF IsHold, Marked

LEMMA MarkKept ==
    ASSUME Rows(holds, transfers), MarkRow
    PROVE  Rows(holds, transfers)'
<1>1. PICK id : ReimburseRow(id) /\ SameTransfers
  BY DEF MarkRow
<1>2. /\ id \in DOMAIN holds /\ id.kind = "service" /\ Touches(holds, holds', {id})
      /\ holds'[id] = Marked(holds[id])
  BY <1>1 DEF ReimburseRow, IsService
<1>3. IsHold(holds[id]) /\ id \in Ids
  BY <1>2 DEF Rows, HoldsOK
<1>4. IsHold(holds'[id]) /\ holds'[id].service = holds[id].service
  BY SMT, <1>2, <1>3, MarkedIs
<1>5. LinkedAt(holds, transfers, id)
  BY LinkedIs DEF Rows
<1>6. id \notin DOMAIN transfers
  BY <1>2, ServiceUnsent
<1>7. LinkedAt(holds', transfers, id)
  BY <1>2, <1>4, <1>5, <1>6 DEF LinkedAt, Touches
<1> QED
  BY <1>1, <1>2, <1>3, <1>4, <1>7, OneHold


LEMMA NewTransferState ==
    ASSUME NEW b, NEW n, NEW state, NEW execute
    PROVE  /\ NewTransfer(b, n, state, execute).state = state
           /\ NewTransfer(b, n, state, execute).to = b
           /\ NewTransfer(b, n, state, execute).amount = n
BY SMT DEF NewTransfer

LEMMA SendKept ==
    ASSUME Rows(holds, transfers), DoneRow \/ PendRow
    PROVE  Rows(holds, transfers)'
<1>0. IsFiniteSet({})
  BY FS_EmptySet
<1>1. ASSUME NEW a \in Accounts, NEW b \in Accounts, NEW key \in TransferKeys, NEW n,
             SendRow(Id(a, "transfer", key), b, n, "done", now), holds' = holds
      PROVE  Rows(holds, transfers)'
  <2>1. PICK id : id = Id(a, "transfer", key)
    OBVIOUS
  <2>2. /\ id \in Ids /\ id \notin DOMAIN transfers /\ Touches(transfers, transfers', {id})
        /\ IsTransfer(transfers'[id]) /\ transfers'[id] = NewTransfer(b, n, "done", now)
    BY <1>1, <2>1 DEF SendRow
  <2>3. transfers'[id].state = "done"
    BY SMT, <2>2, NewTransferState
  <2>4. id.kind = "transfer"
    BY <2>1, IdsAre
  <2>5. id \notin DOMAIN holds
    BY <2>2, <2>4 DEF Rows, Linked, LinkedAt
  <2>6. id.kind # "service" /\ id.kind # "escrow" /\ transfers'[id].state # "pending"
    BY SMT, <2>3, <2>4
  <2>7. LinkedAt(holds', transfers', id)
    BY <1>1, <2>5, <2>6 DEF LinkedAt
  <2>8. Touches(holds, holds', {})
    BY <1>1, HoldsStay
  <2>9. IsFiniteSet({id}) /\ {id} \subseteq Ids
    BY <2>2, FS_Singleton
  <2>10. \A i \in {} \cup {id} : LinkedAt(holds', transfers', i)
    BY <2>7
  <2> QED
    BY <1>0, <2>2, <2>8, <2>9, <2>10, RowsTouched
<1>2. ASSUME NEW a \in Accounts, NEW b \in Accounts, NEW key \in TransferKeys, NEW n, NEW end,
             SendRow(Id(a, "transfer", key), b, n, "pending", end),
             OpenRow(Id(a, "transfer", key), "ledger", n, end)
      PROVE  Rows(holds, transfers)'
  <2>1. PICK id : id = Id(a, "transfer", key)
    OBVIOUS
  <2>2. /\ id \in Ids /\ Touches(transfers, transfers', {id})
        /\ IsTransfer(transfers'[id]) /\ transfers'[id] = NewTransfer(b, n, "pending", end)
    BY <1>2, <2>1 DEF SendRow
  <2>3. transfers'[id].state = "pending"
    BY SMT, <2>2, NewTransferState
  <2>4. id.kind = "transfer" /\ (id \in CallIds => "transfer" = "service")
    BY <2>1, IdsAre
  <2>5. Touches(holds, holds', {id}) /\ IsNew(holds'[id], "ledger", n, end)
    BY <1>2, <2>1 DEF OpenRow
  <2>6. IsHold(holds'[id]) /\ holds'[id].service = "ledger" /\ holds'[id].state = "held"
    BY <2>5 DEF IsNew
  <2>7. id.kind # "service" /\ id \notin CallIds
    BY SMT, <2>4
  <2>8. id \in DOMAIN holds' /\ id \in DOMAIN transfers'
    BY <2>2, <2>5 DEF Touches
  <2>9. LinkedAt(holds', transfers', id)
    BY <2>3, <2>6, <2>7, <2>8 DEF LinkedAt, Matches
  <2>10. IsFiniteSet({id}) /\ {id} \subseteq Ids
    BY <2>2, FS_Singleton
  <2>11. \A i \in {id} \cup {id} : LinkedAt(holds', transfers', i)
    BY <2>9
  <2> QED
    BY <2>2, <2>5, <2>6, <2>10, <2>11, RowsTouched
<1> QED
  BY <1>1, <1>2 DEF DoneRow, PendRow

LEMMA PayKept ==
    ASSUME Rows(holds, transfers), PaymentRow
    PROVE  Rows(holds, transfers)'
<1>0. PICK id : \E b \in Accounts : Unpaid(id) /\ PayRow(id, b)
  BY DEF PaymentRow
<1>1. PICK b \in Accounts : Unpaid(id) /\ PayRow(id, b)
  BY <1>0
<1>2. PICK n : n = holds[id].max
  OBVIOUS
<1>3. PICK t, h, execute : /\ Matches(t, h) /\ SendRow(id, b, n, t, execute)
                           /\ Touches(holds, holds', {id}) /\ IsHold(holds'[id])
                           /\ holds'[id].state = h /\ holds'[id].service = holds[id].service
  <2>1. CASE /\ Touches(holds, holds', {id}) /\ Ended(holds[id], holds'[id], "committed")
             /\ SendRow(id, b, n, "done", now)
    BY <2>1 DEF Ended, Matches
  <2>2. ASSUME NEW execute, Delays(holds, holds', id, execute),
               SendRow(id, b, n, "pending", execute)
        PROVE  \E t, h, e : /\ Matches(t, h) /\ SendRow(id, b, n, t, e)
                            /\ Touches(holds, holds', {id}) /\ IsHold(holds'[id])
                            /\ holds'[id].state = h /\ holds'[id].service = holds[id].service
    <3>1. holds[id].state = "held"
      BY <1>1 DEF Unpaid
    <3>2. /\ Touches(holds, holds', {id}) /\ IsHold(holds'[id]) /\ holds'[id].state = "held"
          /\ holds'[id].service = holds[id].service
      BY <2>2, <3>1 DEF Delays, Delayed
    <3>3. Matches("pending", "held")
      BY DEF Matches
    <3> QED
      BY <2>2, <3>2, <3>3
  <2> QED
    BY <1>1, <1>2, <2>1, <2>2 DEF PayRow
<1>4. /\ id \in Ids /\ Touches(transfers, transfers', {id}) /\ IsTransfer(transfers'[id])
      /\ transfers'[id] = NewTransfer(b, n, t, execute)
  BY <1>3 DEF SendRow
<1>5. transfers'[id].state = t
  BY SMT, <1>4, NewTransferState
<1>6. id \in DOMAIN holds /\ id.kind = "escrow"
  BY <1>1 DEF Unpaid
<1>7. LinkedAt(holds, transfers, id)
  BY LinkedIs DEF Rows
<1>8. id \in DOMAIN holds' /\ id \in DOMAIN transfers'
  BY <1>3, <1>4 DEF Touches
<1>9. id.kind # "service" /\ id.kind # "transfer"
  BY SMT, <1>6
<1>10. LinkedAt(holds', transfers', id)
  BY <1>3, <1>5, <1>6, <1>7, <1>8, <1>9 DEF LinkedAt
<1>11. IsFiniteSet({id}) /\ {id} \subseteq Ids
  BY <1>4, FS_Singleton
<1>12. \A i \in {id} \cup {id} : LinkedAt(holds', transfers', i)
  BY <1>10
<1> QED
  BY <1>3, <1>4, <1>11, <1>12, RowsTouched

\* Two holds that change without a transfer.
LEMMA TwoHolds ==
    ASSUME Rows(holds, transfers), NEW x \in Ids, NEW y \in Ids, Touches(holds, holds', {x, y}),
           SameTransfers, IsHold(holds'[x]), IsHold(holds'[y]),
           LinkedAt(holds', transfers, x), LinkedAt(holds', transfers, y)
    PROVE  Rows(holds, transfers)'
<1>1. IsFiniteSet({x, y}) /\ IsFiniteSet({}) /\ {x, y} \subseteq Ids
  <2>1. {x, y} = {x} \cup {y}
    OBVIOUS
  <2>2. IsFiniteSet({x}) /\ IsFiniteSet({})
    BY FS_Singleton, FS_EmptySet
  <2>3. IsFiniteSet({x} \cup {y})
    BY <2>2, FS_AddElement
  <2> QED
    BY <2>1, <2>2, <2>3
<1>2. Touches(transfers, transfers', {}) /\ transfers' = transfers
  BY TransfersStay DEF SameTransfers
<1>3. \A i \in {x, y} \cup {} : LinkedAt(holds', transfers', i)
  BY <1>2
<1>4. \A i \in {x, y} : IsHold(holds'[i])
  OBVIOUS
<1> QED
  BY <1>1, <1>2, <1>3, <1>4, RowsTouched

LEMMA SplitKept ==
    ASSUME Rows(holds, transfers), SplitsRow
    PROVE  Rows(holds, transfers)'
<1>0. PICK src \in DOMAIN holds, key \in EscrowKeys, n \in Units, until \in Untils :
          /\ Unpaid(src) /\ SameTransfers
          /\ SplitRow(src, Id(src.account, "escrow", key), n, Lesser(until, holds[src].expires))
  BY DEF SplitsRow
<1>1. PICK end : /\ Unpaid(src) /\ SameTransfers
                 /\ SplitRow(src, Id(src.account, "escrow", key), n, end)
  BY <1>0
<1>2. PICK id : id = Id(src.account, "escrow", key)
  OBVIOUS
<1>3. /\ src \in DOMAIN holds /\ id \in Ids /\ id \notin DOMAIN holds
      /\ Touches(holds, holds', {src, id})
      /\ Resized(holds[src], holds'[src], holds[src].max - n)
      /\ IsNew(holds'[id], "ledger", n, end)
  BY <1>1, <1>2 DEF SplitRow
<1>4. /\ IsHold(holds'[src]) /\ holds'[src].service = holds[src].service
      /\ IsHold(holds'[id]) /\ holds'[id].service = "ledger"
  BY <1>3 DEF Resized, IsNew
<1>5. id.kind = "escrow" /\ (id \in CallIds => "escrow" = "service")
  BY <1>2, IdsAre
<1>6. id.kind # "service" /\ id.kind # "transfer" /\ id \notin CallIds
  BY SMT, <1>5
<1>7. id \notin DOMAIN transfers
  BY <1>3, <1>5 DEF Rows, Linked, LinkedAt
<1>8. LinkedAt(holds', transfers, id)
  BY <1>4, <1>6, <1>7 DEF LinkedAt
<1>9. LinkedAt(holds, transfers, src) /\ src \in Ids /\ src \notin DOMAIN transfers
  BY <1>1, <1>3, LinkedIs DEF Rows, HoldsOK, Unpaid
<1>10. LinkedAt(holds', transfers, src)
  BY <1>3, <1>4, <1>9 DEF LinkedAt
<1> QED
  BY <1>1, <1>3, <1>4, <1>8, <1>9, <1>10, TwoHolds

LEMMA JoinKept ==
    ASSUME Rows(holds, transfers), JoinsRow
    PROVE  Rows(holds, transfers)'
<1>1. PICK src, into : Unpaid(src) /\ Unpaid(into) /\ JoinRow(src, into) /\ SameTransfers
  BY DEF JoinsRow
<1>2. /\ src \in DOMAIN holds /\ into \in DOMAIN holds /\ Touches(holds, holds', {src, into})
      /\ Resized(holds[into], holds'[into], holds[into].max + holds[src].max)
      /\ Emptied(holds[src], holds'[src])
  BY <1>1 DEF JoinRow, Unpaid
<1>3. /\ IsHold(holds'[src]) /\ holds'[src].service = holds[src].service
      /\ IsHold(holds'[into]) /\ holds'[into].service = holds[into].service
  BY <1>2 DEF Resized, Emptied
<1>4. /\ LinkedAt(holds, transfers, src) /\ src \in Ids /\ src \notin DOMAIN transfers
      /\ LinkedAt(holds, transfers, into) /\ into \in Ids /\ into \notin DOMAIN transfers
  BY <1>1, <1>2, LinkedIs DEF Rows, HoldsOK, Unpaid
<1>5. LinkedAt(holds', transfers, src) /\ LinkedAt(holds', transfers, into)
  BY <1>2, <1>3, <1>4 DEF LinkedAt
<1> QED
  BY <1>1, <1>2, <1>3, <1>4, <1>5, TwoHolds

LEMMA ConcludedIs ==
    ASSUME NEW h, NEW h2, NEW t, NEW t2, Concluded(h, h2, t, t2)
    PROVE  /\ IsHold(h2) /\ IsTransfer(t2) /\ h2.service = h.service
           /\ Matches(t2.state, h2.state) /\ t2.state # "pending"
<1>1. CASE Ended(h, h2, "committed") /\ Closed(t, t2, "done")
  BY SMT, <1>1 DEF Ended, Closed, Matches
<1>2. CASE Ended(h, h2, "refunded") /\ Closed(t, t2, "cancelled")
  BY SMT, <1>2 DEF Ended, Closed, Matches
<1> QED
  BY <1>1, <1>2 DEF Concluded

LEMMA FinishKept ==
    ASSUME Rows(holds, transfers), NEW L, NEW X, FinishRow(L, X), L \subseteq DueRows
    PROVE  Rows(holds, transfers)'
<1>1. /\ L \subseteq DOMAIN holds /\ X \subseteq DOMAIN holds /\ X \subseteq DOMAIN transfers
      /\ Touches(holds, holds', L \cup X) /\ Touches(transfers, transfers', X)
      /\ \A id \in L : Lapsed(holds[id], holds'[id])
      /\ \A id \in X : Concluded(holds[id], holds'[id], transfers[id], transfers'[id])
  BY DEF FinishRow
<1>2. \A id \in L : IsHold(holds'[id]) /\ holds'[id].service = holds[id].service
  BY <1>1 DEF Lapsed, Ended
<1>3. \A id \in X : /\ IsHold(holds'[id]) /\ IsTransfer(transfers'[id])
                    /\ holds'[id].service = holds[id].service
                    /\ Matches(transfers'[id].state, holds'[id].state)
                    /\ transfers'[id].state # "pending"
  BY SMT, <1>1, ConcludedIs
<1>4. DOMAIN holds' = DOMAIN holds /\ DOMAIN transfers' = DOMAIN transfers
  BY <1>1 DEF Touches
<1>5. \A id : LinkedAt(holds, transfers, id)
  BY LinkedIs DEF Rows
<1>6. ASSUME NEW id \in L PROVE LinkedAt(holds', transfers', id)
  <2>1. id \in DOMAIN holds /\ holds[id].service # "ledger"
    BY <1>1 DEF DueRows
  <2>2. id.kind = "service"
    BY <1>5, <2>1 DEF LinkedAt
  <2>3. id \notin DOMAIN transfers
    BY <1>5, <2>2 DEF LinkedAt
  <2> QED
    BY <1>2, <1>4, <1>5, <2>1, <2>3 DEF LinkedAt
<1>7. ASSUME NEW id \in X PROVE LinkedAt(holds', transfers', id)
  <2>1. LinkedAt(holds, transfers, id) /\ id \in DOMAIN holds /\ id \in DOMAIN transfers
    BY <1>1, <1>5
  <2> QED
    BY <1>3, <1>4, <2>1 DEF LinkedAt
<1>8. IsFiniteSet(L \cup X) /\ IsFiniteSet(X) /\ L \cup X \subseteq Ids /\ X \subseteq Ids
  BY <1>1, FS_Subset DEF Rows, HoldsOK
<1>9. \A id \in (L \cup X) \cup X : LinkedAt(holds', transfers', id)
  BY <1>6, <1>7
<1>10. \A id \in L \cup X : IsHold(holds'[id])
  BY <1>2, <1>3
<1> QED
  BY <1>1, <1>3, <1>8, <1>9, <1>10, RowsTouched

LEMMA RowsKept ==
    ASSUME Rows(holds, transfers), RowStep
    PROVE  Rows(holds, transfers)'
<1>1. CASE NoRow
  BY <1>1 DEF NoRow
<1>2. CASE CancelRow
  <2>1. PICK L, X : FinishRow(L, X) /\ L = {}
    BY <1>2 DEF CancelRow
  <2>2. L \subseteq DueRows
    BY <2>1
  <2> QED
    BY <2>1, <2>2, FinishKept
<1>3. CASE SweepRow
  <2>1. PICK X : FinishRow(DueRows, X)
    BY <1>3 DEF SweepRow
  <2>2. DueRows \subseteq DueRows
    OBVIOUS
  <2> QED
    BY <2>1, <2>2, FinishKept
<1> QED
  BY <1>1, <1>2, <1>3, OpenKept, EndKept, MarkKept, SendKept, PayKept, SplitKept, JoinKept DEF
     RowStep


-----------------------------------------------------------------------------
(* What has ended stays as it is.                                          *)

\* The holds a step ends, and those it changes otherwise, are open.
LEMMA FinishOpen ==
    ASSUME Rows(holds, transfers), NEW L, NEW X, FinishRow(L, X), L \subseteq DueRows
    PROVE  /\ \A id \in L \cup X : id \in DOMAIN holds /\ holds[id].state = "held"
           /\ \A id \in X : id \in DOMAIN transfers /\ transfers[id].state = "pending"
<1>1. \A id \in X : /\ id \in DOMAIN holds /\ id \in DOMAIN transfers
                    /\ transfers[id].state = "pending"
  BY DEF FinishRow, Concluded
<1>2. ASSUME NEW id \in X PROVE holds[id].state = "held"
  <2>1. Matches(transfers[id].state, holds[id].state) /\ transfers[id].state = "pending"
    BY <1>1 DEF Rows, Linked, LinkedAt
  <2> QED
    BY SMT, <2>1 DEF Matches
<1>3. \A id \in L : id \in DOMAIN holds /\ holds[id].state = "held"
  BY DEF DueRows
<1> QED
  BY <1>1, <1>2, <1>3

LEMMA HoldsSettled ==
    ASSUME Rows(holds, transfers), RowStep, NEW id \in DOMAIN holds, holds[id].state # "held"
    PROVE  \/ holds'[id] = holds[id]
           \/ ~holds[id].reimbursed /\ holds'[id] = Marked(holds[id])
<1>1. ASSUME NEW X, Touches(holds, holds', X),
             \A x \in X : x \in DOMAIN holds => holds[x].state = "held"
      PROVE  holds'[id] = holds[id]
  BY <1>1 DEF Touches
<1>2. CASE NoRow \/ DoneRow
  BY <1>2 DEF NoRow, DoneRow
<1>3. ASSUME NEW x, NEW service, NEW n, NEW end, OpenRow(x, service, n, end)
      PROVE  holds'[id] = holds[id]
  <2>1. Touches(holds, holds', {x}) /\ x \notin DOMAIN holds
    BY <1>3 DEF OpenRow
  <2> QED
    BY <2>1 DEF Touches
<1>4. CASE ReserveRow \/ EscrowRow \/ PendRow
  BY <1>3, <1>4 DEF ReserveRow, EscrowRow, PendRow
<1>5. ASSUME NEW x, NEW state, NEW used, EndRow(x, state, used) PROVE holds'[id] = holds[id]
  <2>1. Touches(holds, holds', {x}) /\ holds[x].state = "held"
    BY <1>5 DEF EndRow, EndsAs
  <2> QED
    BY <2>1 DEF Touches
<1>6. CASE SettleRow \/ ReleaseRow
  BY <1>5, <1>6 DEF SettleRow, ReleaseRow
<1>7. CASE MarkRow
  <2>1. PICK x : ReimburseRow(x)
    BY <1>7 DEF MarkRow
  <2> QED
    BY <2>1 DEF ReimburseRow, Touches
<1>8. CASE PaymentRow
  <2>1. PICK x, b : Unpaid(x) /\ PayRow(x, b)
    BY <1>8 DEF PaymentRow
  <2>2. Touches(holds, holds', {x}) /\ holds[x].state = "held"
    BY <2>1 DEF PayRow, Unpaid, Delays
  <2> QED
    BY <2>2 DEF Touches
<1>9. CASE SplitsRow
  <2>1. PICK src, x, n, end : Unpaid(src) /\ SplitRow(src, x, n, end)
    BY <1>9 DEF SplitsRow
  <2>2. Touches(holds, holds', {src, x}) /\ holds[src].state = "held" /\ x \notin DOMAIN holds
    BY <2>1 DEF SplitRow, Unpaid
  <2> QED
    BY <2>2 DEF Touches
<1>10. CASE JoinsRow
  <2>1. PICK src, into : Unpaid(src) /\ Unpaid(into) /\ JoinRow(src, into)
    BY <1>10 DEF JoinsRow
  <2>2. Touches(holds, holds', {src, into}) /\ holds[src].state = "held" /\ holds[into].state = "held"
    BY <2>1 DEF JoinRow, Unpaid
  <2> QED
    BY <2>2 DEF Touches
<1>11. ASSUME NEW L, NEW X, FinishRow(L, X), L \subseteq DueRows PROVE holds'[id] = holds[id]
  <2>1. Touches(holds, holds', L \cup X)
    BY <1>11 DEF FinishRow
  <2>2. \A x \in L \cup X : x \in DOMAIN holds /\ holds[x].state = "held"
    BY <1>11, FinishOpen
  <2> QED
    BY <1>1, <2>1, <2>2
<1>12. CASE CancelRow \/ SweepRow
  <2>1. PICK L, X : FinishRow(L, X) /\ (L = {} \/ L = DueRows)
    BY <1>12 DEF CancelRow, SweepRow
  <2>2. L \subseteq DueRows
    BY <2>1
  <2> QED
    BY <1>11, <2>1, <2>2
<1> QED
  BY <1>2, <1>4, <1>6, <1>7, <1>8, <1>9, <1>10, <1>12 DEF RowStep

LEMMA TransfersSettled ==
    ASSUME Rows(holds, transfers), RowStep, NEW id \in DOMAIN transfers,
           transfers[id].state # "pending"
    PROVE  transfers'[id] = transfers[id]
<1>1. ASSUME transfers' = transfers PROVE transfers'[id] = transfers[id]
  BY <1>1
<1>2. CASE NoRow \/ ReserveRow \/ EscrowRow \/ SettleRow \/ ReleaseRow \/ MarkRow \/ SplitsRow \/ JoinsRow
  BY <1>1, <1>2 DEF NoRow, ReserveRow, EscrowRow, SettleRow, ReleaseRow, MarkRow, SplitsRow,
     JoinsRow, SameTransfers
<1>3. ASSUME NEW x, NEW b, NEW n, NEW state, NEW execute, SendRow(x, b, n, state, execute)
      PROVE  transfers'[id] = transfers[id]
  BY <1>3 DEF SendRow, Touches
<1>4. CASE DoneRow \/ PendRow \/ PaymentRow
  BY <1>3, <1>4 DEF DoneRow, PendRow, PaymentRow, PayRow
<1>5. ASSUME NEW L, NEW X, FinishRow(L, X), L \subseteq DueRows PROVE transfers'[id] = transfers[id]
  <2>1. Touches(transfers, transfers', X)
    BY <1>5 DEF FinishRow
  <2>2. \A x \in X : transfers[x].state = "pending"
    BY <1>5, FinishOpen
  <2> QED
    BY <2>1, <2>2 DEF Touches
<1>6. CASE CancelRow \/ SweepRow
  <2>1. PICK L, X : FinishRow(L, X) /\ (L = {} \/ L = DueRows)
    BY <1>6 DEF CancelRow, SweepRow
  <2>2. L \subseteq DueRows
    BY <2>1
  <2> QED
    BY <1>5, <2>1, <2>2
<1> QED
  BY <1>2, <1>4, <1>6 DEF RowStep


-----------------------------------------------------------------------------
(* The promise to the services engine.                                     *)

\* v2 is v with call c as row.
Changes(v, v2, c, row) == v2 = [v EXCEPT ![c] = row]

LEMMA CallViewOne ==
    ASSUME NEW hs, NEW gs, NEW c \in CallIds, Touches(hs, gs, {c})
    PROVE  Changes(CallView(hs), CallView(gs), c, CallOf(gs[c]))
<1>1. c \in DOMAIN gs /\ \A x \in CallIds \ {c} : /\ x \in DOMAIN gs <=> x \in DOMAIN hs
                                                  /\ x \in DOMAIN hs => gs[x] = hs[x]
  BY DEF Touches
<1>2. PICK v, v2 : v = CallView(hs) /\ v2 = CallView(gs)
  OBVIOUS
<1>3. /\ DOMAIN v = CallIds /\ v2 = [x \in CallIds |-> v2[x]]
      /\ v2[c] = CallOf(gs[c]) /\ \A x \in CallIds \ {c} : v2[x] = v[x]
  BY <1>1, <1>2 DEF CallView
<1>4. v2 = [v EXCEPT ![c] = CallOf(gs[c])]
  BY <1>3
<1> QED
  BY <1>2, <1>4 DEF Changes

LEMMA CallNowIs == CallNow = CallView(holds) /\ CallNow' = CallView(holds')
BY DEF CallNow

CallsSame == CallNow' = CallNow

LEMMA CallsAlone ==
    ASSUME NEW X, Touches(holds, holds', X), \A c \in X : c \notin CallIds
    PROVE  CallsSame
<1>1. \A c \in CallIds : /\ c \in DOMAIN holds' <=> c \in DOMAIN holds
                         /\ c \in DOMAIN holds => holds'[c] = holds[c]
  BY DEF Touches
<1>2. CallView(holds') = CallView(holds)
  BY <1>1 DEF CallView
<1> QED
  BY <1>2, CallNowIs DEF CallsSame

ReserveCall(c, max, end) ==
    /\ CallNow[c].state = "none"
    /\ Changes(CallNow, CallNow', c, [state |-> "held", max |-> max, used |-> 0, end |-> end])
EndCall(c, state, used) ==
    /\ CallNow[c].state = "held"
    /\ Changes(CallNow, CallNow', c, [CallNow[c] EXCEPT !.state = state, !.used = used])
DueCalls == {c \in CallIds : CallNow[c].state = "held" /\ CallNow[c].end <= now}
LapseCalls ==
    CallNow' = [c \in CallIds |->
                  IF c \in DueCalls
                  THEN [CallNow[c] EXCEPT !.state = "expired", !.used = CallNow[c].max]
                  ELSE CallNow[c]]
CallStep ==
    \/ CallsSame
    \/ \E c \in CallIds :
         \/ \E max \in 1..MaxUnits, end \in 0..Horizon : ReserveCall(c, max, end)
         \/ \E used \in 0..MaxUnits : used <= CallNow[c].max /\ EndCall(c, "committed", used)
         \/ EndCall(c, "refunded", 0)
    \/ LapseCalls

LEMMA CallStepIs ==
    ASSUME CallStep
    PROVE  Promise!Next \/ UNCHANGED CallNow
<1>1. ASSUME NEW c \in CallIds, NEW max \in 1..MaxUnits, NEW end \in 0..Horizon,
             ReserveCall(c, max, end)
      PROVE  Promise!Reserve(c, max, end)
  BY <1>1 DEF ReserveCall, Changes, CallNow, CallView, CallOf, NoCall, Promise!Reserve
<1>2. ASSUME NEW c \in CallIds, NEW used \in 0..MaxUnits, used <= CallNow[c].max,
             EndCall(c, "committed", used)
      PROVE  Promise!Commit(c, used)
  BY <1>2 DEF EndCall, Changes, CallNow, CallView, CallOf, NoCall, Promise!Commit, Promise!Held,
     Promise!Ended
<1>3. ASSUME NEW c \in CallIds, EndCall(c, "refunded", 0) PROVE Promise!Refund(c)
  BY <1>3 DEF EndCall, Changes, CallNow, CallView, CallOf, NoCall, Promise!Refund, Promise!Held,
     Promise!Ended
<1>4. ASSUME LapseCalls PROVE Promise!Lapse
  BY <1>4 DEF LapseCalls, DueCalls, CallNow, CallView, CallOf, NoCall, Promise!Lapse, Promise!Due,
     Promise!Held, Promise!Ended
<1> QED
  BY <1>1, <1>2, <1>3, <1>4 DEF CallStep, CallsSame, Promise!Next

CallEnds(h, h2, state, used) == CallOf(h2) = [CallOf(h) EXCEPT !.state = state, !.used = used]

LEMMA CallOfEnds ==
    ASSUME NEW h, NEW h2, NEW state, NEW used, h2.state = state, h2.used = used, h2.max = h.max,
           h2.expires = h.expires
    PROVE  CallEnds(h, h2, state, used)
<1>1. PICK r, e : r = CallOf(h) /\ e = [r EXCEPT !.state = state]
  OBVIOUS
<1>2. e = [state |-> state, max |-> h.max, used |-> h.used, end |-> h.expires]
  BY SMT, <1>1 DEF CallOf
<1>3. [e EXCEPT !.used = used] = [state |-> state, max |-> h.max, used |-> used, end |-> h.expires]
  BY SMT, <1>2
<1>4. [r EXCEPT !.state = state, !.used = used] = [e EXCEPT !.used = used]
  BY <1>1
<1>5. CallOf(h2) = [state |-> state, max |-> h.max, used |-> used, end |-> h.expires]
  BY DEF CallOf
<1> QED
  BY <1>1, <1>3, <1>4, <1>5 DEF CallEnds

LEMMA EscrowNoCall ==
    ASSUME NEW id, id.kind # "service"
    PROVE  id \notin CallIds
BY SMT DEF CallIds

LEMMA ServiceCall ==
    ASSUME Rows(holds, transfers), NEW id, IsService(id), NEW state, NEW used,
           EndRow(id, state, used), id \in CallIds
    PROVE  EndCall(id, state, used) /\ CallNow[id].max = holds[id].max
<1>1. /\ id \in DOMAIN holds /\ holds[id].state = "held" /\ Touches(holds, holds', {id})
      /\ Ended(holds[id], holds'[id], state) /\ holds'[id].used = used
  BY DEF EndRow, EndsAs
<1>2. CallNow[id] = CallOf(holds[id])
  BY <1>1 DEF CallNow, CallView
<1>3. CallOf(holds'[id]) = [CallOf(holds[id]) EXCEPT !.state = state, !.used = used]
  <2>1. PICK h, h2 : h = holds[id] /\ h2 = holds'[id]
    OBVIOUS
  <2>2. h2.state = state /\ h2.used = used /\ h2.max = h.max /\ h2.expires = h.expires
    BY <1>1, <2>1 DEF Ended
  <2>3. CallEnds(h, h2, state, used)
    BY <2>2, CallOfEnds
  <2> QED
    BY <2>1, <2>3 DEF CallEnds
<1>4. Changes(CallNow, CallNow', id, CallOf(holds'[id]))
  <2>1. Changes(CallView(holds), CallView(holds'), id, CallOf(holds'[id]))
    BY <1>1, CallViewOne
  <2> QED
    BY <2>1, CallNowIs
<1>5. CallNow[id].state = "held" /\ CallNow[id].max = holds[id].max
  BY SMT, <1>1, <1>2 DEF CallOf
<1> QED
  BY <1>2, <1>3, <1>4, <1>5 DEF EndCall

LEMMA ReserveCalls ==
    ASSUME ReserveRow
    PROVE  CallStep
<1>1. PICK a \in Accounts, key \in CallKeys \cup DepositKeys, n \in Units, end \in 0..Horizon :
          OpenRow(Id(a, "service", key), ServiceOf(key), n, end)
  BY DEF ReserveRow
<1>2. PICK id : id = Id(a, "service", key)
  OBVIOUS
<1>3. /\ Touches(holds, holds', {id}) /\ id \notin DOMAIN holds
      /\ IsNew(holds'[id], ServiceOf(key), n, end)
  BY <1>1, <1>2 DEF OpenRow
<1>4. CASE id \notin CallIds
  <2>1. PICK X : X = {id}
    OBVIOUS
  <2>2. Touches(holds, holds', X) /\ \A c \in X : c \notin CallIds
    BY <1>3, <1>4, <2>1
  <2>3. CallsSame
    BY <2>2, CallsAlone
  <2> QED
    BY <2>3 DEF CallStep
<1>5. CASE id \in CallIds
  <2>1. CallNow[id] = NoCall
    BY <1>3, <1>5 DEF CallNow, CallView
  <2>2. CallOf(holds'[id]) = [state |-> "held", max |-> n, used |-> 0, end |-> end]
    BY <1>3 DEF CallOf, IsNew
  <2>3. Changes(CallNow, CallNow', id, CallOf(holds'[id]))
    <3>1. Changes(CallView(holds), CallView(holds'), id, CallOf(holds'[id]))
      BY <1>3, <1>5, CallViewOne
    <3> QED
      BY <3>1, CallNowIs
  <2>4. ReserveCall(id, n, end)
    BY SMT, <2>1, <2>2, <2>3 DEF ReserveCall, NoCall
  <2> QED
    BY <1>5, <2>4 DEF CallStep, Units
<1> QED
  BY <1>4, <1>5

LEMMA SettleCalls ==
    ASSUME Rows(holds, transfers), SettleRow
    PROVE  CallStep
<1>1. PICK id : /\ IsService(id)
                /\ \/ \E used \in 0..MaxUnits : used <= holds[id].max /\ EndRow(id, "committed", used)
                   \/ EndRow(id, "refunded", 0)
  BY DEF SettleRow
<1>2. CASE id \notin CallIds
  <2>1. PICK X : X = {id}
    OBVIOUS
  <2>2. Touches(holds, holds', X) /\ \A c \in X : c \notin CallIds
    BY <1>1, <1>2, <2>1 DEF EndRow, EndsAs
  <2>3. CallsSame
    BY <2>2, CallsAlone
  <2> QED
    BY <2>3 DEF CallStep
<1>3. CASE id \in CallIds
  <2>1. ASSUME NEW used \in 0..MaxUnits, used <= holds[id].max, EndRow(id, "committed", used)
        PROVE  CallStep
    <3>1. EndCall(id, "committed", used) /\ CallNow[id].max = holds[id].max
      BY <1>1, <1>3, <2>1, ServiceCall
    <3> QED
      BY <1>3, <2>1, <3>1 DEF CallStep
  <2>2. CASE EndRow(id, "refunded", 0)
    <3>1. EndCall(id, "refunded", 0)
      BY <1>1, <1>3, <2>2, ServiceCall
    <3> QED
      BY <1>3, <3>1 DEF CallStep
  <2> QED
    BY <1>1, <2>1, <2>2
<1> QED
  BY <1>2, <1>3

LEMMA MarkCalls ==
    ASSUME Rows(holds, transfers), MarkRow
    PROVE  CallsSame
<1>1. PICK id : ReimburseRow(id)
  BY DEF MarkRow
<1>2. id \in DOMAIN holds /\ Touches(holds, holds', {id}) /\ holds'[id] = Marked(holds[id])
  BY <1>1 DEF ReimburseRow, IsService
<1>3. IsHold(holds[id])
  BY <1>2 DEF Rows, HoldsOK
<1>4. CallOf(holds'[id]) = CallOf(holds[id])
  BY SMT, <1>2, <1>3, MarkedIs DEF CallOf
<1>5. \A c \in CallIds : /\ c \in DOMAIN holds' <=> c \in DOMAIN holds
                         /\ c \in DOMAIN holds => CallOf(holds'[c]) = CallOf(holds[c])
  BY <1>2, <1>4 DEF Touches
<1> QED
  BY <1>5 DEF CallsSame, CallNow, CallView

LEMMA SweepCalls ==
    ASSUME Rows(holds, transfers), SweepRow
    PROVE  LapseCalls
<1>1. PICK X : FinishRow(DueRows, X)
  BY DEF SweepRow
<1>2. PICK L : L = DueRows
  OBVIOUS
<1>3. /\ L \subseteq DOMAIN holds /\ X \subseteq DOMAIN transfers /\ Touches(holds, holds', L \cup X)
      /\ \A id \in L : Lapsed(holds[id], holds'[id])
      /\ X \subseteq DOMAIN holds
  BY <1>1, <1>2 DEF FinishRow
<1>4. DOMAIN holds' = DOMAIN holds
  BY <1>3 DEF Touches
<1>5. ASSUME NEW c \in CallIds
      PROVE  CallNow'[c] = IF c \in DueCalls
                           THEN [CallNow[c] EXCEPT !.state = "expired", !.used = CallNow[c].max]
                           ELSE CallNow[c]
  <2>1. /\ CallNow[c] = IF c \in DOMAIN holds THEN CallOf(holds[c]) ELSE NoCall
        /\ CallNow'[c] = IF c \in DOMAIN holds THEN CallOf(holds'[c]) ELSE NoCall
    BY <1>4 DEF CallNow, CallView
  <2>2. CASE c \notin DOMAIN holds
    <3>1. NoCall.state # "held"
      BY SMT DEF NoCall
    <3>2. c \notin DueCalls
      BY <2>1, <2>2, <3>1 DEF DueCalls
    <3> QED
      BY <2>1, <2>2, <3>2
  <2>3. CASE c \in DOMAIN holds
    <3>1. c.kind = "service"
      BY SMT DEF CallIds
    <3>2. holds[c].service = "call" /\ holds[c].service # "ledger"
      BY SMT, <2>3 DEF Rows, Linked, LinkedAt
    <3>3. c \notin X
      BY <1>3, <3>1, ServiceUnsent
    <3>4. c \in L <=> c \in DueCalls
      BY SMT, <1>2, <2>1, <2>3, <3>2 DEF DueRows, DueCalls, CallOf
    <3>5. CASE c \notin L
      <4>1. holds'[c] = holds[c]
        BY <1>3, <2>3, <3>3, <3>5 DEF Touches
      <4> QED
        BY <2>1, <2>3, <3>4, <3>5, <4>1
    <3>6. CASE c \in L
      <4>1. holds[c].service # "deposit"
        BY SMT, <3>2
      <4>2. Ended(holds[c], holds'[c], "expired") /\ holds'[c].used = holds[c].max
        BY <1>3, <3>6, <4>1 DEF Lapsed
      <4>3. CallOf(holds'[c]) = [CallOf(holds[c]) EXCEPT !.state = "expired", !.used = CallOf(holds[c]).max]
        <5>1. PICK h, h2 : h = holds[c] /\ h2 = holds'[c]
          OBVIOUS
        <5>2. /\ h2.state = "expired" /\ h2.used = h.max /\ h2.max = h.max /\ h2.expires = h.expires
              /\ CallOf(h).max = h.max
          BY <4>2, <5>1 DEF Ended, CallOf
        <5>3. CallEnds(h, h2, "expired", h.max)
          BY <5>2, CallOfEnds
        <5> QED
          BY <5>1, <5>2, <5>3 DEF CallEnds
      <4> QED
        BY <2>1, <2>3, <3>4, <3>6, <4>3
    <3> QED
      BY <3>5, <3>6
  <2> QED
    BY <2>2, <2>3
<1>6. CallNow' = [c \in CallIds |-> CallNow'[c]]
  BY DEF CallNow, CallView
<1> QED
  BY <1>5, <1>6 DEF LapseCalls

\* A step that leaves the service holds alone.
LEMMA OtherCalls ==
    ASSUME Rows(holds, transfers),
           NoRow \/ EscrowRow \/ ReleaseRow \/ DoneRow \/ PendRow \/ PaymentRow \/ SplitsRow
             \/ JoinsRow \/ CancelRow
    PROVE  CallsSame
<1>0. \A id \in DOMAIN transfers : id.kind # "service"
  BY DEF Rows, Linked, LinkedAt
<1>1. ASSUME NEW X, Touches(holds, holds', X), \A id \in X : id.kind # "service"
      PROVE  CallsSame
  <2>1. \A id \in X : id \notin CallIds
    BY <1>1, EscrowNoCall
  <2> QED
    BY <1>1, <2>1, CallsAlone
<1>2. ASSUME NEW x, NEW y, Touches(holds, holds', {x, y}), x.kind # "service", y.kind # "service"
      PROVE  CallsSame
  <2>1. PICK X : X = {x, y}
    OBVIOUS
  <2>2. Touches(holds, holds', X) /\ \A id \in X : id.kind # "service"
    BY <1>2, <2>1
  <2> QED
    BY <1>1, <2>2
<1>3. ASSUME NEW x, Touches(holds, holds', {x}), x.kind # "service"
      PROVE  CallsSame
  <2>1. PICK X : X = {x}
    OBVIOUS
  <2>2. Touches(holds, holds', X) /\ \A id \in X : id.kind # "service"
    BY <1>3, <2>1
  <2> QED
    BY <1>1, <2>2
<1>4. CASE NoRow \/ DoneRow
  BY <1>4, CallNowIs DEF NoRow, DoneRow, CallsSame
<1>5. \A a, key : /\ Id(a, "escrow", key).kind # "service"
                  /\ Id(a, "transfer", key).kind # "service"
  BY SMT DEF Id
<1>6. CASE EscrowRow \/ PendRow
  <2>1. PICK x : Touches(holds, holds', {x}) /\ x.kind # "service"
    BY <1>5, <1>6 DEF EscrowRow, PendRow, OpenRow
  <2> QED
    BY <1>3, <2>1
<1>7. \A id : Unpaid(id) => id.kind # "service"
  BY SMT DEF Unpaid
<1>8. CASE ReleaseRow \/ PaymentRow
  <2>1. PICK x : Touches(holds, holds', {x}) /\ Unpaid(x)
    BY <1>8 DEF ReleaseRow, EndRow, EndsAs, PaymentRow, PayRow, Delays
  <2> QED
    BY <1>3, <1>7, <2>1
<1>9. CASE SplitsRow \/ JoinsRow
  <2>1. PICK x, y : Touches(holds, holds', {x, y}) /\ x.kind # "service" /\ y.kind # "service"
    BY <1>5, <1>7, <1>9 DEF SplitsRow, SplitRow, JoinsRow, JoinRow
  <2> QED
    BY <1>2, <2>1
<1>10. CASE CancelRow
  <2>1. PICK id : FinishRow({}, {id})
    BY <1>10 DEF CancelRow
  <2>2. Touches(holds, holds', {} \cup {id}) /\ id \in DOMAIN transfers
    BY <2>1 DEF FinishRow
  <2>3. \A i \in {} \cup {id} : i.kind # "service"
    BY <1>0, <2>2
  <2> QED
    BY <1>1, <2>2, <2>3
<1> QED
  BY <1>4, <1>6, <1>8, <1>9, <1>10


-----------------------------------------------------------------------------
(* The promise to the board.                                               *)

\* v2 is v with x as row, y as row2.
ChangesTwo(v, v2, x, row, y, row2) == v2 = [v EXCEPT ![x] = row, ![y] = row2]

EscrowKept(hs, ts, gs, us, id) == EscrowOf(gs, us, id) = EscrowOf(hs, ts, id)

LEMMA EscrowAt ==
    ASSUME NEW hs, NEW ts, NEW gs, NEW us, NEW X, NEW Y, Touches(hs, gs, X), Touches(ts, us, Y),
           NEW id, id \notin X, id \notin Y
    PROVE  EscrowKept(hs, ts, gs, us, id)
<1>1. /\ id \in DOMAIN gs <=> id \in DOMAIN hs
      /\ id \in DOMAIN us <=> id \in DOMAIN ts
      /\ id \in DOMAIN hs => gs[id] = hs[id]
      /\ id \in DOMAIN ts => us[id] = ts[id]
  BY DEF Touches
<1>2. CASE id \notin DOMAIN hs
  BY <1>1, <1>2 DEF EscrowOf, EscrowKept
<1>3. CASE id \in DOMAIN hs /\ id \in DOMAIN ts
  BY <1>1, <1>3 DEF EscrowOf, EscrowKept
<1>4. CASE id \in DOMAIN hs /\ id \notin DOMAIN ts
  BY <1>1, <1>4 DEF EscrowOf, EscrowKept
<1> QED
  BY <1>2, <1>3, <1>4

LEMMA EscrowViewOne ==
    ASSUME NEW hs, NEW ts, NEW gs, NEW us, NEW X, NEW Y, Touches(hs, gs, X), Touches(ts, us, Y),
           NEW k \in EscrowIds, \A id \in X \cup Y : id = k
    PROVE  Changes(EscrowView(hs, ts), EscrowView(gs, us), k, EscrowOf(gs, us, k))
<1>0. \A id \in EscrowIds \ {k} : id \notin X /\ id \notin Y
  OBVIOUS
<1>1. \A id \in EscrowIds \ {k} : EscrowKept(hs, ts, gs, us, id)
  BY <1>0, EscrowAt
<1>2. PICK v, v2 : v = EscrowView(hs, ts) /\ v2 = EscrowView(gs, us)
  OBVIOUS
<1>3. /\ DOMAIN v = EscrowIds /\ v2 = [x \in EscrowIds |-> v2[x]]
      /\ v2[k] = EscrowOf(gs, us, k) /\ \A x \in EscrowIds \ {k} : v2[x] = v[x]
  BY <1>1, <1>2 DEF EscrowView, EscrowKept
<1>4. v2 = [v EXCEPT ![k] = EscrowOf(gs, us, k)]
  BY <1>3
<1> QED
  BY <1>2, <1>4 DEF Changes

LEMMA EscrowViewTwo ==
    ASSUME NEW hs, NEW ts, NEW gs, NEW us, NEW X, Touches(hs, gs, X), Touches(ts, us, {}),
           NEW k \in EscrowIds, NEW j \in EscrowIds, k # j, \A id \in X : id \in {k, j}
    PROVE  ChangesTwo(EscrowView(hs, ts), EscrowView(gs, us), k, EscrowOf(gs, us, k),
                      j, EscrowOf(gs, us, j))
<1>0. PICK Y : Y = {} /\ Touches(ts, us, Y)
  OBVIOUS
<1>1. \A id \in EscrowIds \ {k, j} : EscrowKept(hs, ts, gs, us, id)
  <2>1. \A id \in EscrowIds \ {k, j} : id \notin X /\ id \notin Y
    BY <1>0
  <2> QED
    BY <1>0, <2>1, EscrowAt
<1>2. PICK v, v2 : v = EscrowView(hs, ts) /\ v2 = EscrowView(gs, us)
  OBVIOUS
<1>3. /\ DOMAIN v = EscrowIds /\ v2 = [x \in EscrowIds |-> v2[x]]
      /\ v2[k] = EscrowOf(gs, us, k) /\ v2[j] = EscrowOf(gs, us, j)
      /\ \A x \in EscrowIds \ {k, j} : v2[x] = v[x]
  BY <1>1, <1>2 DEF EscrowView, EscrowKept
<1>4. PICK p, q : p = EscrowOf(gs, us, k) /\ q = EscrowOf(gs, us, j)
  OBVIOUS
<1>5. v2 = [v EXCEPT ![k] = p, ![j] = q]
  BY <1>3, <1>4
<1> QED
  BY <1>2, <1>4, <1>5 DEF ChangesTwo

OpenEscrow(k, n) ==
    /\ EscrowNow[k].state = "none"
    /\ Changes(EscrowNow, EscrowNow', k, [state |-> "held", units |-> n, to |-> {}])
PayEscrow(k, b, state) ==
    /\ EscrowNow[k].state = "held"
    /\ Changes(EscrowNow, EscrowNow', k, [EscrowNow[k] EXCEPT !.state = state, !.to = {b}])
ReleaseEscrow(k) ==
    /\ EscrowNow[k].state = "held"
    /\ Changes(EscrowNow, EscrowNow', k, [EscrowNow[k] EXCEPT !.state = "released"])
EndEscrows(D, C) ==
    /\ \A k \in D \cup C : EscrowNow[k].state = "pending"
    /\ D \cap C = {}
    /\ EscrowNow' = [k \in EscrowIds |->
                       IF k \in C THEN [EscrowNow[k] EXCEPT !.state = "cancelled"]
                       ELSE IF k \in D THEN [EscrowNow[k] EXCEPT !.state = "done"]
                       ELSE EscrowNow[k]]
SplitEscrow(src, k, n) ==
    /\ EscrowNow[src].state = "held" /\ EscrowNow[k].state = "none" /\ src # k
    /\ n <= EscrowNow[src].units
    /\ ChangesTwo(EscrowNow, EscrowNow', k, [state |-> "held", units |-> n, to |-> {}],
                  src, [EscrowNow[src] EXCEPT !.units = @ - n])
JoinEscrow(src, into) ==
    /\ EscrowNow[src].state = "held" /\ EscrowNow[into].state = "held" /\ src # into
    /\ ChangesTwo(EscrowNow, EscrowNow',
                  into, [EscrowNow[into] EXCEPT !.units = EscrowNow[into].units + EscrowNow[src].units],
                  src, [EscrowNow[src] EXCEPT !.state = "released", !.units = 0])

EscrowsSame == EscrowNow' = EscrowNow
EscrowStep ==
    \/ EscrowsSame
    \/ \E k \in EscrowIds, n \in 1..MaxUnits : OpenEscrow(k, n)
    \/ \E k \in EscrowIds, b \in Accounts : PayEscrow(k, b, "pending") \/ PayEscrow(k, b, "done")
    \/ \E k \in EscrowIds : ReleaseEscrow(k)
    \/ \E k, src \in EscrowIds, n \in 1..MaxUnits : SplitEscrow(src, k, n)
    \/ \E k, into \in EscrowIds : JoinEscrow(k, into)
    \/ \E D, C \in SUBSET EscrowIds : EndEscrows(D, C)

LEMMA NowIs ==
    /\ EscrowNow = [id \in EscrowIds |-> EscrowNow[id]] /\ DOMAIN EscrowNow = EscrowIds
    /\ EscrowNow' = [id \in EscrowIds |-> EscrowNow'[id]]
    /\ \A id \in EscrowIds : EscrowNow[id] = EscrowOf(holds, transfers, id)
    /\ \A id \in EscrowIds : EscrowNow'[id] = EscrowOf(holds', transfers', id)
BY DEF EscrowNow, EscrowView

LEMMA EscrowStepIs ==
    ASSUME EscrowStep
    PROVE  EscrowPromise!Next \/ UNCHANGED EscrowNow
<1>0. DOMAIN EscrowNow = EscrowIds
  BY NowIs
<1>1. ASSUME NEW k \in EscrowIds, NEW n \in 1..MaxUnits, OpenEscrow(k, n)
      PROVE  EscrowPromise!Open(k, n)
  BY <1>0, <1>1 DEF OpenEscrow, Changes, EscrowPromise!Open, EscrowPromise!In,
     EscrowPromise!opened
<1>2. ASSUME NEW k \in EscrowIds, NEW b \in Accounts, PayEscrow(k, b, "pending")
      PROVE  EscrowPromise!Pay(k, b, TRUE)
  BY <1>0, <1>2 DEF PayEscrow, Changes, EscrowPromise!Pay, EscrowPromise!Held, EscrowPromise!In,
     EscrowPromise!paid
<1>3. ASSUME NEW k \in EscrowIds, NEW b \in Accounts, PayEscrow(k, b, "done")
      PROVE  EscrowPromise!Pay(k, b, FALSE)
  BY <1>0, <1>3 DEF PayEscrow, Changes, EscrowPromise!Pay, EscrowPromise!Held, EscrowPromise!In,
     EscrowPromise!paid
<1>4. ASSUME NEW k \in EscrowIds, ReleaseEscrow(k)
      PROVE  EscrowPromise!Release(k)
  <2>1. PICK v, v2 : v = EscrowNow /\ v2 = EscrowNow'
    OBVIOUS
  <2>2. v2 = [x \in DOMAIN v |-> IF x \in {k} THEN [v[x] EXCEPT !.state = "released"] ELSE v[x]]
    BY <1>0, <1>4, <2>1 DEF ReleaseEscrow, Changes
  <2>3. EscrowPromise!ended(v, {k}, "released") = v2
    BY <2>2 DEF EscrowPromise!ended
  <2> QED
    BY <1>0, <1>4, <2>1, <2>3 DEF ReleaseEscrow, EscrowPromise!Release, EscrowPromise!Held,
       EscrowPromise!In
<1>5. ASSUME NEW src \in EscrowIds, NEW k \in EscrowIds, NEW n \in 1..MaxUnits,
             SplitEscrow(src, k, n)
      PROVE  EscrowPromise!Split(src, k, n)
  <2>1. PICK v, v2, row : /\ v = EscrowNow /\ v2 = EscrowNow'
                          /\ row = [state |-> "held", units |-> n, to |-> {}]
    OBVIOUS
  <2>2. /\ v2 = [v EXCEPT ![k] = row, ![src] = [v[src] EXCEPT !.units = @ - n]]
        /\ DOMAIN v = EscrowIds /\ src # k
    BY <1>0, <1>5, <2>1 DEF SplitEscrow, ChangesTwo
  <2>3. v2 = [[v EXCEPT ![k] = row] EXCEPT ![src].units = @ - n]
    BY <2>2
  <2>4. EscrowPromise!split(v, src, k, n) = v2
    BY <2>1, <2>3 DEF EscrowPromise!split, EscrowPromise!opened
  <2> QED
    BY <1>0, <1>5, <2>1, <2>4 DEF SplitEscrow, EscrowPromise!Split, EscrowPromise!Held,
       EscrowPromise!In
<1>6. ASSUME NEW src \in EscrowIds, NEW into \in EscrowIds, JoinEscrow(src, into)
      PROVE  EscrowPromise!Join(src, into)
  <2>1. PICK v, v2 : v = EscrowNow /\ v2 = EscrowNow'
    OBVIOUS
  <2>2. /\ v2 = [v EXCEPT ![into] = [v[into] EXCEPT !.units = v[into].units + v[src].units],
                          ![src] = [v[src] EXCEPT !.state = "released", !.units = 0]]
        /\ DOMAIN v = EscrowIds /\ src # into
    BY <1>0, <1>6, <2>1 DEF JoinEscrow, ChangesTwo
  <2>3. EscrowPromise!joined(v, src, into) = v2
    <3>1. PICK e : e = [v EXCEPT ![into].units = @ + v[src].units]
      OBVIOUS
    <3>2. e[src] = v[src]
      BY <2>2, <3>1
    <3>3. v2 = [e EXCEPT ![src] = [v[src] EXCEPT !.state = "released", !.units = 0]]
      BY <2>2, <3>1
    <3>4. v2 = [e EXCEPT ![src] = [e[src] EXCEPT !.state = "released", !.units = 0]]
      BY <3>2, <3>3
    <3> QED
      BY <3>1, <3>2, <3>4 DEF EscrowPromise!joined
  <2> QED
    BY <1>0, <1>6, <2>1, <2>3 DEF JoinEscrow, EscrowPromise!Join, EscrowPromise!Held,
       EscrowPromise!In
<1>7. ASSUME NEW D \in SUBSET EscrowIds, NEW C \in SUBSET EscrowIds, EndEscrows(D, C)
      PROVE  EscrowPromise!End(D, C)
  <2>1. PICK v, v2 : v = EscrowNow /\ v2 = EscrowNow'
    OBVIOUS
  <2>2. /\ v2 = [k \in EscrowIds |-> IF k \in C THEN [v[k] EXCEPT !.state = "cancelled"]
                                     ELSE IF k \in D THEN [v[k] EXCEPT !.state = "done"]
                                     ELSE v[k]]
        /\ DOMAIN v = EscrowIds /\ D \cap C = {}
        /\ \A k \in D \cup C : v[k].state = "pending"
    BY <1>0, <1>7, <2>1 DEF EndEscrows
  <2>3. PICK m : m = [k \in DOMAIN v |-> IF k \in D THEN [v[k] EXCEPT !.state = "done"] ELSE v[k]]
    OBVIOUS
  <2>4. v2 = [k \in DOMAIN m |-> IF k \in C THEN [m[k] EXCEPT !.state = "cancelled"] ELSE m[k]]
    BY <2>2, <2>3
  <2>5. EscrowPromise!ended(EscrowPromise!ended(v, D, "done"), C, "cancelled") = v2
    BY <2>3, <2>4 DEF EscrowPromise!ended
  <2> QED
    BY <1>0, <2>1, <2>2, <2>5 DEF EscrowPromise!End, EscrowPromise!In
<1> QED
  BY <1>1, <1>2, <1>3, <1>4, <1>5, <1>6, <1>7 DEF EscrowStep, EscrowsSame, EscrowPromise!Next

LEMMA KeyOfEscrow ==
    ASSUME NEW id \in Ids
    PROVE  id \in EscrowIds <=> id.kind = "escrow"
BY SMT DEF Ids, EscrowIds

LEMMA EscrowsAlone ==
    ASSUME NEW X, NEW Y, Touches(holds, holds', X), Touches(transfers, transfers', Y),
           \A id \in X \cup Y : id \notin EscrowIds
    PROVE  EscrowsSame
<1>1. PICK hs, gs, ts, us : hs = holds /\ gs = holds' /\ ts = transfers /\ us = transfers'
  OBVIOUS
<1>2. \A id \in EscrowIds : id \notin X /\ id \notin Y
  OBVIOUS
<1>3. \A id \in EscrowIds : EscrowKept(hs, ts, gs, us, id)
  BY <1>1, <1>2, EscrowAt
<1>4. EscrowView(gs, us) = EscrowView(hs, ts)
  BY <1>3 DEF EscrowView, EscrowKept
<1> QED
  BY <1>1, <1>4 DEF EscrowsSame, EscrowNow

LEMMA EscrowsAloneAt ==
    ASSUME NEW X, NEW Y, Touches(holds, holds', X), Touches(transfers, transfers', Y),
           \A id \in X \cup Y : id \in Ids /\ id.kind # "escrow"
    PROVE  EscrowsSame
<1>1. \A id \in X \cup Y : id \notin EscrowIds
  BY KeyOfEscrow
<1> QED
  BY <1>1, EscrowsAlone

\* A step that leaves the escrows alone.
LEMMA OtherEscrows ==
    ASSUME Rows(holds, transfers), Table(holds), Table(transfers),
           NoRow \/ ReserveRow \/ SettleRow \/ DoneRow \/ PendRow
    PROVE  EscrowsSame
<1>0. \A f : Table(f) => Touches(f, f, {})
  BY DEF Touches
<1>1. "escrow" # "service" /\ "transfer" # "escrow"
  BY SMT
<1>2. \A a, key : /\ Id(a, "service", key).kind # "escrow"
                  /\ Id(a, "transfer", key).kind # "escrow"
  BY SMT DEF Id
<1>3. CASE NoRow
  BY <1>3 DEF NoRow, EscrowNow, EscrowsSame
<1>4. CASE ReserveRow \/ SettleRow
  <2>1. PICK id : SameTransfers /\ Touches(holds, holds', {id}) /\ id \in Ids /\ id.kind # "escrow"
    <3>1. CASE ReserveRow
      <4>1. PICK a \in Accounts, key \in CallKeys \cup DepositKeys, n \in Units, end \in 0..Horizon :
                OpenRow(Id(a, "service", key), ServiceOf(key), n, end) /\ SameTransfers
        BY <3>1 DEF ReserveRow
      <4>2. PICK id : id = Id(a, "service", key)
        OBVIOUS
      <4>3. Touches(holds, holds', {id}) /\ id \in Ids
        BY <4>1, <4>2 DEF OpenRow
      <4>4. id.kind # "escrow"
        BY <1>2, <4>2
      <4> QED
        BY <4>1, <4>3, <4>4
    <3>2. CASE SettleRow
      BY <1>1, <3>2 DEF SettleRow, EndRow, EndsAs, IsService, Rows, HoldsOK
    <3> QED
      BY <1>4, <3>1, <3>2
  <2>2. PICK X, Y : X = {id} /\ Y = {}
    OBVIOUS
  <2>3. Touches(transfers, transfers', Y) /\ Touches(holds, holds', X)
    BY <1>0, <2>1, <2>2 DEF SameTransfers
  <2>4. \A x \in X \cup Y : x \in Ids /\ x.kind # "escrow"
    BY <2>1, <2>2
  <2> QED
    BY <2>3, <2>4, EscrowsAloneAt
<1>5. CASE DoneRow \/ PendRow
  <2>1. PICK id : /\ Touches(transfers, transfers', {id}) /\ id \in Ids /\ id.kind # "escrow"
                  /\ holds' = holds \/ Touches(holds, holds', {id})
    <3>1. CASE DoneRow
      BY <1>2, <3>1 DEF DoneRow, SendRow
    <3>2. CASE PendRow
      <4>1. PICK a \in Accounts, b \in Accounts, key \in TransferKeys, n \in Units, end \in {now + TransferDelay} :
                /\ SendRow(Id(a, "transfer", key), b, n, "pending", end)
                /\ OpenRow(Id(a, "transfer", key), "ledger", n, end)
        BY <3>2 DEF PendRow
      <4>2. PICK id : id = Id(a, "transfer", key)
        OBVIOUS
      <4> QED
        BY <1>2, <4>1, <4>2 DEF SendRow, OpenRow
    <3> QED
      BY <1>5, <3>1, <3>2
  <2>2. PICK X, Y : Y = {id} /\ Touches(holds, holds', X) /\ X \subseteq {id}
    <3>1. CASE holds' = holds
      <4>1. Touches(holds, holds', {}) /\ {} \subseteq {id}
        BY <1>0, <3>1
      <4>2. PICK X, Y : X = {} /\ Y = {id}
        OBVIOUS
      <4>3. Touches(holds, holds', X) /\ X \subseteq {id}
        BY <4>1, <4>2
      <4> QED
        BY <4>2, <4>3
    <3>2. CASE Touches(holds, holds', {id})
      BY <3>2
    <3> QED
      BY <2>1, <3>1, <3>2
  <2>3. Touches(transfers, transfers', Y)
    BY <2>1, <2>2
  <2>4. \A x \in X \cup Y : x \in Ids /\ x.kind # "escrow"
    BY <2>1, <2>2
  <2> QED
    BY <2>2, <2>3, <2>4, EscrowsAloneAt
<1> QED
  BY <1>3, <1>4, <1>5

\* The board's view of an escrow.
Shows(row, state, units, to) == row = [state |-> state, units |-> units, to |-> to]

LEMMA ShowsOpen ==
    ASSUME NEW hs, NEW ts, NEW id, id \in DOMAIN hs, id \notin DOMAIN ts, hs[id].state = "held"
    PROVE  Shows(EscrowOf(hs, ts, id), "held", hs[id].max, {})
BY DEF EscrowOf, Shows

LEMMA ShowsOver ==
    ASSUME NEW hs, NEW ts, NEW id, id \in DOMAIN hs, id \notin DOMAIN ts, hs[id].state = "refunded"
    PROVE  Shows(EscrowOf(hs, ts, id), "released", hs[id].max, {})
<1>1. "refunded" # "held"
  BY SMT
<1> QED
  BY <1>1 DEF EscrowOf, Shows

LEMMA ShowsSent ==
    ASSUME NEW hs, NEW ts, NEW id, id \in DOMAIN hs, id \in DOMAIN ts
    PROVE  Shows(EscrowOf(hs, ts, id), ts[id].state, hs[id].max, {ts[id].to})
BY DEF EscrowOf, Shows

LEMMA UnpaidEscrow ==
    ASSUME Rows(holds, transfers), NEW id, Unpaid(id)
    PROVE  /\ id \in EscrowIds /\ id \in DOMAIN holds /\ id \notin DOMAIN transfers
           /\ Shows(EscrowNow[id], "held", holds[id].max, {})
<1>1. id \in DOMAIN holds /\ id.kind = "escrow" /\ holds[id].state = "held" /\ id \notin DOMAIN transfers
  BY DEF Unpaid
<1>2. id \in EscrowIds
  BY <1>1, KeyOfEscrow DEF Rows, HoldsOK
<1>3. Shows(EscrowOf(holds, transfers, id), "held", holds[id].max, {})
  BY <1>1, ShowsOpen
<1> QED
  BY <1>1, <1>2, <1>3 DEF EscrowNow, EscrowView

LEMMA EscrowNew ==
    ASSUME Rows(holds, transfers), NEW id \in EscrowIds, id \notin DOMAIN holds
    PROVE  EscrowNow[id].state = "none" /\ id \notin DOMAIN transfers
<1>1. id.kind = "escrow"
  BY SMT DEF EscrowIds
<1>2. id \notin DOMAIN transfers
  BY <1>1 DEF Rows, Linked, LinkedAt
<1>3. EscrowNow[id] = NoEscrowRow
  BY DEF EscrowNow, EscrowView, EscrowOf
<1>4. NoEscrowRow.state = "none"
  BY SMT DEF NoEscrowRow
<1> QED
  BY <1>2, <1>3, <1>4

LEMMA ShowsFields ==
    ASSUME NEW r, NEW state, NEW n, NEW T, Shows(r, state, n, T)
    PROVE  r.state = state /\ r.units = n /\ r.to = T
BY SMT DEF Shows

\* What it shows after a column or two of it change.
NewState(r, q, s) == q = [r EXCEPT !.state = s]
NewUnits(r, q, n) == q = [r EXCEPT !.units = n]
NewStateTo(r, q, s, T) == q = [r EXCEPT !.state = s, !.to = T]
NewStateUnits(r, q, s, n) == q = [r EXCEPT !.state = s, !.units = n]

LEMMA ShowsState ==
    ASSUME NEW r, NEW q, NEW s, NEW n, NEW T, NEW s2, Shows(r, s, n, T), Shows(q, s2, n, T)
    PROVE  NewState(r, q, s2)
BY SMT DEF Shows, NewState

LEMMA ShowsUnits ==
    ASSUME NEW r, NEW q, NEW s, NEW n, NEW T, NEW n2, Shows(r, s, n, T), Shows(q, s, n2, T)
    PROVE  NewUnits(r, q, n2)
BY SMT DEF Shows, NewUnits

LEMMA ShowsStateTo ==
    ASSUME NEW r, NEW q, NEW s, NEW n, NEW T, NEW s2, NEW T2, Shows(r, s, n, T), Shows(q, s2, n, T2)
    PROVE  NewStateTo(r, q, s2, T2)
<1>1. PICK e : e = [r EXCEPT !.state = s2]
  OBVIOUS
<1>2. e = [state |-> s2, units |-> n, to |-> T]
  BY SMT, <1>1 DEF Shows
<1>3. q = [e EXCEPT !.to = T2]
  BY SMT, <1>2 DEF Shows
<1> QED
  BY <1>1, <1>3 DEF NewStateTo

LEMMA ShowsStateUnits ==
    ASSUME NEW r, NEW q, NEW s, NEW n, NEW T, NEW s2, NEW n2, Shows(r, s, n, T), Shows(q, s2, n2, T)
    PROVE  NewStateUnits(r, q, s2, n2)
<1>1. PICK e : e = [r EXCEPT !.state = s2]
  OBVIOUS
<1>2. e = [state |-> s2, units |-> n, to |-> T]
  BY SMT, <1>1 DEF Shows
<1>3. q = [e EXCEPT !.units = n2]
  BY SMT, <1>2 DEF Shows
<1> QED
  BY <1>1, <1>3 DEF NewStateUnits

LEMMA OpenEscrows ==
    ASSUME Rows(holds, transfers), EscrowRow
    PROVE  EscrowStep
<1>1. PICK a \in Accounts, key \in EscrowKeys, n \in Units, end \in Untils :
          OpenRow(Id(a, "escrow", key), "ledger", n, end) /\ SameTransfers
  BY DEF EscrowRow
<1>2. PICK id : id = Id(a, "escrow", key)
  OBVIOUS
<1>3. id \in EscrowIds
  BY SMT, <1>2 DEF Id, EscrowIds
<1>4. /\ id \notin DOMAIN holds /\ Touches(holds, holds', {id})
      /\ holds'[id].state = "held" /\ holds'[id].max = n /\ transfers' = transfers
  BY <1>1, <1>2 DEF OpenRow, IsNew, SameTransfers
<1>5. EscrowNow[id].state = "none" /\ id \notin DOMAIN transfers'
  BY <1>3, <1>4, EscrowNew
<1>6. id \in DOMAIN holds'
  BY <1>4 DEF Touches
<1>7. Shows(EscrowOf(holds', transfers', id), "held", n, {})
  BY <1>4, <1>5, <1>6, ShowsOpen
<1>8. Touches(transfers, transfers', {})
  BY <1>4 DEF Touches, Rows, TransfersOK
<1>9. \A x \in {id} \cup {} : x = id
  OBVIOUS
<1>10. Changes(EscrowNow, EscrowNow', id, EscrowOf(holds', transfers', id))
  BY <1>3, <1>4, <1>8, <1>9, EscrowViewOne DEF EscrowNow
<1>11. OpenEscrow(id, n)
  BY <1>5, <1>7, <1>10 DEF OpenEscrow, Shows
<1> QED
  BY <1>3, <1>11 DEF EscrowStep, Units

LEMMA ReleaseEscrows ==
    ASSUME Rows(holds, transfers), ReleaseRow
    PROVE  EscrowStep
<1>1. PICK id : Unpaid(id) /\ EndRow(id, "refunded", holds[id].used) /\ SameTransfers
  BY DEF ReleaseRow
<1>2. /\ id \in EscrowIds /\ id \notin DOMAIN transfers /\ id \in DOMAIN holds
      /\ Shows(EscrowNow[id], "held", holds[id].max, {})
  BY <1>1, UnpaidEscrow
<1>3. /\ Touches(holds, holds', {id}) /\ holds'[id].state = "refunded"
      /\ holds'[id].max = holds[id].max /\ transfers' = transfers
  BY <1>1 DEF EndRow, EndsAs, Ended, SameTransfers
<1>4. id \in DOMAIN holds' /\ id \notin DOMAIN transfers'
  BY <1>2, <1>3 DEF Touches
<1>5. Shows(EscrowOf(holds', transfers', id), "released", holds[id].max, {})
  BY <1>3, <1>4, ShowsOver
<1>6. Touches(transfers, transfers', {})
  BY <1>3 DEF Touches, Rows, TransfersOK
<1>7. \A x \in {id} \cup {} : x = id
  OBVIOUS
<1>8. Changes(EscrowNow, EscrowNow', id, EscrowOf(holds', transfers', id))
  BY <1>2, <1>3, <1>6, <1>7, EscrowViewOne DEF EscrowNow
<1>9. /\ EscrowOf(holds', transfers', id) = [EscrowNow[id] EXCEPT !.state = "released"]
      /\ EscrowNow[id].state = "held"
  <2>1. NewState(EscrowNow[id], EscrowOf(holds', transfers', id), "released")
    BY <1>2, <1>5, ShowsState
  <2>2. EscrowNow[id].state = "held"
    BY <1>2, ShowsFields
  <2> QED
    BY <2>1, <2>2 DEF NewState
<1>10. ReleaseEscrow(id)
  BY <1>8, <1>9 DEF ReleaseEscrow
<1> QED
  BY <1>2, <1>10 DEF EscrowStep

LEMMA PayEscrows ==
    ASSUME Rows(holds, transfers), PaymentRow
    PROVE  EscrowStep
<1>1. PICK id : \E b \in Accounts : Unpaid(id) /\ PayRow(id, b)
  BY DEF PaymentRow
<1>1b. PICK b \in Accounts : Unpaid(id) /\ PayRow(id, b)
  BY <1>1
<1>2. /\ id \in EscrowIds /\ id \notin DOMAIN transfers /\ id \in DOMAIN holds
      /\ Shows(EscrowNow[id], "held", holds[id].max, {})
  BY <1>1b, UnpaidEscrow
<1>3. PICK state, end : /\ state \in {"done", "pending"}
                        /\ SendRow(id, b, holds[id].max, state, end)
                        /\ Touches(holds, holds', {id}) /\ holds'[id].max = holds[id].max
  BY SMT, <1>1b DEF PayRow, EndsAs, Ended, Delays, Delayed
<1>4. /\ Touches(transfers, transfers', {id})
      /\ transfers'[id] = NewTransfer(b, holds[id].max, state, end)
  BY <1>3 DEF SendRow
<1>5. transfers'[id].state = state /\ transfers'[id].to = b
  BY SMT, <1>4 DEF NewTransfer
<1>6. id \in DOMAIN holds' /\ id \in DOMAIN transfers'
  BY <1>3, <1>4 DEF Touches
<1>7. Shows(EscrowOf(holds', transfers', id), transfers'[id].state, holds'[id].max, {transfers'[id].to})
  BY <1>6, ShowsSent
<1>8. Shows(EscrowOf(holds', transfers', id), state, holds[id].max, {b})
  BY <1>3, <1>5, <1>7
<1>9. \A x \in {id} \cup {id} : x = id
  OBVIOUS
<1>10. Changes(EscrowNow, EscrowNow', id, EscrowOf(holds', transfers', id))
  BY <1>2, <1>3, <1>4, <1>9, EscrowViewOne DEF EscrowNow
<1>11. /\ EscrowOf(holds', transfers', id) = [EscrowNow[id] EXCEPT !.state = state, !.to = {b}]
       /\ EscrowNow[id].state = "held"
  <2>1. NewStateTo(EscrowNow[id], EscrowOf(holds', transfers', id), state, {b})
    BY <1>2, <1>8, ShowsStateTo
  <2>2. EscrowNow[id].state = "held"
    BY <1>2, ShowsFields
  <2> QED
    BY <2>1, <2>2 DEF NewStateTo
<1>12. PayEscrow(id, b, state)
  BY <1>10, <1>11 DEF PayEscrow
<1> QED
  BY <1>2, <1>3, <1>12 DEF EscrowStep

LEMMA MarkEscrows ==
    ASSUME Rows(holds, transfers), MarkRow
    PROVE  EscrowsSame
<1>1. PICK id : ReimburseRow(id) /\ SameTransfers
  BY DEF MarkRow
<1>2. id \in DOMAIN holds /\ Touches(holds, holds', {id}) /\ holds'[id] = Marked(holds[id])
  BY <1>1 DEF ReimburseRow, IsService
<1>3. IsHold(holds[id])
  BY <1>2 DEF Rows, HoldsOK
<1>4. holds'[id].state = holds[id].state /\ holds'[id].max = holds[id].max
  BY <1>2, <1>3, MarkedIs
<1>5. /\ transfers' = transfers
      /\ \A c \in EscrowIds : /\ c \in DOMAIN holds' <=> c \in DOMAIN holds
                              /\ c \in DOMAIN holds => /\ holds'[c].state = holds[c].state
                                                       /\ holds'[c].max = holds[c].max
  BY <1>1, <1>2, <1>4 DEF Touches, SameTransfers
<1>6. ASSUME NEW c \in EscrowIds PROVE EscrowOf(holds', transfers', c) = EscrowOf(holds, transfers, c)
  <2>1. CASE c \notin DOMAIN holds
    BY <1>5, <2>1 DEF EscrowOf
  <2>2. CASE c \in DOMAIN holds
    BY <1>5, <2>2 DEF EscrowOf
  <2> QED
    BY <2>1, <2>2
<1> QED
  BY <1>6 DEF EscrowsSame, EscrowNow, EscrowView

LEMMA SplitEscrows ==
    ASSUME Rows(holds, transfers), SplitsRow
    PROVE  EscrowStep
<1>0. PICK src \in DOMAIN holds, key \in EscrowKeys, n \in Units, until \in Untils :
          /\ Unpaid(src) /\ SameTransfers
          /\ SplitRow(src, Id(src.account, "escrow", key), n, Lesser(until, holds[src].expires))
  BY DEF SplitsRow
<1>1. PICK end : /\ Unpaid(src) /\ SameTransfers
                 /\ SplitRow(src, Id(src.account, "escrow", key), n, end)
  BY <1>0
<1>2. PICK id : id = Id(src.account, "escrow", key)
  OBVIOUS
<1>3. /\ src \in EscrowIds /\ src \notin DOMAIN transfers /\ src \in DOMAIN holds
      /\ Shows(EscrowNow[src], "held", holds[src].max, {})
  BY <1>1, UnpaidEscrow
<1>4. /\ n <= holds[src].max /\ id \notin DOMAIN holds /\ Touches(holds, holds', {src, id})
      /\ holds'[src].max = holds[src].max - n /\ holds'[src].state = holds[src].state
      /\ holds'[id].max = n /\ holds'[id].state = "held" /\ transfers' = transfers
  BY <1>1, <1>2 DEF SplitRow, Resized, IsNew, SameTransfers
<1>5. id \in EscrowIds /\ id # src
  <2>1. src.account \in Accounts
    BY SMT, <1>3 DEF EscrowIds
  <2>2. id \in EscrowIds
    BY SMT, <1>2, <2>1 DEF Id, EscrowIds
  <2> QED
    BY <1>3, <1>4, <2>2
<1>6. EscrowNow[id].state = "none" /\ id \notin DOMAIN transfers
  BY <1>4, <1>5, EscrowNew
<1>7. /\ id \in DOMAIN holds' /\ src \in DOMAIN holds'
      /\ id \notin DOMAIN transfers' /\ src \notin DOMAIN transfers'
      /\ holds'[src].state = "held"
  BY <1>1, <1>3, <1>4, <1>6 DEF Touches, Unpaid
<1>8. /\ Shows(EscrowOf(holds', transfers', id), "held", n, {})
      /\ Shows(EscrowOf(holds', transfers', src), "held", holds[src].max - n, {})
  BY <1>4, <1>7, ShowsOpen
<1>9. Touches(transfers, transfers', {})
  BY <1>4 DEF Touches, Rows, TransfersOK
<1>10. \A x \in {src, id} : x \in {id, src}
  OBVIOUS
<1>11. ChangesTwo(EscrowNow, EscrowNow', id, EscrowOf(holds', transfers', id),
                  src, EscrowOf(holds', transfers', src))
  BY <1>3, <1>4, <1>5, <1>9, <1>10, EscrowViewTwo DEF EscrowNow
<1>12. /\ EscrowOf(holds', transfers', src) = [EscrowNow[src] EXCEPT !.units = @ - n]
       /\ EscrowNow[src].state = "held" /\ EscrowNow[src].units = holds[src].max
  <2>1. NewUnits(EscrowNow[src], EscrowOf(holds', transfers', src), holds[src].max - n)
    BY <1>3, <1>8, ShowsUnits
  <2>2. EscrowNow[src].state = "held" /\ EscrowNow[src].units = holds[src].max
    BY <1>3, ShowsFields
  <2> QED
    BY <2>1, <2>2 DEF NewUnits
<1>13. EscrowOf(holds', transfers', id) = [state |-> "held", units |-> n, to |-> {}]
  BY <1>8 DEF Shows
<1>14. n <= EscrowNow[src].units
  BY <1>4, <1>12
<1>15. SplitEscrow(src, id, n)
  BY <1>5, <1>6, <1>11, <1>12, <1>13, <1>14 DEF SplitEscrow
<1> QED
  BY <1>3, <1>5, <1>15 DEF EscrowStep, Units

LEMMA JoinEscrows ==
    ASSUME Rows(holds, transfers), JoinsRow
    PROVE  EscrowStep
<1>1. PICK src, into : Unpaid(src) /\ Unpaid(into) /\ JoinRow(src, into) /\ SameTransfers
  BY DEF JoinsRow
<1>2. /\ src \in EscrowIds /\ src \notin DOMAIN transfers /\ src \in DOMAIN holds
      /\ Shows(EscrowNow[src], "held", holds[src].max, {})
  BY <1>1, UnpaidEscrow
<1>3. /\ into \in EscrowIds /\ into \notin DOMAIN transfers /\ into \in DOMAIN holds
      /\ Shows(EscrowNow[into], "held", holds[into].max, {})
  BY <1>1, UnpaidEscrow
<1>4. /\ src # into /\ Touches(holds, holds', {src, into})
      /\ holds'[into].max = holds[into].max + holds[src].max
      /\ holds'[into].state = "held" /\ holds'[src].state = "refunded" /\ holds'[src].max = 0
      /\ transfers' = transfers
  BY <1>1 DEF JoinRow, Resized, Emptied, SameTransfers, Unpaid
<1>5. /\ into \in DOMAIN holds' /\ src \in DOMAIN holds'
      /\ into \notin DOMAIN transfers' /\ src \notin DOMAIN transfers'
  BY <1>2, <1>3, <1>4 DEF Touches
<1>6. /\ Shows(EscrowOf(holds', transfers', into), "held", holds[into].max + holds[src].max, {})
      /\ Shows(EscrowOf(holds', transfers', src), "released", 0, {})
  BY <1>4, <1>5, ShowsOpen, ShowsOver
<1>7. Touches(transfers, transfers', {})
  BY <1>4 DEF Touches, Rows, TransfersOK
<1>8. \A x \in {src, into} : x \in {into, src}
  OBVIOUS
<1>9. ChangesTwo(EscrowNow, EscrowNow', into, EscrowOf(holds', transfers', into),
                  src, EscrowOf(holds', transfers', src))
  BY <1>2, <1>3, <1>4, <1>7, <1>8, EscrowViewTwo DEF EscrowNow
<1>10. /\ EscrowNow[src].units = holds[src].max
       /\ EscrowNow[src].state = "held" /\ EscrowNow[into].state = "held"
  BY <1>2, <1>3, ShowsFields
<1>11. EscrowOf(holds', transfers', into) = [EscrowNow[into] EXCEPT !.units = EscrowNow[into].units + EscrowNow[src].units]
  <2>1. NewUnits(EscrowNow[into], EscrowOf(holds', transfers', into), holds[into].max + holds[src].max)
    BY <1>3, <1>6, ShowsUnits
  <2>2. EscrowNow[into].units = holds[into].max
    BY <1>3, ShowsFields
  <2> QED
    BY <1>10, <2>1, <2>2 DEF NewUnits
<1>12. EscrowOf(holds', transfers', src) = [EscrowNow[src] EXCEPT !.state = "released", !.units = 0]
  <2>1. NewStateUnits(EscrowNow[src], EscrowOf(holds', transfers', src), "released", 0)
    BY <1>2, <1>6, ShowsStateUnits
  <2> QED
    BY <2>1 DEF NewStateUnits
<1>13. JoinEscrow(src, into)
  BY <1>4, <1>9, <1>10, <1>11, <1>12 DEF JoinEscrow
<1> QED
  BY <1>2, <1>3, <1>13 DEF EscrowStep

LEMMA FinishEscrows ==
    ASSUME Rows(holds, transfers), NEW L, NEW X, FinishRow(L, X),
           \A id \in L : id.kind # "escrow"
    PROVE  EscrowStep
<1>1. PICK C, D : /\ C = {id \in X \cap EscrowIds : transfers'[id].state = "cancelled"}
                  /\ D = {id \in X \cap EscrowIds : transfers'[id].state = "done"}
  OBVIOUS
<1>2. /\ L \subseteq DOMAIN holds /\ X \subseteq DOMAIN holds /\ X \subseteq DOMAIN transfers
      /\ Touches(holds, holds', L \cup X) /\ Touches(transfers, transfers', X)
      /\ \A id \in X : /\ transfers[id].state = "pending" /\ holds'[id].max = holds[id].max
                       /\ transfers'[id].to = transfers[id].to
                       /\ transfers'[id].state \in {"done", "cancelled"}
  BY DEF FinishRow, Concluded, Ended, Closed
<1>3. "done" # "cancelled"
  BY SMT
<1>4. /\ C \in SUBSET EscrowIds /\ D \in SUBSET EscrowIds /\ D \cap C = {}
      /\ \A id \in EscrowIds : id \in X <=> id \in C \cup D
  BY <1>1, <1>2, <1>3
<1>5. ASSUME NEW k \in X \cap EscrowIds
      PROVE  /\ Shows(EscrowNow[k], "pending", holds[k].max, {transfers[k].to})
             /\ Shows(EscrowNow'[k], transfers'[k].state, holds[k].max, {transfers[k].to})
  <2>1. k \in DOMAIN holds /\ k \in DOMAIN transfers /\ k \in DOMAIN holds' /\ k \in DOMAIN transfers'
    BY <1>2 DEF Touches
  <2>2. /\ Shows(EscrowOf(holds, transfers, k), transfers[k].state, holds[k].max, {transfers[k].to})
        /\ Shows(EscrowOf(holds', transfers', k), transfers'[k].state, holds'[k].max, {transfers'[k].to})
    BY <2>1, ShowsSent
  <2> QED
    BY <1>2, <2>2, NowIs
<1>6. ASSUME NEW k \in EscrowIds
      PROVE  EscrowNow'[k] = IF k \in C THEN [EscrowNow[k] EXCEPT !.state = "cancelled"]
                             ELSE IF k \in D THEN [EscrowNow[k] EXCEPT !.state = "done"]
                             ELSE EscrowNow[k]
  <2>1. CASE k \in C
    <3>1. k \in X \cap EscrowIds /\ transfers'[k].state = "cancelled"
      BY <1>1, <2>1
    <3> QED
      <4>1. NewState(EscrowNow[k], EscrowNow'[k], "cancelled")
        BY <1>5, <3>1, ShowsState
      <4> QED
        BY <2>1, <4>1 DEF NewState
  <2>2. CASE k \in D
    <3>1. k \in X \cap EscrowIds /\ transfers'[k].state = "done" /\ k \notin C
      BY <1>1, <1>4, <2>2
    <3> QED
      <4>1. NewState(EscrowNow[k], EscrowNow'[k], "done")
        BY <1>5, <3>1, ShowsState
      <4> QED
        BY <2>2, <3>1, <4>1 DEF NewState
  <2>3. CASE k \notin C /\ k \notin D
    <3>1. k.kind = "escrow"
      BY SMT DEF EscrowIds
    <3>2. k \notin L \cup X /\ k \notin X
      BY <1>4, <2>3, <3>1
    <3>3. EscrowKept(holds, transfers, holds', transfers', k)
      BY <1>2, <3>2, EscrowAt
    <3> QED
      BY <2>3, <3>3, NowIs DEF EscrowKept
  <2> QED
    BY <2>1, <2>2, <2>3
<1>7. \A k \in D \cup C : EscrowNow[k].state = "pending"
  <2>1. \A k \in D \cup C : k \in X \cap EscrowIds
    BY <1>1
  <2>2. \A k \in X \cap EscrowIds : EscrowNow[k].state = "pending"
    BY <1>5, ShowsFields
  <2> QED
    BY <2>1, <2>2
<1>8. EscrowNow' = [k \in EscrowIds |-> EscrowNow'[k]]
  BY NowIs
<1>9. EndEscrows(D, C)
  BY <1>4, <1>6, <1>7, <1>8 DEF EndEscrows
<1> QED
  BY <1>4, <1>9 DEF EscrowStep

-----------------------------------------------------------------------------
(* The theorems.                                                           *)

LEMMA StepIs ==
    ASSUME [RowsNext]_rows
    PROVE  RowStep
BY DEF RowsNext, TickRow, rows, RowStep, NoRow

LEMMA InitOK ==
    ASSUME RowsInit
    PROVE  RowsInv
<1>1. DOMAIN <<>> = {} /\ Table(<<>>) /\ IsFiniteSet({})
  BY SMT, FS_EmptySet DEF Table
<1>2. HoldsOK(<<>>) /\ TransfersOK(<<>>) /\ Linked(<<>>, <<>>)
  BY <1>1 DEF HoldsOK, TransfersOK, Linked
<1>3. Clock
  BY SMT, RowsAssumption DEF RowsInit, Clock
<1> QED
  BY <1>2, <1>3 DEF RowsInit, Rows, RowsInv

LEMMA StepOK ==
    ASSUME RowsInv, [RowsNext]_rows
    PROVE  RowsInv'
<1>1. Rows(holds, transfers)'
  BY StepIs, RowsKept DEF RowsInv
<1>2. CASE now' = now
  BY <1>1, <1>2 DEF RowsInv, Clock
<1>3. CASE now < Horizon /\ now' = now + 1
  <2>1. Clock'
    BY SMT, <1>3, RowsAssumption DEF RowsInv, Clock
  <2> QED
    BY <1>1, <2>1 DEF RowsInv
<1> QED
  BY <1>2, <1>3 DEF RowsNext, TickRow, rows

\* The tables of holds and transfers are well-formed and linked in every
\* state: a service hold is for a call or a deposit, every transfer that waits
\* and every payment of an escrow has its hold, and their states go together.
THEOREM RowsInvariant == RowsSpec => []RowsInv
BY InitOK, StepOK, PTL DEF RowsSpec

\* A transfer and the hold behind it end together (transfers.go: release and
\* execute write both rows): the units wait exactly while it is pending.
THEOREM RowsMatch == RowsSpec => []TransferMatchesHold
<1>1. RowsInv => TransferMatchesHold
  <2> SUFFICES ASSUME RowsInv, NEW id \in DOMAIN transfers \cap DOMAIN holds
               PROVE  <<transfers[id].state, holds[id].state>>
                        \in {<<"pending", "held">>, <<"done", "committed">>,
                             <<"cancelled", "refunded">>}
    BY DEF TransferMatchesHold
  <2>1. Matches(transfers[id].state, holds[id].state)
    BY DEF RowsInv, Rows, Linked, LinkedAt
  <2> QED
    BY <2>1 DEF Matches
<1> QED
  BY <1>1, RowsInvariant, PTL

\* A settled hold and an ended transfer are never written again (settle,
\* release, execute and the sweeper look at the state first), but for the one
\* mark of a reimbursement.
THEOREM RowsSettled == RowsSpec => SettledForGood
<1> DEFINE Step ==
      /\ \A id \in DOMAIN holds \ Open :
           \/ holds'[id] = holds[id]
           \/ /\ ~holds[id].reimbursed
              /\ holds'[id] = [holds[id] EXCEPT !.reimbursed = TRUE]
      /\ \A id \in DOMAIN transfers :
           transfers[id].state # "pending" => transfers'[id] = transfers[id]
<1>1. RowsInv /\ [RowsNext]_rows => Step
  <2> SUFFICES ASSUME RowsInv, [RowsNext]_rows PROVE Step
    OBVIOUS
  <2>1. Rows(holds, transfers) /\ RowStep
    BY StepIs DEF RowsInv
  <2>2. ASSUME NEW id \in DOMAIN holds \ Open
        PROVE  \/ holds'[id] = holds[id]
               \/ ~holds[id].reimbursed /\ holds'[id] = Marked(holds[id])
    <3>1. holds[id].state # "held"
      BY DEF Open
    <3> QED
      BY <2>1, <3>1, HoldsSettled
  <2>3. ASSUME NEW id \in DOMAIN transfers, transfers[id].state # "pending"
        PROVE  transfers'[id] = transfers[id]
    BY <2>1, <2>3, TransfersSettled
  <2> QED
    BY <2>2, <2>3 DEF Marked
<1>2. SettledForGood <=> [][Step]_rows
  BY SMT DEF SettledForGood
<1> HIDE DEF Step
<1> QED
  BY <1>1, <1>2, RowsInvariant, PTL DEF RowsSpec

\* What may happen to the rows keeps the promise to the services engine: a
\* call's hold is reserved once and is committed, refunded or lapses once.
THEOREM RowsKeepPromise == RowsSpec => KeepsPromise
<1>1. RowsInit => Promise!Init
  <2> SUFFICES ASSUME RowsInit PROVE Promise!Init
    OBVIOUS
  <2>1. holds = <<>> /\ DOMAIN <<>> = {}
    BY SMT DEF RowsInit
  <2> QED
    BY <2>1 DEF Promise!Init, Promise!NoHold, CallNow, CallView, NoCall
<1>2. RowsInv /\ [RowsNext]_rows => [Promise!Next]_CallNow
  <2> SUFFICES ASSUME RowsInv, [RowsNext]_rows PROVE Promise!Next \/ UNCHANGED CallNow
    OBVIOUS
  <2>1. Rows(holds, transfers) /\ RowStep
    BY StepIs DEF RowsInv
  <2>2. CallStep
    BY <2>1, ReserveCalls, SettleCalls, MarkCalls, SweepCalls, OtherCalls DEF RowStep, CallStep
  <2> QED
    BY <2>2, CallStepIs
<1> QED
  BY <1>1, <1>2, RowsInvariant, PTL DEF RowsSpec, KeepsPromise, Promise!Spec

\* What may happen to the rows keeps the promise to the board: an escrow is
\* paid once or released once, whole; splits and joins move units between held
\* escrows only; a payment that waits is executed or cancelled once.
THEOREM RowsKeepEscrow == RowsSpec => KeepsEscrow
<1>1. RowsInit => EscrowPromise!Init
  <2> SUFFICES ASSUME RowsInit PROVE EscrowPromise!Init
    OBVIOUS
  <2>1. holds = <<>> /\ DOMAIN <<>> = {}
    BY SMT DEF RowsInit
  <2> QED
    BY <2>1 DEF EscrowPromise!Init, EscrowPromise!NoEscrow, EscrowNow, EscrowView, EscrowOf,
       NoEscrowRow
<1>2. RowsInv /\ [RowsNext]_rows => [EscrowPromise!Next]_EscrowNow
  <2> SUFFICES ASSUME RowsInv, [RowsNext]_rows PROVE EscrowPromise!Next \/ UNCHANGED EscrowNow
    OBVIOUS
  <2>0. Rows(holds, transfers) /\ RowStep
    BY StepIs DEF RowsInv
  <2>1. Rows(holds, transfers) /\ RowStep /\ Table(holds) /\ Table(transfers)
    BY <2>0 DEF Rows, HoldsOK, TransfersOK
  <2>2. CASE SweepRow
    <3>1. PICK X : FinishRow(DueRows, X)
      BY <2>2 DEF SweepRow
    <3>2. \A id \in DueRows : id \in DOMAIN holds /\ holds[id].service # "ledger"
      BY DEF DueRows
    <3>3. "escrow" # "service"
      BY SMT
    <3>4. \A id \in DueRows : id.kind # "escrow"
      BY <2>1, <3>2, <3>3 DEF Rows, Linked, LinkedAt
    <3> QED
      BY <2>1, <3>1, <3>4, FinishEscrows, EscrowStepIs
  <2>3. CASE CancelRow
    <3>1. PICK L, X : FinishRow(L, X) /\ L = {}
      BY <2>3 DEF CancelRow
    <3>2. \A id \in L : id.kind # "escrow"
      BY <3>1
    <3> QED
      BY <2>1, <3>1, <3>2, FinishEscrows, EscrowStepIs
  <2>4. CASE NoRow \/ ReserveRow \/ SettleRow \/ DoneRow \/ PendRow \/ MarkRow
    <3>1. EscrowsSame
      BY <2>1, <2>4, OtherEscrows, MarkEscrows
    <3> QED
      BY <3>1 DEF EscrowsSame
  <2>5. CASE EscrowRow \/ ReleaseRow \/ PaymentRow \/ SplitsRow \/ JoinsRow
    BY <2>1, <2>5, OpenEscrows, ReleaseEscrows, PayEscrows, SplitEscrows, JoinEscrows,
       EscrowStepIs
  <2> QED
    BY <2>1, <2>2, <2>3, <2>4, <2>5 DEF RowStep
<1> QED
  BY <1>1, <1>2, RowsInvariant, PTL DEF RowsSpec, KeepsEscrow, EscrowPromise!Spec
=============================================================================
