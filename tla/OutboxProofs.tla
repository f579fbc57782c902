---------------------------- MODULE OutboxProofs ----------------------------
(***************************************************************************)
(* Proofs about Outbox, for any queue, any number of faults, copies and    *)
(* restarts, any windows and any clocks: rows leave the queue in order, and *)
(* a signed request that was executed is answered with the receipt of its  *)
(* execution.                                                              *)
(*                                                                         *)
(* NoOvertaking is about the rows; it holds because a flush is always at   *)
(* the first row that is not acknowledged, and has nothing of the queue    *)
(* behind it but what it left acknowledged (AtHead).  OriginalReceipt is   *)
(* about the board; it holds because the requests table has exactly one    *)
(* row for each signed command that was executed (Remembered).             *)
(* AppliedOnce adds the anonymous ones: the salt a caller was known by is  *)
(* kept until the next day's grace (Salty), and an execution is compared   *)
(* with all those before it (Once).                                        *)
(***************************************************************************)
EXTENDS Outbox, FiniteSetTheorems, TLAPS

LEMMA Constants ==
    /\ N \in Nat /\ Rows = 1..N
    /\ Op \in [Rows -> {"post", "rotate"}]
BY Zenon, OutboxAssumption DEF Rows

\* A set of numbers that is not empty has a lowest.
LEMMA LowestIs ==
    ASSUME NEW S \in SUBSET Nat, S # {}
    PROVE  Lowest(S) \in S /\ \A j \in S : Lowest(S) <= j
<1> DEFINE R == OpToRel(<, Nat)
<1>1. R = {ss \in Nat \X Nat : ss[1] < ss[2]}
  BY ZenonT(30) DEF OpToRel
<1>2. IsWellFoundedOn(R, Nat)
  BY NatLessThanWellFounded, ZenonT(30)
<1> HIDE DEF R
<1>3. PICK x \in S : \A y \in S : ~(<<y, x>> \in R)
  BY <1>2, WFMin, ZenonT(30)
<1>4. ASSUME NEW y \in S PROVE x <= y
  <2>1. y < x => <<y, x>> \in R
    BY <1>1, ZenonT(30)
  <2> QED
    BY <1>3, <2>1
<1> QED
  BY ZenonT(30), <1>4 DEF Lowest

-----------------------------------------------------------------------------
(* The queue.                                                              *)

States == {"none", "queued", "prepared", "unresolved", "blocked", "acknowledged"}

QueueType == [Rows -> [state : States, stamp : Int]]
FlushType == [pc : {"idle", "prepare", "attempt", "send", "wait", "answered"},
              row : 0..N, rows : SUBSET Rows, retry : BOOLEAN, answer : Nat]

\* Rows are filled in order.
Filled(q) == \A j \in Rows : q[j].state # "none" =>
                 \A i \in 1..(j - 1) : q[i].state # "none"

Waits(q, i) == q[i].state \notin {"none", "acknowledged"}

\* A set of rows a flush may take: none of them is behind a row that waits and
\* is not of the set.
Batch(rows, q) ==
    \A j \in rows : Waits(q, j) /\ \A i \in 1..(j - 1) : i \in rows \/ q[i].state = "acknowledged"

NoRotation(q) == \A i \in Rows : q[i].state = "acknowledged" => Op[i] = "post"

\* The flush f is at the head of the queue q, the rest of its batch behind it.
AtHead(f, q) ==
    /\ f.row \in Rows /\ Batch(f.rows \cup {f.row}, q)
    /\ \A j \in f.rows : f.row < j
    /\ NoRotation(q)

Ordered(q) ==
    \A j \in Rows : q[j].stamp # NoStamp =>
        \A i \in 1..(j - 1) : q[i].state = "acknowledged" /\ Op[i] = "post"

QueueInv ==
    /\ queue \in QueueType /\ flush \in FlushType
    /\ Filled(queue) /\ Ordered(queue)
    /\ flush = Idle \/ AtHead(flush, queue)

\* A flush that is taken from a batch is at its lowest row.
LEMMA TakeHead ==
    ASSUME NEW rows \in SUBSET Rows, NEW retry \in BOOLEAN, NEW q,
           Batch(rows, q), NoRotation(q)
    PROVE  /\ Take(rows, retry) \in FlushType
           /\ Take(rows, retry) = Idle \/ AtHead(Take(rows, retry), q)
<1>1. Idle \in FlushType
  BY Constants DEF Idle, FlushType
<1>2. CASE rows = {}
  BY Zenon, <1>1, <1>2 DEF Take
<1>3. CASE rows # {}
  <2> DEFINE i == Lowest(rows)
             f == [pc |-> IF queue[i].stamp = NoStamp THEN "prepare" ELSE "attempt",
                   row |-> i, rows |-> rows \ {i}, retry |-> retry, answer |-> 0]
  <2>1. i \in rows /\ \A j \in rows : i <= j
    BY <1>3, Constants, LowestIs
  <2> HIDE DEF i
  <2>2. Take(rows, retry) \in {Idle, f}
    BY Zenon, <1>3 DEF Take, i
  <2>3. f \in FlushType
    BY <2>1, Constants DEF FlushType
  <2>4. f.row = i /\ f.rows = rows \ {i} /\ f.rows \cup {f.row} = rows
    BY Zenon, <2>1
  <2>5. \A j \in f.rows : f.row < j
    BY <2>1, <2>4, Constants
  <2>6. AtHead(f, q)
    BY Zenon, <2>1, <2>4, <2>5 DEF AtHead
  <2> QED
    BY Zenon, <1>1, <2>2, <2>3, <2>6
<1> QED
  BY Zenon, <1>2, <1>3

\* The lowest rows that wait are a batch.
LEMMA FirstBatch ==
    ASSUME QueueInv, NEW n \in Nat
    PROVE  First(n) \in SUBSET Rows /\ Batch(First(n), queue)
<1>1. First(n) \subseteq Waiting /\ Waiting \subseteq Rows
  BY Zenon DEF First, Waiting
<1>2. IsFiniteSet(Rows)
  BY Constants, FS_Interval
<1>3. ASSUME NEW j \in First(n), NEW i \in 1..(j - 1), i \in Waiting
      PROVE  i \in First(n)
  <2> DEFINE I == {k \in Waiting : k < i}
             J == {k \in Waiting : k < j}
  <2>1. I \in SUBSET J
    <3>1. j \in 1..N /\ i \in 1..(j - 1)
      BY ZenonT(30), <1>1, Constants
    <3>2. ASSUME NEW k \in Waiting, k < i PROVE k < j
      BY <1>1, <3>1, <3>2, Constants
    <3> QED
      BY Zenon, <3>2
  <2>2. J \in SUBSET Rows
    BY Zenon, <1>1
  <2>3. IsFiniteSet(J)
    BY Zenon, <1>2, <2>2, FS_Subset
  <2>4. Cardinality(I) <= Cardinality(J) /\ IsFiniteSet(I)
    BY Zenon, <2>1, <2>3, FS_Subset
  <2>5. Cardinality(I) \in Nat /\ Cardinality(J) \in Nat
    BY Zenon, <2>3, <2>4, FS_CardinalityType
  <2>6. n > Cardinality(J)
    BY Zenon DEF First
  <2>7. n > Cardinality(I)
    BY <2>4, <2>5, <2>6
  <2> QED
    BY Zenon, <1>3, <2>7 DEF First
<1>4. ASSUME NEW j \in First(n), NEW i \in 1..(j - 1), queue[i].state # "acknowledged"
      PROVE  i \in Waiting
  <2>1. j \in Rows /\ i \in Rows /\ queue[j].state # "none"
    BY <1>1, Constants DEF Waiting
  <2> QED
    BY Zenon, <1>4, <2>1 DEF QueueInv, Filled, Waiting
<1> QED
  BY Zenon, <1>1, <1>3, <1>4 DEF Batch, Waits, Waiting

\* An UPDATE of row i.
Written(i, state, stamp) ==
    /\ queue' \in QueueType
    /\ queue'[i].state = state /\ queue'[i].stamp = stamp
    /\ \A j \in Rows \ {i} : queue'[j] = queue[j]

\* A step that changes one row that waits, not to none, keeps the order; the
\* row may be signed at the head only.
LEMMA RowChanged ==
    ASSUME QueueInv, flush # Idle, NEW state \in States \ {"none"}, NEW stamp \in Int,
           Written(flush.row, state, stamp)
    PROVE  /\ queue' \in QueueType /\ Filled(queue') /\ Ordered(queue')
           /\ state # "acknowledged" => AtHead(flush, queue')
           /\ Batch(flush.rows, queue') \/ state # "acknowledged"
           /\ state = "acknowledged" /\ Op[flush.row] = "post" => NoRotation(queue')
<1> DEFINE r == flush.row
<1>1. /\ r \in Rows /\ Batch(flush.rows \cup {r}, queue) /\ NoRotation(queue)
      /\ \A j \in flush.rows : r < j
      /\ queue \in QueueType /\ flush.rows \in SUBSET Rows
  BY Zenon DEF QueueInv, AtHead, FlushType
<1>2. \A i \in Rows \ {r} : queue'[i] = queue[i]
  BY Zenon DEF Written
<1>3. queue'[r].state = state /\ queue'[r].stamp = stamp
  BY Zenon DEF Written
<1>4. queue' \in QueueType
  BY Zenon DEF Written
<1>5. \A i \in 1..(r - 1) : i \in Rows \ {r} /\ queue[i].state = "acknowledged" /\ Op[i] = "post"
  <2>1. \A i \in 1..(r - 1) : i \in Rows /\ i < r
    BY <1>1, Constants
  <2>2. \A i \in 1..(r - 1) : i \notin flush.rows \cup {r}
    BY <1>1, <2>1, Constants
  <2> QED
    BY Zenon, <1>1, <2>1, <2>2 DEF Batch, NoRotation
<1>6. queue[r].state \notin {"none", "acknowledged"}
  BY Zenon, <1>1 DEF Batch, Waits
<1> HIDE DEF r
<1>7. Filled(queue')
  BY <1>1, <1>2, <1>3, <1>6, Constants DEF QueueInv, Filled
<1>8. Ordered(queue')
  <2> SUFFICES ASSUME NEW j \in Rows, queue'[j].stamp # NoStamp, NEW i \in 1..(j - 1)
               PROVE  queue'[i].state = "acknowledged" /\ Op[i] = "post"
    BY Zenon DEF Ordered
  <2>1. CASE j = r
    BY Zenon, <1>2, <1>5, <2>1
  <2>2. CASE j # r
    <3>1. queue[i].state = "acknowledged" /\ Op[i] = "post"
      BY Zenon, <1>2, <2>2 DEF QueueInv, Ordered
    <3>2. i # r /\ i \in Rows
      BY <1>6, <3>1, Constants
    <3> QED
      BY Zenon, <1>2, <3>1, <3>2
  <2> QED
    BY Zenon, <2>1, <2>2
<1>9. ASSUME state # "acknowledged" PROVE AtHead(flush, queue')
  <2>1. Batch(flush.rows \cup {r}, queue')
    BY <1>1, <1>2, <1>3, <1>6, <1>9, Constants DEF Batch, Waits
  <2>2. NoRotation(queue')
    BY Zenon, <1>1, <1>2, <1>3, <1>9 DEF NoRotation
  <2> QED
    BY Zenon, <1>1, <2>1, <2>2 DEF AtHead, r
<1>10. ASSUME state = "acknowledged" PROVE Batch(flush.rows, queue')
  BY <1>1, <1>2, <1>3, <1>10, Constants DEF Batch, Waits
<1>11. ASSUME state = "acknowledged", Op[r] = "post" PROVE NoRotation(queue')
  BY Zenon, <1>1, <1>2, <1>3, <1>11 DEF NoRotation
<1> QED
  BY Zenon, <1>4, <1>7, <1>8, <1>9, <1>10, <1>11 DEF r

LEMMA QueueInit == Init => QueueInv
BY Constants DEF Init, QueueInv, QueueType, FlushType, States, NoStamp, Idle, Filled, Ordered

LEMMA QueueStutters ==
    ASSUME QueueInv, UNCHANGED <<queue, flush>>
    PROVE  QueueInv'
BY ZenonT(30) DEF QueueInv, AtHead, Batch, NoRotation, Filled, Ordered, Waits, QueueType, FlushType

LEMMA EnqueueStep ==
    ASSUME QueueInv, NEW i \in Rows, enqueue(i)
    PROVE  QueueInv'
<1>1. /\ flush = Idle /\ flush' = Idle /\ queue[i].state = "none"
      /\ \A j \in 1..(i - 1) : queue[j].state # "none"
      /\ queue' = [queue EXCEPT ![i].state = "queued"]
  BY Zenon DEF enqueue
<1>2. queue \in QueueType /\ Filled(queue) /\ Ordered(queue) /\ flush \in FlushType
  BY Zenon DEF QueueInv
<1>3. /\ \A j \in Rows \ {i} : queue'[j] = queue[j]
      /\ queue'[i].state = "queued" /\ queue'[i].stamp = queue[i].stamp
      /\ queue' \in QueueType
  BY Zenon, <1>1, <1>2 DEF QueueType, States
<1>4. Filled(queue')
  BY <1>1, <1>2, <1>3, Constants DEF Filled
<1>5. Ordered(queue')
  <2> SUFFICES ASSUME NEW j \in Rows, queue'[j].stamp # NoStamp, NEW k \in 1..(j - 1)
               PROVE  queue'[k].state = "acknowledged" /\ Op[k] = "post"
    BY Zenon DEF Ordered
  <2>1. queue[k].state = "acknowledged" /\ Op[k] = "post"
    BY Zenon, <1>2, <1>3 DEF Ordered
  <2>2. k # i /\ k \in Rows
    BY <1>1, <2>1, Constants
  <2> QED
    BY Zenon, <1>3, <2>1, <2>2
<1> QED
  BY Zenon, <1>1, <1>2, <1>3, <1>4, <1>5 DEF QueueInv

\* A flush and a deliver begin at the head.
LEMMA FlushStep ==
    ASSUME QueueInv, NEW n \in Limits, NEW retry \in BOOLEAN, Flush(n, retry)
    PROVE  QueueInv'
<1>1. flush' = Take(First(n), retry) /\ UNCHANGED queue /\ NoRotation(queue)
  BY Zenon, Constants DEF Flush, RotationCompleted, NoRotation
<1>2. n \in Nat
  BY Zenon, OutboxAssumption
<1>3. flush' \in FlushType /\ (flush' = Idle \/ AtHead(flush', queue))
  BY Zenon, <1>1, <1>2, FirstBatch, TakeHead
<1> QED
  BY Zenon, <1>1, <1>3 DEF QueueInv

LEMMA DeliverStep ==
    ASSUME QueueInv, NEW i \in Rows, NEW retry \in BOOLEAN, deliver(i, retry)
    PROVE  QueueInv'
<1>1. /\ flush' = Take({i}, retry) /\ UNCHANGED queue /\ NoRotation(queue)
      /\ i \in First(1)
  BY Zenon, Constants DEF deliver, RotationCompleted, NoRotation
<1>2. First(1) \in SUBSET Rows /\ Batch(First(1), queue)
  BY Zenon, FirstBatch
<1>3. ASSUME NEW k \in 1..(i - 1), k \in First(1) PROVE FALSE
  <2> DEFINE I == {j \in Waiting : j < i}
  <2>1. k \in I
    BY <1>3, Constants DEF First
  <2>2. I \in SUBSET Rows
    BY Zenon DEF Waiting
  <2>3. IsFiniteSet(I)
    BY <2>2, Constants, FS_Interval, FS_Subset
  <2>4. Cardinality(I) \in Nat /\ 1 > Cardinality(I)
    BY Zenon, <1>1, <2>3, FS_CardinalityType DEF First
  <2>5. Cardinality(I) = 0
    BY <2>4
  <2> HIDE DEF I
  <2> QED
    BY Zenon, <2>1, <2>3, <2>5, FS_EmptySet
<1>4. Batch({i}, queue)
  BY Zenon, <1>1, <1>2, <1>3 DEF Batch
<1>5. flush' \in FlushType /\ (flush' = Idle \/ AtHead(flush', queue))
  BY Zenon, <1>1, <1>4, TakeHead
<1> QED
  BY Zenon, <1>1, <1>5 DEF QueueInv

\* A flush that only moves on to its next statement stays where it is.
LEMMA SamePlace ==
    ASSUME QueueInv, flush' \in FlushType, flush' # Idle,
           flush'.row = flush.row, flush'.rows = flush.rows,
           queue' \in QueueType, Filled(queue'), Ordered(queue'), AtHead(flush, queue')
    PROVE  QueueInv'
BY Zenon DEF QueueInv, AtHead

LEMMA PrepareStep ==
    ASSUME QueueInv, now \in Nat, NEW skew \in Skews, Prepare(skew)
    PROVE  QueueInv'
<1> DEFINE stamp == IF signed THEN now + skew ELSE 0
<1>1. /\ flush # Idle /\ flush' = [flush EXCEPT !.pc = "attempt"]
      /\ queue' = [queue EXCEPT ![flush.row] =
                     [@ EXCEPT !.state = "prepared", !.stamp = stamp]]
  BY DEF Prepare, At, Idle
<1>2. stamp \in Int
  BY OutboxAssumption
<1> HIDE DEF stamp
<1>3. flush.row \in Rows /\ queue \in QueueType /\ flush \in FlushType
  BY Zenon, <1>1 DEF QueueInv, AtHead
<1>4. Written(flush.row, "prepared", stamp)
  BY ZenonT(30), <1>1, <1>2, <1>3 DEF Written, QueueType, States
<1>5. /\ flush' \in FlushType /\ flush' # Idle
      /\ flush'.row = flush.row /\ flush'.rows = flush.rows
  BY Zenon, <1>1, <1>3 DEF FlushType, Idle
<1>6. queue' \in QueueType /\ Filled(queue') /\ Ordered(queue') /\ AtHead(flush, queue')
  <2>1. flush # Idle /\ "prepared" \in States \ {"none"} /\ "prepared" # "acknowledged"
    BY Zenon, <1>1 DEF States
  <2> QED
    BY Zenon, <1>2, <1>4, <2>1, RowChanged
<1> QED
  BY Zenon, <1>5, <1>6, SamePlace

LEMMA AttemptStep ==
    ASSUME QueueInv, Attempt
    PROVE  QueueInv'
<1>1. /\ flush # Idle /\ flush' = [flush EXCEPT !.pc = "send"]
      /\ queue' = [queue EXCEPT ![flush.row].state = "unresolved"]
  BY DEF Attempt, At, Idle
<1>2. flush.row \in Rows /\ queue \in QueueType /\ flush \in FlushType
  BY Zenon, <1>1 DEF QueueInv, AtHead
<1>3. Written(flush.row, "unresolved", queue[flush.row].stamp) /\ queue[flush.row].stamp \in Int
  BY Zenon, <1>1, <1>2 DEF Written, QueueType, States
<1>4. /\ flush' \in FlushType /\ flush' # Idle
      /\ flush'.row = flush.row /\ flush'.rows = flush.rows
  BY Zenon, <1>1, <1>2 DEF FlushType, Idle
<1>5. queue' \in QueueType /\ Filled(queue') /\ Ordered(queue') /\ AtHead(flush, queue')
  <2>1. flush # Idle /\ "unresolved" \in States \ {"none"} /\ "unresolved" # "acknowledged"
    BY Zenon, <1>1 DEF States
  <2> QED
    BY Zenon, <1>3, <2>1, RowChanged
<1> QED
  BY Zenon, <1>4, <1>5, SamePlace

\* Sending, and the answer, leave the queue alone.
LEMMA MovesOn ==
    ASSUME QueueInv, UNCHANGED queue, flush # Idle,
           NEW pc \in {"wait", "answered"}, NEW answer \in Nat,
           flush' = [flush EXCEPT !.pc = pc, !.answer = answer]
    PROVE  QueueInv'
<1>1. /\ flush' \in FlushType /\ flush' # Idle
      /\ flush'.row = flush.row /\ flush'.rows = flush.rows
  BY ZenonT(30) DEF QueueInv, FlushType, Idle
<1>2. queue' \in QueueType /\ Filled(queue') /\ Ordered(queue') /\ AtHead(flush, queue')
  BY Zenon DEF QueueInv
<1> QED
  BY Zenon, <1>1, <1>2, SamePlace

LEMMA SendStep ==
    ASSUME QueueInv, Send
    PROVE  QueueInv'
<1>1. /\ flush # Idle /\ UNCHANGED queue /\ flush' = [flush EXCEPT !.pc = "wait"]
  BY DEF Send, At, Idle
<1>2. /\ flush.answer \in Nat
      /\ flush' = [flush EXCEPT !.pc = "wait", !.answer = flush.answer]
  BY ZenonT(30), <1>1 DEF QueueInv, FlushType
<1> QED
  BY ZenonT(30), <1>1, <1>2, MovesOn

\* A row that is done: the flush goes on to the next of its batch, or ends.
LEMMA DoneStep ==
    ASSUME QueueInv, flush # Idle, NEW state \in {"acknowledged", "blocked", "unresolved"},
           queue' = [queue EXCEPT ![flush.row].state = state], flush' = Onward(state)
    PROVE  QueueInv'
<1>1. flush.row \in Rows /\ queue \in QueueType /\ flush \in FlushType
  BY Zenon DEF QueueInv, AtHead
<1>2. Written(flush.row, state, queue[flush.row].stamp) /\ queue[flush.row].stamp \in Int
  BY Zenon, <1>1 DEF Written, QueueType, States
<1>3. /\ queue' \in QueueType /\ Filled(queue') /\ Ordered(queue')
      /\ Batch(flush.rows, queue') \/ state # "acknowledged"
      /\ state = "acknowledged" /\ Op[flush.row] = "post" => NoRotation(queue')
  BY ZenonT(30), <1>2, RowChanged DEF States
<1>4. CASE state # "acknowledged" \/ Op[flush.row] = "rotate"
  <2>1. flush' = Idle /\ Idle \in FlushType
    BY <1>4, Constants DEF Onward, Idle, FlushType
  <2> QED
    BY Zenon, <1>3, <2>1 DEF QueueInv
<1>5. CASE state = "acknowledged" /\ Op[flush.row] = "post"
  <2>1. flush' = Take(flush.rows, flush.retry) /\ flush.retry \in BOOLEAN /\ flush.rows \in SUBSET Rows
    BY Zenon, <1>1, <1>5 DEF Onward, FlushType
  <2>2. flush' \in FlushType /\ (flush' = Idle \/ AtHead(flush', queue'))
    BY Zenon, <1>3, <1>5, <2>1, TakeHead
  <2> QED
    BY Zenon, <1>3, <2>2 DEF QueueInv
<1> QED
  BY Zenon, <1>1, <1>4, <1>5, Constants

-----------------------------------------------------------------------------
(* The board.                                                              *)

Command == [id : Rows \cup {d.id : d \in Direct}, op : {"post", "rotate"},
            body : {Body[i] : i \in Rows} \cup {d.body : d \in Direct},
            stamp : Int, signed : BOOLEAN]
Space == Nat \X (Networks \cup {"account"})
Event == [command : Command, at : Nat, ns : Space, boot : Nat]
RequestRow == [ns : Space, command : Command, at : Nat, receipt : Nat]
SaltType == [day : Int, cur : Nat, prev : Nat, made : Nat, boot : Nat]

\* Each command that was executed has a row with its receipt, a signed one in
\* the account's namespace, which has one row for a request id.
Remembered ==
    /\ \A k \in 1..Len(events) :
         \E r \in requests : /\ r.ns = events[k].ns /\ r.command = events[k].command
                             /\ r.at = events[k].at /\ r.receipt = k
    /\ \A k \in 1..Len(events) : IF events[k].command.signed THEN events[k].ns = Account
                                 ELSE events[k].ns[1] # 0
    /\ \A r, q \in requests :
         r.ns = Account /\ q.ns = Account /\ r.command.id = q.command.id => r = q
    /\ \A r \in requests : r.receipt \in 1..Len(events)

\* The salts s still tell the network of the anonymous event e.
Tells(s, e) ==
    \/ s.day = e.at \div Day /\ s.cur = e.ns[1]
    \/ /\ s.day = e.at \div Day + 1 /\ today = s.day
       /\ s.prev = e.ns[1] /\ s.cur # 0

\* The process knows the salts it used until the grace of the next day ends.
Salty ==
    \A k \in 1..Len(events) :
        LET e == events[k]
        IN  /\ e.at <= now /\ e.boot <= salts.boot
            /\ (/\ ~e.command.signed /\ e.boot = salts.boot
                /\ now < Day * (e.at \div Day + 1) + Grace) => Tells(salts, e)

\* What AppliedOnce says of two executions of one command.
Apart(e, f) ==
    /\ ~e.command.signed
    /\ Public(e.command) => f.at > e.at + CrossNetwork
    /\ \/ e.ns[2] # f.ns[2] \/ e.boot # f.boot
       \/ f.at >= Day * (e.at \div Day + 1) + Grace

Once ==
    \A k, m \in 1..Len(events) :
        k < m /\ events[k].command = events[m].command => Apart(events[k], events[m])

BoardType ==
    /\ now \in Nat /\ signed \in BOOLEAN
    /\ events \in Seq(Event) /\ requests \in SUBSET RequestRow /\ salts \in SaltType

BoardInv == BoardType /\ Remembered /\ Salty /\ Once

LEMMA SaltIs ==
    ASSUME BoardType, NEW c \in Command
    PROVE  Salted(c) \in SaltType /\ (~c.signed => Salted(c).cur # 0)
<1> DEFINE s == expireLocked(salts)
<1>1. salts \in SaltType
  BY Zenon DEF BoardType
<1>2. s \in SaltType
  BY ZenonT(30), <1>1 DEF expireLocked, SaltType
<1>3. today \in Int
  BY RequestsAssumption DEF BoardType, today
<1> HIDE DEF s
<1>4. anonSalt \in SaltType /\ anonSalt.cur # 0
  <2>1. CASE s.cur # 0 /\ s.day = today
    BY Zenon, <1>2, <2>1 DEF anonSalt, s
  <2>2. CASE ~(s.cur # 0 /\ s.day = today)
    <3> DEFINE prev == IF s.day = today - 1 THEN s.cur ELSE 0
               made == s.made + 1
               d == today
    <3>1. anonSalt = [s EXCEPT !.day = d, !.cur = made, !.made = made, !.prev = prev]
      BY Zenon, <2>2 DEF anonSalt, s
    <3>2. prev \in Nat /\ made \in Nat /\ made # 0 /\ d \in Int
      BY <1>2, <1>3 DEF SaltType
    <3> HIDE DEF prev, made, d
    <3>3. [s EXCEPT !.day = d, !.cur = made, !.made = made, !.prev = prev] \in SaltType
      BY ZenonT(30), <1>2, <3>2 DEF SaltType
    <3>4. [s EXCEPT !.day = d, !.cur = made, !.made = made, !.prev = prev].cur = made
      BY Zenon, <1>2 DEF SaltType
    <3> QED
      BY Zenon, <3>1, <3>2, <3>3, <3>4
  <2> QED
    BY Zenon, <2>1, <2>2
<1> QED
  BY Zenon, <1>1, <1>4 DEF Salted

LEMMA SpaceIs ==
    ASSUME NEW s \in SaltType, NEW source \in Networks
    PROVE  /\ Namespaces(TRUE, s, source) = <<Account>>
           /\ Account \in Space
           /\ Namespaces(FALSE, s, source)[1] = <<s.cur, source>>
           /\ <<s.cur, source>> \in Space
           /\ s.cur # 0 => <<s.cur, source>> # Account
<1>1. s.cur \in Nat
  BY Zenon DEF SaltType
<1>2. <<s.cur, source>> \in Space /\ Account \in Space
  BY Zenon, <1>1 DEF Space, Account
<1>3. s.cur # 0 => <<s.cur, source>> # Account
  BY Zenon DEF Account
<1>4. Namespaces(TRUE, s, source) = <<Account>>
  BY Zenon DEF Namespaces
<1>5. Namespaces(FALSE, s, source)[1] = <<s.cur, source>>
  BY DEF Namespaces
<1> QED
  BY ZenonT(30), <1>2, <1>3, <1>4, <1>5

\* What answers a signed command is the account's row of its request id.
LEMMA OwnRows ==
    ASSUME BoardType, NEW c \in Command, NEW source \in Networks, c.signed
    PROVE  Earlier(c, source) = {r \in requests : r.ns = Account /\ r.command.id = c.id}
<1> DEFINE rows == {r \in requests : r.ns = Account /\ r.command.id = c.id}
           spaces == <<Account>>
<1>1. c.signed = TRUE
  BY Zenon DEF Command
<1>2. Namespaces(c.signed, Salted(c), source) = spaces
  BY ZenonT(30), <1>1, SaltIs, SpaceIs
<1>3. Found(c, spaces) = rows
  <2> DEFINE of(ns) == {r \in requests : r.ns = ns /\ r.command.id = c.id}
             hits == {k \in 1..Len(spaces) : of(spaces[k]) # {}}
  <2>1. Len(spaces) = 1 /\ spaces[1] = Account
    BY Zenon
  <2>2. of(spaces[1]) = rows
    BY Zenon, <2>1
  <2>3. Found(c, spaces) = IF hits = {} THEN {}
                           ELSE of(spaces[CHOOSE k \in hits : \A j \in hits : k <= j])
    BY Zenon DEF Found
  <2> HIDE DEF of, spaces
  <2>4. hits = IF rows = {} THEN {} ELSE {1}
    BY <2>1, <2>2
  <2>5. CASE rows = {}
    BY Zenon, <2>3, <2>4, <2>5
  <2>6. CASE rows # {}
    <3>1. hits = {1}
      BY ZenonT(30), <2>4, <2>6
    <3> HIDE DEF hits
    <3>2. (CHOOSE k \in hits : \A j \in hits : k <= j) = 1
      BY <3>1
    <3> QED
      BY Zenon, <2>2, <2>3, <3>1, <3>2
  <2> QED
    BY Zenon, <2>5, <2>6
<1>4. CrossNetworkRetry(c, spaces[1]) = {}
  BY Zenon, <1>1 DEF CrossNetworkRetry
<1> HIDE DEF spaces, rows
<1>5. Earlier(c, source) = IF rows # {} THEN rows ELSE {}
  BY ZenonT(30), <1>2, <1>3, <1>4 DEF Earlier
<1> QED
  BY Zenon, <1>5 DEF rows

-----------------------------------------------------------------------------
(* The days.                                                               *)

LEMMA DayIs ==
    ASSUME NEW t \in Nat
    PROVE  /\ t \div Day \in Nat /\ t % Day \in 0..(Day - 1)
           /\ t = Day * (t \div Day) + (t % Day)
<1>1. Day \in Nat \ {0}
  BY Zenon, RequestsAssumption
<1>2. t \div Day \in Nat /\ t % Day \in 0..(Day - 1)
  BY <1>1
<1>3. PICK q \in Int : q = t \div Day
  BY <1>2
<1>4. PICK r \in Int : r = t % Day
  BY <1>2
<1>5. t = Day * q + r
  BY <1>1, <1>3, <1>4
<1> QED
  BY Zenon, <1>2, <1>3, <1>4, <1>5

LEMMA TimesDay ==
    ASSUME NEW p \in Nat, NEW q \in Nat
    PROVE  /\ Day * p \in Nat /\ Day * (p + 1) = Day * p + Day
           /\ p < q => Day * p + Day <= Day * q
BY RequestsAssumption

LEMMA DaysPass ==
    ASSUME NEW t \in Nat, NEW u \in Nat, t <= u
    PROVE  t \div Day <= u \div Day
<1> DEFINE p == t \div Day
           q == u \div Day
           x == t % Day
           y == u % Day
<1>1. p \in Nat /\ x \in 0..(Day - 1) /\ t = Day * p + x
  BY Zenon, DayIs
<1>2. q \in Nat /\ y \in 0..(Day - 1) /\ u = Day * q + y
  BY Zenon, DayIs
<1> HIDE DEF p, q, x, y
<1>3. Day \in Nat /\ Day * p \in Nat /\ Day * q \in Nat /\ (q < p => Day * q + Day <= Day * p)
  BY Zenon, <1>1, <1>2, TimesDay, RequestsAssumption
<1>4. p <= q
  BY <1>1, <1>2, <1>3
<1> QED
  BY Zenon, <1>4 DEF p, q

\* Until the grace of the next day is over, it is the same day or the grace of
\* the next.
LEMMA NextDay ==
    ASSUME NEW t \in Nat, NEW at \in Nat, at <= t, t < Day * (at \div Day + 1) + Grace
    PROVE  t \div Day = at \div Day \/ (t \div Day = at \div Day + 1 /\ t % Day < Grace)
<1> DEFINE q == at \div Day
           p == t \div Day
           u == t % Day
<1>1. q \in Nat /\ q <= p
  BY Zenon, DayIs, DaysPass
<1>2. p \in Nat /\ u \in 0..(Day - 1) /\ t = Day * p + u
  BY Zenon, DayIs
<1>3. t < Day * (q + 1) + Grace
  BY Zenon
<1> HIDE DEF p, q, u
<1>4. Day \in Nat /\ Grace \in Nat /\ Grace <= Day
  BY Zenon, RequestsAssumption
<1>5. Day * p \in Nat /\ Day * q \in Nat /\ Day * (q + 1) = Day * q + Day
  BY Zenon, <1>1, <1>2, TimesDay
<1>6. p <= q + 1
  <2>1. q + 1 < p => Day * (q + 1) + Day <= Day * p
    BY <1>1, <1>2, TimesDay
  <2> QED
    BY <1>1, <1>2, <1>3, <1>4, <1>5, <2>1
<1>7. p = q + 1 => u < Grace
  BY <1>1, <1>2, <1>3, <1>4, <1>5
<1>8. p = q \/ (p = q + 1 /\ u < Grace)
  BY <1>1, <1>2, <1>6, <1>7
<1> QED
  BY Zenon, <1>8 DEF q, p, u

-----------------------------------------------------------------------------
(* What a command meets.                                                   *)

LEMMA FoundRows ==
    ASSUME NEW c, NEW spaces, Len(spaces) \in Nat
    PROVE  /\ Found(c, spaces) \subseteq requests
           /\ Found(c, spaces) = {} =>
                \A k \in 1..Len(spaces) : \A r \in requests :
                    r.ns = spaces[k] => r.command.id # c.id
<1> DEFINE of(ns) == {r \in requests : r.ns = ns /\ r.command.id = c.id}
           hits == {k \in 1..Len(spaces) : of(spaces[k]) # {}}
<1>1. Found(c, spaces) = IF hits = {} THEN {} ELSE of(spaces[Lowest(hits)])
  BY Zenon DEF Found, Lowest
<1>2. \A ns : of(ns) \subseteq requests
  BY Zenon
<1>3. hits \in SUBSET Nat
  OBVIOUS
<1>4. hits # {} => of(spaces[Lowest(hits)]) # {}
  <2> HIDE DEF of
  <2>1. hits # {} => Lowest(hits) \in hits
    <3> HIDE DEF hits
    <3> QED
      BY Zenon, <1>3, LowestIs
  <2> QED
    BY ZenonT(30), <2>1
<1>5. hits = {} => \A k \in 1..Len(spaces) : \A r \in requests :
                     r.ns = spaces[k] => r.command.id # c.id
  <2>1. ASSUME hits = {}, NEW k \in 1..Len(spaces), NEW r \in requests,
               r.ns = spaces[k], r.command.id = c.id
        PROVE  FALSE
    <3>1. r \in of(spaces[k])
      BY Zenon, <2>1
    <3> HIDE DEF of
    <3> QED
      BY ZenonT(30), <2>1, <3>1
  <2> QED
    BY Zenon, <2>1
<1> HIDE DEF of, hits
<1> QED
  BY Zenon, <1>1, <1>2, <1>4, <1>5

\* The namespaces of an anonymous command.
LEMMA SpacesOf ==
    ASSUME NEW s \in SaltType, NEW source \in Networks
    PROVE  LET spaces == Namespaces(FALSE, s, source)
           IN  /\ Len(spaces) \in Nat /\ 1 \in 1..Len(spaces)
               /\ spaces[1] = <<s.cur, source>>
               /\ previousSalt(s) # 0 => 2 \in 1..Len(spaces)
                                         /\ spaces[2] = <<previousSalt(s), source>>
BY DEF Namespaces

LEMMA EarlierRows ==
    ASSUME BoardType, NEW c \in Command, NEW source \in Networks
    PROVE  Earlier(c, source) \subseteq requests
<1> DEFINE spaces == Namespaces(c.signed, Salted(c), source)
<1>1. Len(spaces) \in Nat
  <2>1. CASE c.signed
    BY Zenon, <2>1 DEF Namespaces
  <2>2. CASE ~c.signed
    BY Zenon, <2>2, SaltIs, SpacesOf DEF Command
  <2> QED
    BY Zenon, <2>1, <2>2
<1>2. CrossNetworkRetry(c, spaces[1]) \subseteq requests
  BY Zenon DEF CrossNetworkRetry
<1>3. Earlier(c, source) = IF Found(c, spaces) # {} THEN Found(c, spaces)
                           ELSE CrossNetworkRetry(c, spaces[1])
  BY Zenon DEF Earlier
<1> HIDE DEF spaces
<1> QED
  BY <1>1, <1>2, <1>3, FoundRows

LEMMA AnswerIs ==
    ASSUME BoardType, Remembered, NEW c \in Command, NEW source \in Networks
    PROVE  /\ Answer(c, source) \in Nat
           /\ Answer(c, source) = NewReceipt => Earlier(c, source) = {}
<1> DEFINE rows == Earlier(c, source)
<1>1. Len(events) \in Nat
  BY SMTT(30) DEF BoardType
<1>2. rows # {} => Receipt(rows) \in 1..Len(events)
  BY Zenon, EarlierRows DEF Receipt, Remembered
<1>3. Admission(c) \in 0..(Len(events) + 1)
  <2>1. signedPostRetry(c) \subseteq 1..Len(events)
    BY Zenon DEF signedPostRetry
  <2> QED
    BY SMTT(30), <1>1, <2>1 DEF Admission, NewReceipt
<1>4. Answer(c, source) = IF \E r \in rows : r.command # c THEN 0
                          ELSE IF rows # {} THEN Receipt(rows) ELSE Admission(c)
  BY Zenon DEF Answer
<1> HIDE DEF rows
<1>5. Answer(c, source) \in Nat
  BY <1>1, <1>2, <1>3, <1>4
<1>6. rows # {} => Answer(c, source) # NewReceipt
  BY <1>1, <1>2, <1>4 DEF NewReceipt
<1> QED
  BY Zenon, <1>5, <1>6 DEF rows

\* A command that meets no earlier row has none in its namespaces, and a public
\* anonymous one none anywhere within the window.
LEMMA MeetsNone ==
    ASSUME BoardType, NEW c \in Command, NEW source \in Networks, ~c.signed,
           Earlier(c, source) = {},
           NEW r \in requests, r.command = c
    PROVE  /\ r.ns # <<anonSalt.cur, source>>
           /\ previousSalt(anonSalt) # 0 => r.ns # <<previousSalt(anonSalt), source>>
           /\ Public(c) => r.at < now - CrossNetwork
<1> DEFINE s == anonSalt
           spaces == Namespaces(FALSE, s, source)
<1>1. c.signed = FALSE /\ Salted(c) = s
  BY Zenon DEF Command, Salted
<1>2. s \in SaltType
  BY Zenon, <1>1, SaltIs
<1> HIDE DEF s
<1>3. /\ Len(spaces) \in Nat /\ 1 \in 1..Len(spaces)
      /\ spaces[1] = <<s.cur, source>>
      /\ previousSalt(s) # 0 => 2 \in 1..Len(spaces)
                                /\ spaces[2] = <<previousSalt(s), source>>
  BY ZenonT(30), <1>2, SpacesOf
<1>4. Earlier(c, source) = IF Found(c, spaces) # {} THEN Found(c, spaces)
                           ELSE CrossNetworkRetry(c, spaces[1])
  BY ZenonT(30), <1>1 DEF Earlier
<1> HIDE DEF spaces
<1>5. Found(c, spaces) = {} /\ CrossNetworkRetry(c, spaces[1]) = {}
  BY Zenon, <1>4
<1>6. \A k \in 1..Len(spaces) : r.ns # spaces[k]
  BY Zenon, <1>3, <1>5, FoundRows
<1>7. r.ns # <<s.cur, source>>
  BY Zenon, <1>3, <1>6
<1>8. previousSalt(s) # 0 => r.ns # <<previousSalt(s), source>>
  BY Zenon, <1>3, <1>6
<1>9. ASSUME Public(c) PROVE r.at < now - CrossNetwork
  <2> DEFINE rows == {q \in requests : q.command = c /\ q.ns # spaces[1]
                                       /\ q.at >= now - CrossNetwork}
             receipts == {q.receipt : q \in rows}
  <2>1. CrossNetworkRetry(c, spaces[1]) = {q \in rows : \A p \in rows : q.receipt <= p.receipt}
    BY Zenon, <1>1, <1>9 DEF CrossNetworkRetry
  <2>2. receipts \in SUBSET Nat
    BY Zenon DEF BoardType, RequestRow
  <2>3. rows # {} => Lowest(receipts) \in receipts /\ \A n \in receipts : Lowest(receipts) <= n
    <3>1. rows # {} => receipts # {}
      BY Zenon
    <3> HIDE DEF receipts
    <3> QED
      BY Zenon, <2>2, <3>1, LowestIs
  <2>4. rows # {} => \E q \in rows : \A p \in rows : q.receipt <= p.receipt
    BY ZenonT(30), <2>3
  <2>5. rows = {}
    <3> HIDE DEF rows
    <3> QED
      BY Zenon, <1>5, <2>1, <2>4
  <2>6. ~(r.at >= now - CrossNetwork)
    BY Zenon, <1>3, <1>7, <2>5
  <2>7. r.at \in Nat /\ now - CrossNetwork \in Int
    BY RequestsAssumption DEF BoardType, RequestRow
  <2> QED
    BY SMTT(30), <2>6, <2>7
<1> QED
  BY Zenon, <1>7, <1>8, <1>9 DEF s

\* The salts of the day and of its grace stay with the process.
LEMMA SaltsTell ==
    ASSUME BoardType, NEW e \in Event, e.at <= now, e.ns[1] # 0,
           now < Day * (e.at \div Day + 1) + Grace, Tells(salts, e)
    PROVE  /\ Tells(expireLocked(salts), e)
           /\ Tells(anonSalt, e)
           /\ e.ns[1] \in {anonSalt.cur, previousSalt(anonSalt)}
<1> DEFINE d == e.at \div Day
           s == expireLocked(salts)
           a == anonSalt
<1>1. e.at \in Nat /\ now \in Nat /\ salts \in SaltType
  BY Zenon DEF BoardType, Event
<1>2. d \in Nat /\ today \in Nat
  BY Zenon, <1>1, DayIs DEF today
<1>3. today = d \/ (today = d + 1 /\ inGrace)
  BY Zenon, <1>1, NextDay DEF today, inGrace
<1>4. s.day = salts.day /\ s.made = salts.made /\ s \in SaltType
  BY ZenonT(30), <1>1 DEF expireLocked, SaltType
<1>5. /\ inGrace /\ salts.day = today => s.prev = salts.prev
      /\ salts.day = today \/ (salts.day = today - 1 /\ inGrace) => s.cur = salts.cur
  BY Zenon, <1>1 DEF expireLocked, SaltType
<1>6. Tells(salts, e) <=> \/ salts.day = d /\ salts.cur = e.ns[1]
                          \/ /\ salts.day = d + 1 /\ today = salts.day
                             /\ salts.prev = e.ns[1] /\ salts.cur # 0
  BY Zenon DEF Tells
<1>7. a = IF s.cur # 0 /\ s.day = today THEN s
          ELSE [s EXCEPT !.day = today, !.cur = s.made + 1, !.made = s.made + 1,
                         !.prev = IF s.day = today - 1 THEN s.cur ELSE 0]
  BY Zenon DEF anonSalt
<1>8. Tells(s, e) <=> \/ s.day = d /\ s.cur = e.ns[1]
                      \/ /\ s.day = d + 1 /\ today = s.day
                         /\ s.prev = e.ns[1] /\ s.cur # 0
  BY Zenon DEF Tells
<1>9. Tells(a, e) <=> \/ a.day = d /\ a.cur = e.ns[1]
                      \/ /\ a.day = d + 1 /\ today = a.day
                         /\ a.prev = e.ns[1] /\ a.cur # 0
  BY Zenon DEF Tells
<1> HIDE DEF d, s, a
<1>10. CASE today = d
  <2>1. salts.day = d /\ salts.cur = e.ns[1]
    BY <1>2, <1>6, <1>10
  <2>2. s.day = d /\ s.cur = e.ns[1] /\ a = s
    BY Zenon, <1>4, <1>5, <1>7, <1>10, <2>1
  <2> QED
    BY Zenon, <1>8, <1>9, <2>2 DEF s, a
<1>11. CASE today = d + 1 /\ inGrace
  <2>1. CASE salts.day = d /\ salts.cur = e.ns[1]
    <3>1. s.day = d /\ s.cur = e.ns[1] /\ s.day # today /\ s.day = today - 1
      BY <1>2, <1>4, <1>5, <1>11, <2>1
    <3>2. a = [s EXCEPT !.day = today, !.cur = s.made + 1, !.made = s.made + 1,
                        !.prev = s.cur]
      BY Zenon, <1>7, <3>1
    <3>3. a.day = today /\ a.prev = s.cur /\ a.cur = s.made + 1
      BY Zenon, <1>4, <3>2 DEF SaltType
    <3>4. a.cur # 0
      BY <1>4, <3>3 DEF SaltType
    <3>5. previousSalt(a) = a.prev
      BY Zenon, <1>11, <3>3 DEF previousSalt
    <3> QED
      BY ZenonT(30), <1>8, <1>9, <1>11, <3>1, <3>3, <3>4, <3>5 DEF s, a
  <2>2. CASE /\ salts.day = d + 1 /\ salts.prev = e.ns[1] /\ salts.cur # 0
    <3>1. s.day = today /\ s.prev = e.ns[1] /\ s.cur # 0
      BY Zenon, <1>4, <1>5, <1>11, <2>2
    <3>2. a = s
      BY Zenon, <1>7, <3>1
    <3>3. previousSalt(a) = a.prev
      BY Zenon, <1>11, <3>1, <3>2 DEF previousSalt
    <3> QED
      BY Zenon, <1>8, <1>9, <1>11, <3>1, <3>2, <3>3 DEF s, a
  <2> QED
    BY Zenon, <1>6, <2>1, <2>2
<1> QED
  BY Zenon, <1>3, <1>10, <1>11

-----------------------------------------------------------------------------
(* The board's steps.                                                      *)

LEMMA BoardInit ==
    ASSUME Init
    PROVE  BoardInv
<1>1. BoardType
  <2>1. salts \in SaltType
    BY DEF Init, ServerInit, SaltType
  <2> QED
    BY <2>1, OutboxAssumption DEF Init, ServerInit, BoardType
<1>2. Len(events) = 0
  BY Zenon DEF Init, ServerInit
<1> QED
  BY <1>1, <1>2 DEF Init, ServerInit, BoardInv, Remembered, Salty, Once

\* Whichever way the salts are looked at.
LEMMA SaltKept ==
    ASSUME BoardInv, NEW s \in {salts, expireLocked(salts), anonSalt}
    PROVE  /\ s \in SaltType /\ s.boot = salts.boot
           /\ \A k \in 1..Len(events) :
                /\ ~events[k].command.signed /\ events[k].boot = s.boot
                /\ now < Day * (events[k].at \div Day + 1) + Grace
                => Tells(s, events[k])
<1>1. BoardType /\ salts \in SaltType
  BY Zenon DEF BoardInv, BoardType
<1>2. /\ expireLocked(salts) \in SaltType /\ expireLocked(salts).boot = salts.boot
  BY ZenonT(30), <1>1 DEF expireLocked, SaltType
<1>3. today \in Int
  BY <1>1, RequestsAssumption DEF BoardType, today
<1>4. anonSalt \in SaltType /\ anonSalt.boot = salts.boot
  <2> DEFINE x == expireLocked(salts)
             prev == IF x.day = today - 1 THEN x.cur ELSE 0
             made == x.made + 1
             y == [x EXCEPT !.day = today, !.cur = made, !.made = made, !.prev = prev]
  <2>1. anonSalt \in {x, y}
    BY Zenon DEF anonSalt
  <2>2. x \in SaltType /\ x.boot = salts.boot
    BY Zenon, <1>2
  <2> HIDE DEF x
  <2>3. prev \in Nat /\ made \in Nat
    BY <2>2 DEF SaltType
  <2> HIDE DEF prev, made
  <2>4. y \in SaltType /\ y.boot = x.boot
    BY ZenonT(30), <1>3, <2>2, <2>3 DEF SaltType
  <2> QED
    BY ZenonT(30), <2>1, <2>2, <2>4
<1>5. ASSUME NEW k \in 1..Len(events), ~events[k].command.signed, events[k].boot = salts.boot,
             now < Day * (events[k].at \div Day + 1) + Grace
      PROVE  Tells(s, events[k])
  <2>1. events[k] \in Event
    BY <1>1 DEF BoardType
  <2>2. events[k].ns[1] # 0
    BY Zenon, <1>5 DEF BoardInv, Remembered
  <2>3. events[k].at <= now /\ Tells(salts, events[k])
    BY Zenon, <1>5 DEF BoardInv, Salty
  <2> QED
    BY Zenon, <1>1, <1>5, <2>1, <2>2, <2>3, SaltsTell
<1> QED
  BY Zenon, <1>1, <1>2, <1>4, <1>5

\* A step that executes nothing.
LEMMA BoardLooks ==
    ASSUME BoardInv, salts' \in {salts, expireLocked(salts), anonSalt},
           UNCHANGED <<now, events, requests, signed>>
    PROVE  BoardInv'
<1>1. BoardType'
  BY Zenon, SaltKept DEF BoardInv, BoardType
<1>2. Remembered' /\ Once'
  BY Zenon DEF BoardInv, Remembered, Once, Apart, Public
<1>3. Salty'
  <2>1. ASSUME NEW k \in 1..Len(events), ~events[k].command.signed,
               events[k].boot = salts'.boot,
               now < Day * (events[k].at \div Day + 1) + Grace
        PROVE  Tells(salts, events[k])'
    <3>1. Tells(salts', events[k])
      BY Zenon, <2>1, SaltKept
    <3> QED
      BY Zenon, <3>1 DEF Tells, today
  <2>2. \A k \in 1..Len(events) : events[k].at <= now /\ events[k].boot <= salts'.boot
    BY Zenon, SaltKept DEF BoardInv, Salty
  <2> QED
    BY Zenon, <2>1, <2>2 DEF Salty
<1> QED
  BY Zenon, <1>1, <1>2, <1>3 DEF BoardInv

\* Time passes.
LEMMA BoardTicks ==
    ASSUME BoardInv, now' = now + 1, UNCHANGED <<events, requests, salts, signed>>
    PROVE  BoardInv'
<1>1. BoardType' /\ now \in Nat
  BY SMTT(30) DEF BoardInv, BoardType
<1>2. Remembered' /\ Once'
  BY ZenonT(30) DEF BoardInv, Remembered, Once, Apart, Public
<1>3. Salty'
  <2> SUFFICES ASSUME NEW k \in 1..Len(events)
               PROVE  LET e == events[k]
                      IN  /\ e.at <= now' /\ e.boot <= salts.boot
                          /\ (/\ ~e.command.signed /\ e.boot = salts.boot
                              /\ now' < Day * (e.at \div Day + 1) + Grace) => Tells(salts, e)'
    BY Zenon DEF Salty
  <2> DEFINE e == events[k]
             bound == Day * (e.at \div Day + 1) + Grace
  <2>1. e.at \in Nat
    <3>1. e \in Event
      BY SMTT(30) DEF BoardInv, BoardType
    <3> QED
      BY Zenon, <3>1 DEF Event
  <2>2. e.at <= now /\ e.boot <= salts.boot
    BY Zenon DEF BoardInv, Salty
  <2>3. bound \in Int
    <3>1. \A q \in Nat : Day * (q + 1) + Grace \in Int
      BY RequestsAssumption
    <3> QED
      BY ZenonT(30), <2>1, <3>1, DayIs
  <2>4. ASSUME ~e.command.signed, e.boot = salts.boot, now' < bound
        PROVE  Tells(salts, e)'
    <3>1. now < bound
      BY <1>1, <2>3, <2>4
    <3>2. Tells(salts, e)
      BY Zenon, <2>4, <3>1 DEF BoardInv, Salty
    <3>3. CASE salts.day = e.at \div Day /\ salts.cur = e.ns[1]
      BY Zenon, <3>3 DEF Tells
    <3>4. CASE /\ salts.day = e.at \div Day + 1 /\ today = salts.day
               /\ salts.prev = e.ns[1] /\ salts.cur # 0
      <4> DEFINE q == e.at \div Day
      <4>1. today' = q \/ today' = q + 1
        BY SMTT(30), <1>1, <2>1, <2>2, <2>4, NextDay DEF today
      <4>2. today <= today'
        BY SMTT(30), <1>1, DaysPass DEF today
      <4>3. q \in Nat
        BY ZenonT(30), <2>1, DayIs
      <4>4. today = q + 1
        BY Zenon, <3>4
      <4> HIDE DEF q
      <4>5. today' = today
        BY <4>1, <4>2, <4>3, <4>4
      <4> QED
        BY Zenon, <3>4, <4>5 DEF Tells
    <3> QED
      BY Zenon, <3>2, <3>3, <3>4 DEF Tells
  <2> QED
    BY SMTT(30), <1>1, <2>1, <2>2, <2>4 DEF BoardInv, BoardType, Event
<1> QED
  BY Zenon, <1>1, <1>2, <1>3 DEF BoardInv

\* A restart leaves no event of this boot.
LEMMA BoardRestarts ==
    ASSUME BoardInv, Restart, signed' = signed
    PROVE  BoardInv'
<1>1. salts \in SaltType
  BY Zenon DEF BoardInv, BoardType
<1>2. salts' \in SaltType /\ salts'.boot = salts.boot + 1 /\ salts.boot \in Nat
  <2> DEFINE boot == salts.boot + 1
             zero == 0
  <2>1. salts' = [salts EXCEPT !.day = zero, !.cur = zero, !.prev = zero, !.boot = boot]
    BY Zenon DEF Restart
  <2>2. /\ salts.boot \in Nat /\ boot \in Nat /\ boot = salts.boot + 1
        /\ zero \in Nat /\ zero \in Int
    BY <1>1 DEF SaltType
  <2> HIDE DEF boot, zero
  <2>3. [salts EXCEPT !.day = zero, !.cur = zero, !.prev = zero, !.boot = boot] \in SaltType
    BY ZenonT(30), <1>1, <2>2 DEF SaltType
  <2>4. [salts EXCEPT !.day = zero, !.cur = zero, !.prev = zero, !.boot = boot].boot = boot
    BY Zenon, <1>1 DEF SaltType
  <2> QED
    BY Zenon, <2>1, <2>2, <2>3, <2>4
<1>3. UNCHANGED <<now, events, requests>>
  BY Zenon DEF Restart
<1>4. BoardType' /\ Remembered' /\ Once'
  BY ZenonT(30), <1>2, <1>3 DEF BoardInv, BoardType, Remembered, Once, Apart, Public
<1>5. ASSUME NEW k \in 1..Len(events)
      PROVE  /\ events[k].at <= now /\ events[k].boot <= salts'.boot
             /\ events[k].boot # salts'.boot
  <2>1. events[k].at <= now /\ events[k].boot <= salts.boot
    BY Zenon DEF BoardInv, Salty
  <2>2. events[k] \in Event
    BY DEF BoardInv, BoardType
  <2>3. events[k].boot \in Nat
    BY Zenon, <2>2 DEF Event
  <2> QED
    BY SMTT(30), <1>2, <2>1, <2>3
<1>6. Salty'
  BY Zenon, <1>3, <1>5 DEF Salty
<1> QED
  BY Zenon, <1>4, <1>6 DEF BoardInv

\* The salt a command was given is today's.
LEMMA SaltToday ==
    ASSUME BoardType
    PROVE  anonSalt.day = today
<1> DEFINE x == expireLocked(salts)
           prev == IF x.day = today - 1 THEN x.cur ELSE 0
           made == x.made + 1
<1>1. x \in SaltType
  BY ZenonT(30) DEF BoardType, expireLocked, SaltType
<1>2. CASE x.cur # 0 /\ x.day = today
  BY Zenon, <1>2 DEF anonSalt
<1>3. CASE ~(x.cur # 0 /\ x.day = today)
  <2>1. anonSalt = [x EXCEPT !.day = today, !.cur = made, !.made = made, !.prev = prev]
    BY Zenon, <1>3 DEF anonSalt
  <2> HIDE DEF x, prev, made
  <2> QED
    BY Zenon, <1>1, <2>1 DEF SaltType
<1> QED
  BY Zenon, <1>2, <1>3

\* The namespace that a command is remembered in.
LEMMA OwnSpace ==
    ASSUME BoardType, NEW c \in Command, NEW source \in Networks
    PROVE  LET ns == Namespaces(c.signed, Salted(c), source)[1]
           IN  /\ ns \in Space
               /\ IF c.signed THEN ns = Account
                  ELSE ns = <<anonSalt.cur, source>> /\ ns[1] # 0 /\ ns # Account
<1>1. Salted(c) \in SaltType /\ (~c.signed => Salted(c).cur # 0)
  BY Zenon, SaltIs
<1>2. CASE c.signed
  <2>1. c.signed = TRUE
    BY Zenon, <1>2 DEF Command
  <2>2. Namespaces(c.signed, Salted(c), source) = <<Account>> /\ Account \in Space
    BY ZenonT(30), <1>1, <2>1, SpaceIs
  <2>3. <<Account>>[1] = Account
    BY Zenon
  <2> QED
    BY ZenonT(30), <1>2, <2>2, <2>3
<1>3. CASE ~c.signed
  <2>1. c.signed = FALSE /\ Salted(c) = anonSalt
    BY Zenon, <1>3 DEF Command, Salted
  <2>2. /\ Namespaces(c.signed, Salted(c), source)[1] = <<anonSalt.cur, source>>
        /\ <<anonSalt.cur, source>> \in Space /\ <<anonSalt.cur, source>> # Account
    BY ZenonT(30), <1>1, <1>3, <2>1, SpaceIs
  <2>3. <<anonSalt.cur, source>>[1] # 0
    BY Zenon, <1>1, <1>3, <2>1
  <2> QED
    BY Zenon, <1>3, <2>2, <2>3
<1> QED
  BY Zenon, <1>2, <1>3

\* A command that is executed again is one that Apart allows.
LEMMA ExecutedAgain ==
    ASSUME BoardInv, NEW c \in Command, NEW source \in Networks,
           Answer(c, source) = NewReceipt,
           NEW k \in 1..Len(events), events[k].command = c,
           NEW f, f.at = now, f.boot = salts.boot,
           f.ns = Namespaces(c.signed, Salted(c), source)[1]
    PROVE  Apart(events[k], f)
<1> DEFINE e == events[k]
<1>1. BoardType /\ Remembered
  BY Zenon DEF BoardInv
<1>2. Earlier(c, source) = {}
  BY Zenon, <1>1, AnswerIs
<1>3. PICK r \in requests : r.ns = e.ns /\ r.command = c /\ r.at = e.at /\ r.receipt = k
  BY Zenon, <1>1 DEF Remembered
<1>4. e \in Event /\ (IF c.signed THEN e.ns = Account ELSE e.ns[1] # 0)
  BY SMTT(30), <1>1 DEF BoardType, Remembered
<1>5. ~c.signed
  <2>1. ASSUME c.signed PROVE FALSE
    <3>1. r \in {q \in requests : q.ns = Account /\ q.command.id = c.id}
      BY Zenon, <1>3, <1>4, <2>1
    <3> QED
      BY Zenon, <1>1, <1>2, <2>1, <3>1, OwnRows
  <2> QED
    BY Zenon, <2>1
<1>6. f.ns = <<anonSalt.cur, source>>
  BY ZenonT(30), <1>1, <1>5, OwnSpace
<1>7. /\ e.ns # <<anonSalt.cur, source>>
      /\ previousSalt(anonSalt) # 0 => e.ns # <<previousSalt(anonSalt), source>>
      /\ Public(c) => e.at < now - CrossNetwork
  BY Zenon, <1>1, <1>2, <1>3, <1>5, MeetsNone
<1>8. e.at \in Nat /\ e.ns \in Space /\ now \in Nat /\ CrossNetwork \in Nat
  BY Zenon, <1>1, <1>4, RequestsAssumption DEF Event, BoardType
<1>9. Public(c) => f.at > e.at + CrossNetwork
  BY SMTT(30), <1>7, <1>8
<1>10. ASSUME e.ns[2] = f.ns[2], e.boot = f.boot, ~(f.at >= Day * (e.at \div Day + 1) + Grace)
       PROVE  FALSE
  <2>1. e.ns = <<e.ns[1], source>>
    BY SMTT(30), <1>6, <1>8, <1>10 DEF Space
  <2>2. now < Day * (e.at \div Day + 1) + Grace
    <3>1. \A q \in Nat : Day * (q + 1) + Grace \in Int
      BY SMTT(30), RequestsAssumption
    <3>2. Day * (e.at \div Day + 1) + Grace \in Int
      BY ZenonT(30), <1>8, <3>1, DayIs
    <3> QED
      BY SMTT(30), <1>8, <1>10, <3>2
  <2>3. e.at <= now /\ Tells(salts, e)
    BY Zenon, <1>5, <1>10, <2>2 DEF BoardInv, Salty
  <2>4. e.ns[1] # 0
    BY Zenon, <1>4, <1>5
  <2>5. e.ns[1] \in {anonSalt.cur, previousSalt(anonSalt)}
    BY Zenon, <1>1, <1>4, <2>2, <2>3, <2>4, SaltsTell
  <2> QED
    BY Zenon, <1>7, <2>1, <2>4, <2>5
<1> QED
  BY Zenon, <1>5, <1>9, <1>10 DEF Apart

\* The command that is executed.
LEMMA CommandExecuted ==
    ASSUME BoardInv, NEW c \in Command, NEW source \in Networks,
           executeCommand(c, source), Answer(c, source) = NewReceipt, signed' = signed
    PROVE  BoardInv'
<1> DEFINE n == Len(events)
           ns == Namespaces(c.signed, Salted(c), source)[1]
           f == [command |-> c, at |-> now, ns |-> ns, boot |-> salts.boot]
           row == [ns |-> ns, command |-> c, at |-> now, receipt |-> n + 1]
<1>1. BoardType /\ Remembered /\ Earlier(c, source) = {}
  BY Zenon, AnswerIs DEF BoardInv
<1>2. now' = now /\ salts' = Salted(c) /\ events' = Append(events, f) /\ requests' = requests \cup {row}
  BY Zenon DEF executeCommand, NewReceipt
<1>3. /\ ns \in Space
      /\ IF c.signed THEN ns = Account ELSE ns = <<anonSalt.cur, source>> /\ ns[1] # 0 /\ ns # Account
  BY ZenonT(30), <1>1, OwnSpace
<1>4. \A k \in 1..n : events[k].command = c => Apart(events[k], f)
  <2>1. f.at = now /\ f.boot = salts.boot /\ f.ns = ns
    BY Zenon
  <2> HIDE DEF f
  <2> QED
    BY ZenonT(30), <2>1, ExecutedAgain
<1> HIDE DEF ns
<1>5. now \in Nat /\ salts \in SaltType /\ events \in Seq(Event) /\ requests \in SUBSET RequestRow /\ n \in Nat
  BY SMTT(30), <1>1 DEF BoardType
<1>6. f \in Event /\ row \in RequestRow
  BY SMTT(30), <1>3, <1>5 DEF Event, RequestRow, SaltType
<1>7. /\ f.command = c /\ f.at = now /\ f.ns = ns /\ f.boot = salts.boot
      /\ row.command = c /\ row.at = now /\ row.ns = ns /\ row.receipt = n + 1
  BY Zenon
<1> HIDE DEF f, row
<1>8. /\ Len(events') = n + 1 /\ events' \in Seq(Event)
      /\ \A k \in 1..n : events'[k] = events[k]
      /\ events'[n + 1] = f
  BY <1>2, <1>5, <1>6
<1> HIDE DEF n
<1>9. salts' \in {salts, expireLocked(salts), anonSalt}
  BY Zenon, <1>2 DEF Salted
<1>10. salts' \in SaltType /\ salts'.boot = salts.boot
  BY Zenon, <1>9, SaltKept
<1>11. BoardType'
  BY Zenon, <1>1, <1>2, <1>5, <1>6, <1>8, <1>10 DEF BoardType
<1>12. Remembered'
  <2>1. \A k \in 1..(n + 1) :
          \E r \in requests' : /\ r.ns = events'[k].ns /\ r.command = events'[k].command
                               /\ r.at = events'[k].at /\ r.receipt = k
    <3>1. ASSUME NEW k \in 1..n
          PROVE  \E r \in requests' : /\ r.ns = events'[k].ns /\ r.command = events'[k].command
                                      /\ r.at = events'[k].at /\ r.receipt = k
      BY SMTT(30), <1>1, <1>2, <1>8 DEF Remembered, n
    <3>2. /\ row \in requests' /\ row.ns = events'[n + 1].ns /\ row.command = events'[n + 1].command
          /\ row.at = events'[n + 1].at /\ row.receipt = n + 1
      BY Zenon, <1>2, <1>7, <1>8
    <3>3. 1..(n + 1) = 1..n \cup {n + 1}
      BY SMTT(30), <1>5
    <3> QED
      BY Zenon, <3>1, <3>2, <3>3
  <2>2. \A k \in 1..(n + 1) : IF events'[k].command.signed THEN events'[k].ns = Account
                              ELSE events'[k].ns[1] # 0
    <3>1. \A k \in 1..n : IF events'[k].command.signed THEN events'[k].ns = Account
                          ELSE events'[k].ns[1] # 0
      BY Zenon, <1>1, <1>8 DEF Remembered, n
    <3>2. IF f.command.signed THEN f.ns = Account ELSE f.ns[1] # 0
      BY Zenon, <1>3, <1>7
    <3>3. 1..(n + 1) = 1..n \cup {n + 1}
      BY SMTT(30), <1>5
    <3> QED
      BY Zenon, <1>8, <3>1, <3>2, <3>3
  <2>3. \A r \in requests : r.ns = Account /\ row.ns = Account => r.command.id # row.command.id
    <3>1. c.signed => \A r \in requests : r.ns = Account => r.command.id # c.id
      BY Zenon, <1>1, OwnRows
    <3> QED
      BY Zenon, <1>3, <1>7, <3>1
  <2>4. \A r, q \in requests' :
          r.ns = Account /\ q.ns = Account /\ r.command.id = q.command.id => r = q
    BY ZenonT(30), <1>1, <1>2, <2>3 DEF Remembered
  <2>5. \A r \in requests' : r.receipt \in 1..(n + 1)
    <3>1. \A r \in requests : r.receipt \in 1..n
      BY Zenon, <1>1 DEF Remembered, n
    <3> QED
      BY SMTT(30), <1>2, <1>5, <1>7, <3>1
  <2> QED
    BY Zenon, <1>8, <2>1, <2>2, <2>4, <2>5 DEF Remembered
<1>13. Salty'
  <2> DEFINE Soon(e) == /\ ~e.command.signed /\ e.boot = salts'.boot
                        /\ now < Day * (e.at \div Day + 1) + Grace
             Fits(e) == \/ salts'.day = e.at \div Day /\ salts'.cur = e.ns[1]
                        \/ /\ salts'.day = e.at \div Day + 1 /\ today = salts'.day
                           /\ salts'.prev = e.ns[1] /\ salts'.cur # 0
             Known(e) == e.at <= now /\ e.boot <= salts'.boot /\ (Soon(e) => Fits(e))
  <2>1. ASSUME NEW k \in 1..n
        PROVE  Known(events[k])
    <3>1. events[k].at <= now /\ events[k].boot <= salts.boot
      BY Zenon DEF BoardInv, Salty, n
    <3>2. Soon(events[k]) => Tells(salts', events[k])
      BY Zenon, <1>9, SaltKept DEF n
    <3> QED
      BY Zenon, <1>10, <3>1, <3>2 DEF Tells
  <2>2. Known(f)
    <3>1. f.at <= now /\ f.boot <= salts'.boot
      BY SMTT(30), <1>5, <1>7, <1>10 DEF SaltType
    <3>2. ~c.signed => salts' = anonSalt
      BY Zenon, <1>2 DEF Salted
    <3>3. ~c.signed => f.ns = <<anonSalt.cur, source>>
      BY Zenon, <1>3, <1>7
    <3>4. ~c.signed => salts'.day = f.at \div Day /\ salts'.cur = f.ns[1]
      BY SMTT(30), <1>1, <1>7, <3>2, <3>3, SaltToday DEF today
    <3> QED
      BY Zenon, <1>7, <3>1, <3>4
  <2>3. ASSUME NEW k \in 1..(n + 1) PROVE Known(events'[k])
    <3>1. k \in 1..n \/ k = n + 1
      BY <1>5
    <3> HIDE DEF Known
    <3> QED
      BY Zenon, <1>8, <2>1, <2>2, <3>1
  <2>4. today' = today
    BY Zenon, <1>2 DEF today
  <2> QED
    BY ZenonT(30), <1>2, <1>8, <2>3, <2>4 DEF Salty, Tells
<1>14. Once'
  <2>1. ASSUME NEW k \in 1..(n + 1), NEW m \in 1..(n + 1), k < m,
               events'[k].command = events'[m].command
        PROVE  Apart(events'[k], events'[m])
    <3>1. k \in 1..n /\ (m \in 1..n \/ m = n + 1)
      BY SMTT(30), <1>5, <2>1
    <3>2. CASE m \in 1..n
      BY Zenon, <1>8, <2>1, <3>1, <3>2 DEF BoardInv, Once, n
    <3>3. CASE m = n + 1
      BY Zenon, <1>4, <1>7, <1>8, <2>1, <3>1, <3>3
    <3> QED
      BY Zenon, <3>1, <3>2, <3>3
  <2> QED
    BY ZenonT(30), <1>8, <2>1 DEF Once, Apart, Public
<1> QED
  BY Zenon, <1>11, <1>12, <1>13, <1>14 DEF BoardInv

-----------------------------------------------------------------------------
(* The whole.                                                              *)

IInv == QueueInv /\ BoardInv

LEMMA EnvelopeIs ==
    ASSUME QueueInv, BoardType, NEW i \in Rows
    PROVE  Envelope(i) \in Command
<1>1. queue[i].stamp \in Int
  BY Zenon DEF QueueInv, QueueType
<1>2. Op[i] \in {"post", "rotate"} /\ signed \in BOOLEAN
  BY Zenon, Constants DEF BoardType
<1> QED
  BY Zenon, <1>1, <1>2 DEF Envelope, Command

LEMMA CommandStep ==
    ASSUME BoardInv, NEW c \in Command, NEW source \in Networks,
           executeCommand(c, source), signed' = signed
    PROVE  BoardInv'
<1>1. CASE Answer(c, source) = NewReceipt
  BY Zenon, <1>1, CommandExecuted
<1>2. CASE Answer(c, source) # NewReceipt
  <2>1. UNCHANGED <<now, events, requests>> /\ salts' \in {salts, anonSalt}
    BY Zenon, <1>2 DEF executeCommand, Salted
  <2> QED
    BY Zenon, <2>1, BoardLooks
<1> QED
  BY Zenon, <1>1, <1>2

LEMMA HeardStep ==
    ASSUME QueueInv, NEW i \in Rows, NEW answer \in Nat, Heard(i, answer), UNCHANGED queue
    PROVE  QueueInv'
<1>1. CASE At("wait") /\ flush.row = i
  <2>1. flush # Idle /\ flush' = [flush EXCEPT !.pc = "answered", !.answer = answer]
    BY <1>1 DEF Heard, At, Idle
  <2>2. "answered" \in {"wait", "answered"}
    BY Zenon
  <2> QED
    BY ZenonT(30), <2>1, <2>2, MovesOn
<1>2. CASE ~(At("wait") /\ flush.row = i)
  BY Zenon, <1>2, QueueStutters DEF Heard
<1> QED
  BY Zenon, <1>1, <1>2

\* The rows' part of a step.
LEMMA QueueStep ==
    ASSUME QueueInv, BoardInv, Next
    PROVE  QueueInv'
<1>1. ASSUME NEW i \in Rows, enqueue(i) PROVE QueueInv'
  BY Zenon, <1>1, EnqueueStep
<1>2. ASSUME NEW n \in Limits, NEW retry \in BOOLEAN, Flush(n, retry) PROVE QueueInv'
  BY Zenon, <1>2, FlushStep
<1>3. ASSUME NEW i \in Rows, NEW retry \in BOOLEAN, deliver(i, retry) PROVE QueueInv'
  BY Zenon, <1>3, DeliverStep
<1>4. ASSUME NEW skew \in Skews, Prepare(skew) PROVE QueueInv'
  BY Zenon, <1>4, PrepareStep DEF BoardInv, BoardType
<1>5. CASE Attempt
  BY Zenon, <1>5, AttemptStep
<1>6. CASE Send
  BY Zenon, <1>6, SendStep
<1>7. CASE Acknowledge
  <2>1. /\ flush # Idle /\ flush' = Onward("acknowledged")
        /\ queue' = [queue EXCEPT ![flush.row].state = "acknowledged"]
    BY <1>7 DEF Acknowledge, At, Idle
  <2>2. "acknowledged" \in {"acknowledged", "blocked", "unresolved"}
    BY Zenon
  <2> QED
    BY Zenon, <2>1, <2>2, DoneStep
<1>8. ASSUME NEW state \in {"blocked", "unresolved"}, Fail(state) PROVE QueueInv'
  <2>1. /\ flush # Idle /\ flush' = Onward(state)
        /\ queue' = [queue EXCEPT ![flush.row].state = state]
    <3>1. At("answered") \/ At("wait") => flush # Idle
      BY DEF At, Idle
    <3> QED
      BY ZenonT(30), <1>8, <3>1 DEF Fail
  <2>2. state \in {"acknowledged", "blocked", "unresolved"}
    BY Zenon
  <2> QED
    BY ZenonT(30), <2>1, <2>2, DoneStep
<1>9. CASE Crash
  <2>1. Idle \in FlushType
    BY Constants DEF Idle, FlushType
  <2>2. flush' = Idle /\ UNCHANGED queue
    BY Zenon, <1>9 DEF Crash
  <2>3. Filled(queue)' /\ Ordered(queue)'
    BY Zenon, <2>2 DEF QueueInv, Filled, Ordered
  <2>4. (queue \in QueueType)' /\ (flush \in FlushType)'
    BY Zenon, <2>1, <2>2 DEF QueueInv
  <2> QED
    BY Zenon, <2>2, <2>3, <2>4 DEF QueueInv
<1>10. ASSUME NEW i \in Rows, NEW source \in Networks, NEW lost \in BOOLEAN, Serve(i, source, lost)
       PROVE  QueueInv'
  <2>1. Answer(Envelope(i), source) \in Nat
    BY Zenon, EnvelopeIs, AnswerIs DEF BoardInv
  <2>2. UNCHANGED queue /\ (flush' = flush \/ Heard(i, Answer(Envelope(i), source)))
    BY Zenon, <1>10 DEF Serve
  <2> QED
    BY Zenon, <2>1, <2>2, HeardStep, QueueStutters
<1>11. ASSUME NEW i \in Rows, Refused(i) PROVE QueueInv'
  BY Zenon, <1>11, HeardStep DEF Refused
<1>12. ASSUME NEW i \in Rows, Drop(i) PROVE QueueInv'
  BY Zenon, <1>12, QueueStutters DEF Drop
<1>13. CASE Board
  BY ZenonT(30), <1>13, QueueStutters DEF Board, Post, Tick, client
<1> QED
  BY Zenon, <1>1, <1>2, <1>3, <1>4, <1>5, <1>6, <1>7, <1>8, <1>9, <1>10, <1>11, <1>12, <1>13
     DEF Next, Step, Network

\* The board's part of a step.
LEMMA BoardStep ==
    ASSUME QueueInv, BoardInv, Next
    PROVE  BoardInv'
<1>1. ASSUME NEW i \in Rows, NEW source \in Networks, NEW lost \in BOOLEAN, Serve(i, source, lost)
      PROVE  BoardInv'
  <2>1. executeCommand(Envelope(i), source) /\ signed' = signed
    BY Zenon, <1>1 DEF Serve
  <2>2. Envelope(i) \in Command
    BY Zenon, EnvelopeIs DEF BoardInv
  <2> HIDE DEF Envelope
  <2> QED
    BY Zenon, <2>1, <2>2, CommandStep
<1>2. ASSUME NEW i \in Rows, Refused(i) PROVE BoardInv'
  BY Zenon, <1>2, BoardLooks DEF Refused, Refuse
<1>3. ASSUME NEW d \in Direct, NEW source \in Networks, Post(d, source) PROVE BoardInv'
  <2> DEFINE c == [id |-> d.id, op |-> "post", body |-> d.body, stamp |-> now, signed |-> TRUE]
  <2>1. executeCommand(c, source) /\ signed' = signed
    BY ZenonT(30), <1>3 DEF Post, client
  <2>2. c \in Command
    <3>1. now \in Int
      BY DEF BoardInv, BoardType
    <3> QED
      BY Zenon, <3>1 DEF Command
  <2> HIDE DEF c
  <2> QED
    BY Zenon, <2>1, <2>2, CommandStep
<1>4. CASE expireSalt /\ UNCHANGED client
  BY Zenon, <1>4, BoardLooks DEF expireSalt, client
<1>5. CASE Restart /\ signed' = signed
  BY Zenon, <1>5, BoardRestarts
<1>6. CASE Tick
  BY Zenon, <1>6, BoardTicks DEF Tick, client
<1>7. CASE UNCHANGED <<server, signed>>
  BY Zenon, <1>7, BoardLooks DEF server
<1>8. CASE Network
  BY ZenonT(30), <1>1, <1>2, <1>7, <1>8 DEF Network, Drop
<1>9. CASE Board
  BY ZenonT(30), <1>3, <1>4, <1>5, <1>6, <1>9 DEF Board
<1>10. CASE \/ \E i \in Rows : enqueue(i)
            \/ \E n \in Limits, retry \in BOOLEAN : Flush(n, retry)
            \/ \E i \in Rows, retry \in BOOLEAN : deliver(i, retry)
            \/ Step \/ Crash
  BY ZenonT(30), <1>7, <1>10 DEF enqueue, Flush, deliver, Step, Prepare, Attempt, Send, Acknowledge, Fail, Crash
<1> QED
  BY Zenon, <1>8, <1>9, <1>10 DEF Next

LEMMA Invariant == Spec => []IInv
<1>1. Init => IInv
  BY Zenon, QueueInit, BoardInit DEF IInv
<1>2. IInv /\ [Next]_vars => IInv'
  <2>1. ASSUME IInv, Next PROVE IInv'
    BY Zenon, <2>1, QueueStep, BoardStep DEF IInv
  <2>2. ASSUME IInv, UNCHANGED vars PROVE IInv'
    BY Zenon, <2>2, QueueStutters, BoardLooks DEF IInv, vars, server, client
  <2> QED
    BY Zenon, <2>1, <2>2
<1> QED
  BY <1>1, <1>2, PTL DEF Spec

\* No row of the outbox is signed before every earlier one is acknowledged, nor
\* behind a rotation, whatever fails, crashes or is repeated.
THEOREM RowsKeepTheirOrder == Spec => []NoOvertaking
<1>1. IInv => NoOvertaking
  BY Zenon DEF IInv, QueueInv, Ordered, NoOvertaking
<1> QED
  BY <1>1, Invariant, PTL

\* executeCommand applies a signed request once, and an anonymous one again only
\* to a caller whose network, salt or window no longer tells it.
THEOREM ExecutedOnce == Spec => []AppliedOnce
<1>1. ASSUME IInv, NEW i \in Rows, NEW k \in Executed(i), NEW m \in Executed(i), k < m
      PROVE  Apart(events[k], events[m]) /\ ~signed
  <2>1. /\ k \in 1..Len(events) /\ m \in 1..Len(events)
        /\ events[k].command = Envelope(i) /\ events[m].command = Envelope(i)
    BY Zenon DEF Executed
  <2>2. Apart(events[k], events[m])
    BY Zenon, <1>1, <2>1 DEF IInv, BoardInv, Once
  <2>3. Envelope(i).signed = signed
    BY Zenon DEF Envelope
  <2> QED
    BY Zenon, <2>1, <2>2, <2>3 DEF Apart
<1>2. IInv => AppliedOnce
  BY Zenon, <1>1 DEF AppliedOnce, Apart
<1> QED
  BY <1>2, Invariant, PTL

\* A signed request that was executed is answered with the receipt of its
\* execution, though it is stale or its key rotated by then.
THEOREM RetryGetsItsReceipt == Spec => OriginalReceipt
<1>1. ASSUME IInv, NEW i \in Rows, NEW source \in Networks, signed, Executed(i) # {}
      PROVE  Answer(Envelope(i), source) \in Executed(i)
  <2> DEFINE c == Envelope(i)
             rows == Earlier(c, source)
  <2>1. c \in Command /\ c.signed /\ BoardType /\ Remembered
    <3>1. c.signed = signed
      BY Zenon DEF Envelope
    <3> QED
      BY Zenon, <1>1, <3>1, EnvelopeIs DEF IInv, BoardInv
  <2>2. PICK k \in 1..Len(events) : events[k].command = c
    BY Zenon, <1>1 DEF Executed
  <2> HIDE DEF c
  <2>3. PICK r \in requests : r.ns = Account /\ r.command = c /\ r.receipt = k
    BY SMTT(30), <2>1, <2>2 DEF Remembered
  <2>4. rows = {q \in requests : q.ns = Account /\ q.command.id = c.id}
    BY Zenon, <2>1, OwnRows
  <2>5. rows = {r}
    BY ZenonT(30), <2>1, <2>3, <2>4 DEF Remembered
  <2>6. Receipt(rows) = k
    BY Zenon, <2>3, <2>5 DEF Receipt
  <2>7. Answer(c, source) = k
    BY Zenon, <2>3, <2>5, <2>6 DEF Answer
  <2> QED
    BY Zenon, <2>2, <2>7 DEF Executed, c
<1>2. IInv => [\A i \in Rows, source \in Networks, lost \in BOOLEAN :
                 signed /\ Executed(i) # {} /\ Serve(i, source, lost)
                   => Answer(Envelope(i), source) \in Executed(i)]_vars
  BY Zenon, <1>1
<1> QED
  BY <1>2, Invariant, PTL DEF OriginalReceipt
=============================================================================
