--------------------------- MODULE WebhooksProofs ---------------------------
(***************************************************************************)
(* Proofs about Webhooks, for any urls, events, workers and limits.        *)
(*                                                                         *)
(* What the sender does is safe because of the lease: it outlasts what a   *)
(* worker may still do with its delivery (Leased), and a delivery that     *)
(* left the queue never comes back to it, because an event is posted once  *)
(* and a subscription's id is used once (Issued).  So a worker is alone    *)
(* with its delivery, and what it knows of it (Knows) stays true between   *)
(* its statements, whatever commands, maintenance and other workers do.    *)
(***************************************************************************)
EXTENDS Webhooks, TLAPS

SubShape == [state : {"none", "pending", "active", "disabled"}, gen : Nat, age : Nat,
             confirmed : BOOLEAN, disabledAt : BOOLEAN, nonce : BOOLEAN, failures : Nat]
Busy == [pc : {"look", "send", "confirm", "reset", "drop", "retry", "giveup",
               "count", "disable"},
         d : Deliveries, attempts : Nat, nonce : BOOLEAN, left : Nat]
AnswerShape == [ok : BOOLEAN, permanent : BOOLEAN, failed : 0..MaxAttempts]

\* A row of the queue; how long it waits does not matter here.
IsRow(r) == /\ r = [attempts |-> r.attempts, wait |-> r.wait, leased |-> r.leased]
            /\ r.attempts \in Nat /\ r.leased \in Nat

Shapes ==
    /\ sub \in [Urls -> SubShape]
    /\ DOMAIN queue \in SUBSET Deliveries /\ \A d \in DOMAIN queue : IsRow(queue[d])
    /\ worker \in [Workers -> Busy \cup {Idle}]
    /\ answers \in [Deliveries -> AnswerShape]
    /\ expiring \in SUBSET Ids /\ lost \in Nat

Works(w) == worker[w].pc # "idle"
Of(w) == worker[w].d

\* The delivery has been in the queue.
Issued(d) == d.id[2] <= sub[d.id[1]].gen /\ d.event \in DOMAIN posted \cup {Challenge}

\* The longest a worker may still be at its delivery after this statement.
Slack(pc) == IF pc = "look" THEN RequestTime + SettleTime
             ELSE IF pc = "send" THEN SettleTime ELSE 0

\* A worker's delivery is leased for longer than it may take, or gone.
Leased(w) ==
    Of(w) \in DOMAIN queue =>
        /\ worker[w].pc \notin {"count", "disable"}
        /\ queue[Of(w)].leased > worker[w].left + Slack(worker[w].pc)

\* Why a delivery may leave the queue.
Settled(d) ==
    \/ d.event = Challenge
    \/ answers[d].ok \/ answers[d].permanent \/ answers[d].failed >= MaxAttempts
    \/ ~Exists(d.id) \/ sub[d.id[1]].disabledAt

Confirmed(d) == d.id \in consented /\ (Exists(d.id) => sub[d.id[1]].confirmed)

\* What a worker knows of its delivery.
Knows(w) ==
    LET d == Of(w)
        pc == worker[w].pc
        attempts == worker[w].attempts
    IN  /\ d.event # Challenge => Confirmed(d)
        /\ pc = "send" /\ ~worker[w].nonce => d.id \in consented
        /\ pc = "confirm" => d.id \in consented /\ d.event = Challenge
        /\ pc \in {"look", "send", "retry", "giveup"} /\ lost = 0 => ~answers[d].ok
        /\ pc \in {"look", "send"} => attempts <= answers[d].failed /\ attempts < MaxAttempts
        /\ pc = "retry" => attempts + 1 <= answers[d].failed /\ attempts + 1 < MaxAttempts
        /\ pc = "reset" => answers[d].ok
        /\ pc \in {"giveup", "drop"} => Settled(d)
        /\ pc = "disable" /\ Exists(d.id) => sub[d.id[1]].confirmed

WorkOK(w) == Issued(Of(w)) /\ Leased(w) /\ Knows(w)

\* An acknowledged delivery is in the queue only while its worker settles it.
Settling(d) == \E w \in Workers : worker[w].pc \in {"confirm", "reset", "drop"} /\ Of(w) = d

RowOK(d) ==
    /\ Exists(d.id) /\ d.event \in DOMAIN posted \cup {Challenge}
    /\ d.event # Challenge => Confirmed(d)
    /\ Expired(d.id[1]) => lost > 0
    /\ queue[d].attempts <= answers[d].failed /\ queue[d].attempts < MaxAttempts
    /\ answers[d].ok /\ lost = 0 => Settling(d)

ChallengeOf(u) == [id |-> Id(u), event |-> Challenge]

\* A subscription that is not confirmed failed at most once, with its challenge.
FailedOnce(u) ==
    /\ sub[u].failures = 1
    /\ ChallengeOf(u) \notin DOMAIN queue
    /\ \A w \in Workers : Works(w) => Of(w) # ChallengeOf(u)

SubOK(u) ==
    /\ sub[u].state # "none" => sub[u].gen \in 1..MaxGens
    /\ sub[u].confirmed => Id(u) \in consented
    /\ sub[u].state = "active" => sub[u].confirmed
    /\ sub[u].state = "pending" => sub[u].nonce /\ ~sub[u].confirmed
    /\ sub[u].state = "disabled" => sub[u].disabledAt
    /\ sub[u].state # "none" /\ ~sub[u].confirmed /\ sub[u].failures # 0 => FailedOnce(u)

\* What expireWebhooks found has lost its challenge, unless a statement failed.
FoundOK(id) ==
    /\ id[2] <= sub[id[1]].gen
    /\ Exists(id) /\ sub[id[1]].state = "pending" /\ lost = 0 =>
         \A d \in DOMAIN queue : d.id # id

WorkInv == OneSender /\ \A w \in Workers : Works(w) => WorkOK(w)
RowInv == \A d \in DOMAIN queue : RowOK(d)
SubInv == \A u \in Urls : SubOK(u)
AnswerInv == \A d \in Deliveries : answers[d].ok => Issued(d)
FoundInv == \A id \in expiring : FoundOK(id)

IInv == Shapes /\ WorkInv /\ RowInv /\ SubInv /\ AnswerInv /\ FoundInv

-----------------------------------------------------------------------------
(* What every step does.                                                   *)

LEMMA Constants ==
    /\ Challenge \notin Events
    /\ MaxGens \in Nat /\ MaxAttempts \in Nat \ {0}
    /\ Lease \in Nat /\ ClaimTime \in Nat /\ RequestTime \in Nat \ {0} /\ SettleTime \in Nat \ {0}
    /\ ClaimTime + RequestTime + SettleTime < Lease
    /\ DisableFailures \in Nat /\ DisableFailures > 1
BY Zenon, WebhooksAssumption

LEMMA DeliveryIs ==
    ASSUME NEW d \in Deliveries
    PROVE  /\ d.id \in Ids /\ d.id[1] \in Urls /\ d.id[2] \in 1..MaxGens /\ d.id[2] \in Nat
           /\ d = [id |-> d.id, event |-> d.event]
           /\ d.id = <<d.id[1], d.id[2]>>
           /\ d.event \in Events \cup {Challenge}
BY Constants DEF Deliveries, Ids

LEMMA BusyIs ==
    ASSUME Shapes, NEW w \in Workers
    PROVE  /\ Works(w) <=> worker[w] # Idle
           /\ Works(w) <=> worker[w] \in Busy
           /\ Works(w) => Of(w) \in Deliveries
<1>1. worker[w] \in Busy \cup {Idle}
  BY Zenon DEF Shapes
<1>2. Idle.pc = "idle"
  BY Zenon DEF Idle
<1>3. worker[w] \in Busy => worker[w].pc # "idle" /\ worker[w].d \in Deliveries
  BY Zenon DEF Busy
<1> QED
  BY Zenon, <1>1, <1>2, <1>3 DEF Works, Of

\* A subscription's id is used once, and what it was it stays.
Kept(u) ==
    /\ sub[u].gen <= sub'[u].gen
    /\ sub'[u].gen = sub[u].gen /\ sub'[u].state # "none" =>
         /\ sub[u].state # "none"
         /\ sub[u].confirmed => sub'[u].confirmed
         /\ sub[u].disabledAt => sub'[u].disabledAt
         /\ sub'[u].state = "pending" => sub[u].state = "pending"

Grows ==
    /\ \A u \in Urls : Kept(u)
    /\ DOMAIN posted \subseteq DOMAIN posted' /\ consented \subseteq consented' /\ lost <= lost'
    /\ \A d \in Deliveries :
         /\ answers[d].ok => answers'[d].ok
         /\ answers[d].permanent => answers'[d].permanent
         /\ answers[d].failed <= answers'[d].failed

LEMMA Stays ==
    ASSUME Shapes, Shapes', Grows, NEW d \in Deliveries, Issued(d)
    PROVE  /\ Issued(d)'
           /\ Exists(d.id)' =>
                /\ Exists(d.id)
                /\ sub[d.id[1]].confirmed => sub'[d.id[1]].confirmed
                /\ sub[d.id[1]].disabledAt => sub'[d.id[1]].disabledAt
           /\ Confirmed(d) => Confirmed(d)'
           /\ Settled(d) => Settled(d)'
<1> DEFINE u == d.id[1]
<1>1. u \in Urls /\ d.id[2] \in Nat
  BY Zenon, DeliveryIs
<1>2. sub[u] \in SubShape /\ sub'[u] \in SubShape
  BY Zenon, <1>1 DEF Shapes
<1>3. sub[u].gen \in Nat /\ sub'[u].gen \in Nat
  BY Zenon, <1>2 DEF SubShape
<1>4. Kept(u)
  BY Zenon, <1>1 DEF Grows
<1>5. Issued(d)'
  BY <1>1, <1>3, <1>4 DEF Issued, Kept, Grows
<1>6. Exists(d.id)' => /\ Exists(d.id)
                       /\ sub[u].confirmed => sub'[u].confirmed
                       /\ sub[u].disabledAt => sub'[u].disabledAt
  BY <1>1, <1>3, <1>4 DEF Issued, Kept, Exists
<1>7. Confirmed(d) => Confirmed(d)'
  BY Zenon, <1>6 DEF Confirmed, Grows
<1>8. Settled(d) => Settled(d)'
  <2>1. answers[d].failed \in Nat /\ answers'[d].failed \in Nat
    BY Constants DEF Shapes, AnswerShape
  <2>2. answers[d].failed >= MaxAttempts => answers'[d].failed >= MaxAttempts
    BY <2>1, Constants DEF Grows
  <2> QED
    BY Zenon, <1>6, <2>2 DEF Settled, Grows
<1> QED
  BY Zenon, <1>5, <1>6, <1>7, <1>8

\* A worker that the step does not touch, nor its row or the answers to it.
LEMMA OthersStay ==
    ASSUME Shapes, Shapes', Grows, NEW v \in Workers, Works(v), WorkOK(v),
           worker'[v] = worker[v], answers'[Of(v)] = answers[Of(v)],
           Of(v) \in DOMAIN queue' =>
             Of(v) \in DOMAIN queue /\ queue'[Of(v)].leased = queue[Of(v)].leased
    PROVE  WorkOK(v)'
<1>1. Of(v) \in Deliveries /\ Of(v)' = Of(v)
  BY Zenon, BusyIs DEF Of
<1>2. Issued(Of(v))'
  BY Zenon, <1>1, Stays DEF WorkOK
<1>3. Leased(v)'
  BY Zenon, <1>1 DEF WorkOK, Leased
<1>4. lost' = 0 => lost = 0
  BY DEF Grows, Shapes
<1>5. Knows(v)'
  <2>1. Confirmed(Of(v)) => Confirmed(Of(v))'
    BY Zenon, <1>1, Stays DEF WorkOK
  <2>2. Settled(Of(v)) => Settled(Of(v))'
    BY Zenon, <1>1, Stays DEF WorkOK
  <2>3. Exists(Of(v).id)' => /\ Exists(Of(v).id)
                             /\ sub[Of(v).id[1]].confirmed => sub'[Of(v).id[1]].confirmed
    BY Zenon, <1>1, Stays DEF WorkOK
  <2>4. Of(v).id \in consented => Of(v).id \in consented'
    BY Zenon DEF Grows
  <2>5. Knows(v)
    BY Zenon DEF WorkOK
  <2> QED
    BY ZenonT(30), <1>1, <1>4, <2>1, <2>2, <2>3, <2>4, <2>5 DEF Knows
<1> QED
  BY Zenon, <1>2, <1>3, <1>5 DEF WorkOK

\* What comes to the queue is new, a worker's delivery comes from the queue.
NoneBack ==
    /\ \A d \in DOMAIN queue' \ DOMAIN queue :
         /\ ~Issued(d)
         /\ d.id[2] > sub[d.id[1]].gen \/ sub'[d.id[1]].state = "active"
    /\ \A w \in Workers : Works(w)' =>
         (Works(w) /\ Of(w)' = Of(w)) \/ Of(w)' \in DOMAIN queue

LEMMA RowStays ==
    ASSUME Shapes, Shapes', Grows, NEW d \in DOMAIN queue, RowOK(d),
           queue'[d].attempts = queue[d].attempts,
           Exists(d.id)', Expired(d.id[1])' => Expired(d.id[1]) \/ lost' > 0,
           answers'[d].ok /\ lost' = 0 => Settling(d)'
    PROVE  RowOK(d)'
<1>1. d \in Deliveries
  BY Zenon DEF Shapes
<1>2. Issued(d)
  <2>1. sub[d.id[1]].gen \in Nat /\ d.id[2] \in Nat
    BY Zenon, <1>1, DeliveryIs DEF Shapes, SubShape
  <2> QED
    BY <2>1 DEF RowOK, Exists, Issued
<1>3. Confirmed(d) => Confirmed(d)'
  BY Zenon, <1>1, <1>2, Stays
<1>4. lost > 0 => lost' > 0
  BY DEF Grows, Shapes
<1>5. queue'[d].attempts <= answers'[d].failed /\ queue'[d].attempts < MaxAttempts
  <2>1. answers[d] \in AnswerShape /\ answers'[d] \in AnswerShape /\ IsRow(queue[d])
    BY Zenon, <1>1 DEF Shapes
  <2>2. answers[d].failed \in Nat /\ answers'[d].failed \in Nat /\ queue[d].attempts \in Nat
    BY <2>1, Constants DEF AnswerShape, IsRow
  <2>3. answers[d].failed <= answers'[d].failed
    BY Zenon, <1>1 DEF Grows
  <2> QED
    BY <2>2, <2>3 DEF RowOK
<1> QED
  BY Zenon, <1>3, <1>4, <1>5 DEF RowOK, Grows

\* The subscription but for its age.
SameSub(u) ==
    /\ sub'[u].state = sub[u].state /\ sub'[u].gen = sub[u].gen
    /\ sub'[u].confirmed = sub[u].confirmed /\ sub'[u].disabledAt = sub[u].disabledAt
    /\ sub'[u].nonce = sub[u].nonce /\ sub'[u].failures = sub[u].failures

LEMMA FailedOnceStays ==
    ASSUME Shapes, NoneBack, NEW u \in Urls, FailedOnce(u),
           sub'[u].gen = sub[u].gen, sub'[u].failures = sub[u].failures
    PROVE  FailedOnce(u)'
<1> DEFINE d == ChallengeOf(u)
<1>1. d' = d
  BY Zenon DEF ChallengeOf, Id
<1>2. Issued(d)
  <2>1. d.id[1] = u /\ d.id[2] = sub[u].gen /\ d.event = Challenge
    BY Zenon DEF ChallengeOf, Id
  <2>2. sub[u].gen \in Nat
    BY Zenon DEF Shapes, SubShape
  <2> QED
    BY <2>1, <2>2 DEF Issued
<1> HIDE DEF d
<1>3. d \notin DOMAIN queue'
  BY Zenon, <1>2 DEF NoneBack, FailedOnce, d
<1>4. ASSUME NEW w \in Workers, Works(w)' PROVE Of(w)' # d
  BY Zenon, <1>4 DEF NoneBack, FailedOnce, d
<1> QED
  BY Zenon, <1>1, <1>3, <1>4 DEF FailedOnce, d

LEMMA SubStays ==
    ASSUME Shapes, Grows, NoneBack, NEW u \in Urls, SubOK(u), SameSub(u)
    PROVE  SubOK(u)'
<1>1. FailedOnce(u) => FailedOnce(u)'
  BY Zenon, FailedOnceStays DEF SameSub
<1>2. Id(u)' = Id(u) /\ (Id(u) \in consented => Id(u) \in consented')
  BY Zenon DEF Id, SameSub, Grows
<1> QED
  BY Zenon, <1>1, <1>2 DEF SubOK, SameSub

LEMMA AnswersStay ==
    ASSUME Shapes, Shapes', Grows, AnswerInv,
           \A d \in Deliveries : answers'[d].ok => answers[d].ok \/ Issued(d)
    PROVE  AnswerInv'
BY Zenon, Stays DEF AnswerInv

LEMMA FoundStays ==
    ASSUME Shapes, Shapes', Grows, NoneBack, NEW id \in expiring, FoundOK(id)
    PROVE  FoundOK(id)'
<1> DEFINE u == id[1]
<1>1. u \in Urls /\ id[2] \in Nat
  BY Constants DEF Shapes, Ids
<1>2. sub[u].gen \in Nat /\ sub'[u].gen \in Nat
  <2>1. sub[u] \in SubShape /\ sub'[u] \in SubShape
    BY Zenon, <1>1 DEF Shapes
  <2> QED
    BY Zenon, <2>1 DEF SubShape
<1>3. Kept(u) /\ id[2] <= sub[u].gen
  BY Zenon, <1>1 DEF Grows, FoundOK
<1>4. id[2] <= sub'[u].gen
  BY <1>1, <1>2, <1>3 DEF Kept
<1>5. ASSUME Exists(id)', sub'[u].state = "pending", lost' = 0, NEW d \in DOMAIN queue', d.id = id
      PROVE  FALSE
  <2>1. sub'[u].gen = sub[u].gen /\ sub'[u].state # "none" /\ id[2] = sub[u].gen
    BY <1>1, <1>2, <1>3, <1>5 DEF Exists, Kept
  <2>2. Exists(id) /\ sub[u].state = "pending"
    BY Zenon, <1>3, <1>5, <2>1 DEF Kept, Exists
  <2>3. lost = 0
    BY <1>5 DEF Grows, Shapes
  <2>4. d \notin DOMAIN queue
    BY Zenon, <1>5, <2>2, <2>3 DEF FoundOK
  <2>5. d.id[2] > sub[d.id[1]].gen \/ sub'[d.id[1]].state = "active"
    BY Zenon, <2>4 DEF NoneBack
  <2> QED
    BY <1>2, <1>5, <2>1, <2>5
<1> QED
  BY Zenon, <1>4, <1>5 DEF FoundOK

LEMMA InitInv == Init => IInv
<1> SUFFICES ASSUME Init PROVE IInv
  BY Zenon
<1>1. \A u \in Urls : sub[u] = NoSub(0)
  BY Zenon DEF Init
<1>2. NoSub(0) \in SubShape /\ NoSub(0).state = "none" /\ ~NoSub(0).confirmed
  BY Zenon DEF NoSub, SubShape
<1>3. \A d \in Deliveries : answers[d] = NoAnswer
  BY Zenon DEF Init
<1>4. NoAnswer \in AnswerShape /\ ~NoAnswer.ok
  BY Constants DEF NoAnswer, AnswerShape
<1>5. DOMAIN queue = {} /\ expiring = {} /\ lost = 0
  BY DEF Init
<1>6. \A w \in Workers : worker[w] = Idle /\ ~Works(w)
  BY Zenon DEF Init, Works, Idle
<1>7. Shapes
  BY <1>2, <1>4, <1>5 DEF Init, Shapes
<1>8. WorkInv
  BY Zenon, <1>6 DEF WorkInv, OneSender
<1>9. RowInv /\ FoundInv
  BY Zenon, <1>5 DEF RowInv, FoundInv
<1>10. SubInv
  BY Zenon, <1>1, <1>2 DEF SubInv, SubOK
<1>11. AnswerInv
  BY Zenon, <1>3, <1>4 DEF AnswerInv
<1> QED
  BY Zenon, <1>7, <1>8, <1>9, <1>10, <1>11 DEF IInv

-----------------------------------------------------------------------------
(* A worker's statements.                                                  *)

Pcs == {"look", "send", "confirm", "reset", "drop", "retry", "giveup", "count", "disable"}

LEMMA ToIs ==
    ASSUME Shapes, NEW w \in Workers, Works(w), NEW pc \in Pcs, To(w, pc)
    PROVE  /\ worker' \in [Workers -> Busy \cup {Idle}]
           /\ worker'[w].pc = pc /\ Works(w)' /\ Of(w)' = Of(w)
           /\ worker'[w].left = worker[w].left
           /\ \A v \in Workers \ {w} : worker'[v] = worker[v]
<1>1. worker \in [Workers -> Busy \cup {Idle}] /\ worker[w] \in Busy
  BY Zenon, BusyIs DEF Shapes
<1> DEFINE x == [worker[w] EXCEPT !.pc = pc]
<1>2. worker' = [worker EXCEPT ![w] = x]
  BY Zenon DEF To
<1>3. x \in Busy /\ x.pc = pc /\ x.d = worker[w].d /\ x.left = worker[w].left
  BY Zenon, <1>1 DEF Busy, Pcs
<1> HIDE DEF x
<1>4. worker'[w] = x /\ \A v \in Workers \ {w} : worker'[v] = worker[v]
  BY Zenon, <1>1, <1>2
<1>5. worker' \in [Workers -> Busy \cup {Idle}]
  BY Zenon, <1>1, <1>2, <1>3
<1>6. pc # "idle"
  BY Zenon DEF Pcs
<1> QED
  BY Zenon, <1>3, <1>4, <1>5, <1>6 DEF Works, Of

LEMMA DoneIs ==
    ASSUME Shapes, NEW w \in Workers, Done(w)
    PROVE  /\ worker' \in [Workers -> Busy \cup {Idle}] /\ ~Works(w)'
           /\ \A v \in Workers \ {w} : worker'[v] = worker[v]
<1>1. worker \in [Workers -> Busy \cup {Idle}] /\ worker' = [worker EXCEPT ![w] = Idle]
  BY Zenon DEF Shapes, Done
<1>2. worker'[w] = Idle /\ \A v \in Workers \ {w} : worker'[v] = worker[v]
  BY Zenon, <1>1
<1>3. Idle.pc = "idle"
  BY Zenon DEF Idle
<1> QED
  BY Zenon, <1>1, <1>2, <1>3 DEF Works

LEMMA SetsIs ==
    ASSUME Shapes, NEW w \in Workers, Works(w), NEW row \in SubShape, Sets(w, row)
    PROVE  /\ sub' \in [Urls -> SubShape]
           /\ \A u \in Urls : sub'[u] = IF Exists(Of(w).id) /\ u = Of(w).id[1] THEN row ELSE sub[u]
<1>1. Of(w).id[1] \in Urls
  BY Zenon, BusyIs, DeliveryIs
<1>2. sub' = IF Exists(Of(w).id) THEN [sub EXCEPT ![Of(w).id[1]] = row] ELSE sub
  BY Zenon DEF Sets, Of
<1> QED
  BY Zenon, <1>1, <1>2 DEF Shapes

LEMMA WithoutIs ==
    ASSUME Shapes, NEW D, queue' = Without(D)
    PROVE  /\ DOMAIN queue' = DOMAIN queue \ D
           /\ \A d \in DOMAIN queue' : queue'[d] = queue[d]
           /\ DOMAIN queue' \in SUBSET Deliveries /\ \A d \in DOMAIN queue' : IsRow(queue'[d])
BY Zenon DEF Without, Shapes

\* A statement of the worker w leaves alone what is not its delivery.
Frame(w) ==
    /\ \A v \in Workers \ {w} : worker'[v] = worker[v]
    /\ Works(w)' => Of(w)' = Of(w)
    /\ DOMAIN queue' \subseteq DOMAIN queue
    /\ \A d \in DOMAIN queue' : d # Of(w) => queue'[d] = queue[d]
    /\ \A d \in Deliveries : d # Of(w) => answers'[d] = answers[d]

LEMMA FrameBack ==
    ASSUME Shapes, NEW w \in Workers, Works(w), Frame(w)
    PROVE  NoneBack
<1>1. ASSUME NEW v \in Workers, Works(v)' PROVE Works(v) /\ Of(v)' = Of(v)
  BY Zenon, <1>1 DEF Frame, Works, Of
<1> QED
  BY Zenon, <1>1 DEF Frame, NoneBack

LEMMA WorkerStep ==
    ASSUME IInv, Shapes', Grows, NEW w \in Workers, Works(w), Frame(w),
           \A u \in Urls : /\ sub'[u].gen = sub[u].gen
                           /\ sub'[u].state = "none" <=> sub[u].state = "none"
                           /\ Expired(u)' => Expired(u)
                           /\ SubOK(u)',
           expiring' = expiring,
           Works(w)' => WorkOK(w)',
           \A d \in DOMAIN queue' : d = Of(w) => RowOK(d)'
    PROVE  IInv'
<1>1. Shapes /\ OneSender /\ NoneBack
  BY Zenon, FrameBack DEF IInv, WorkInv
<1>2. Of(w) \in Deliveries /\ Issued(Of(w))
  BY Zenon, <1>1, BusyIs DEF IInv, WorkInv, WorkOK
<1>3. ASSUME NEW v \in Workers \ {w}, Works(v)
      PROVE  /\ Of(v) # Of(w) /\ Of(v) \in Deliveries /\ WorkOK(v)
             /\ worker'[v] = worker[v] /\ Works(v)' /\ Of(v)' = Of(v)
  BY Zenon, <1>1, <1>3, BusyIs DEF OneSender, Frame, Works, Of, IInv, WorkInv
<1>4. ASSUME NEW v \in Workers, Works(v)' PROVE WorkOK(v)'
  <2>1. CASE v = w
    BY Zenon, <1>4, <2>1
  <2>2. CASE v # w
    <3>1. Works(v)
      BY Zenon, <1>4, <2>2 DEF Frame, Works
    <3>2. /\ worker'[v] = worker[v] /\ answers'[Of(v)] = answers[Of(v)] /\ WorkOK(v)
          /\ Of(v) \in DOMAIN queue' =>
               Of(v) \in DOMAIN queue /\ queue'[Of(v)].leased = queue[Of(v)].leased
      BY Zenon, <1>3, <2>2, <3>1 DEF Frame
    <3> QED
      BY Zenon, <1>1, <3>1, <3>2, OthersStay
  <2> QED
    BY Zenon, <2>1, <2>2
<1>5. OneSender'
  <2>1. ASSUME NEW v \in Workers, NEW x \in Workers, v # x, Works(v)', Works(x)'
        PROVE  Of(v)' # Of(x)'
    <3>1. ASSUME NEW y \in Workers \ {w}, Works(y)'
          PROVE  Works(y) /\ worker[y] # Idle /\ Of(y)' = Of(y) /\ Of(y) # Of(w)
      <4>1. Works(y)
        BY Zenon, <3>1 DEF Frame, Works
      <4> QED
        BY Zenon, <1>1, <1>3, <4>1, BusyIs
    <3>2. Works(w)' => Of(w)' = Of(w)
      BY Zenon DEF Frame
    <3>3. CASE v = w \/ x = w
      BY Zenon, <2>1, <3>1, <3>2, <3>3
    <3>4. CASE v # w /\ x # w
      BY Zenon, <1>1, <2>1, <3>1, <3>4 DEF OneSender, Of
    <3> QED
      BY Zenon, <3>3, <3>4
  <2>2. ASSUME NEW v \in Workers, worker'[v] # Idle PROVE Works(v)'
    <3>1. worker'[v] \in Busy
      BY Zenon, <2>2 DEF Shapes
    <3> QED
      BY Zenon, <3>1 DEF Busy, Works
  <2> QED
    BY Zenon, <2>1, <2>2 DEF OneSender, Of
<1>6. ASSUME NEW d \in DOMAIN queue' PROVE RowOK(d)'
  <2>1. CASE d = Of(w)
    BY Zenon, <2>1
  <2>2. CASE d # Of(w)
    <3>1. d \in DOMAIN queue /\ queue'[d] = queue[d] /\ d \in Deliveries /\ answers'[d] = answers[d]
      BY Zenon, <1>1, <2>2 DEF Frame, Shapes
    <3>2. RowOK(d) /\ d.id[1] \in Urls
      BY Zenon, <3>1, DeliveryIs DEF IInv, RowInv
    <3>3. Exists(d.id)' /\ (Expired(d.id[1])' => Expired(d.id[1]))
      BY ZenonT(30), <3>2 DEF RowOK, Exists
    <3>4. answers[d].ok /\ lost' = 0 => Settling(d)'
      <4>1. answers[d].ok /\ lost' = 0 => Settling(d)
        BY <1>1, <3>2 DEF RowOK, Grows, Shapes
      <4>2. ASSUME NEW v \in Workers, worker[v].pc \in {"confirm", "reset", "drop"}, Of(v) = d
            PROVE  worker'[v] = worker[v]
        BY Zenon, <2>2, <4>2 DEF Frame
      <4> QED
        BY Zenon, <4>1, <4>2 DEF Settling, Of
    <3> QED
      BY Zenon, <1>1, <3>1, <3>2, <3>3, <3>4, RowStays
  <2> QED
    BY Zenon, <2>1, <2>2
<1>7. AnswerInv'
  <2>1. ASSUME NEW d \in Deliveries, answers'[d].ok PROVE answers[d].ok \/ Issued(d)
    BY ZenonT(30), <1>2, <2>1 DEF Frame
  <2> QED
    BY ZenonT(30), <1>1, <2>1, AnswersStay DEF IInv
<1>8. FoundInv'
  BY Zenon, <1>1, FoundStays DEF IInv, FoundInv
<1> QED
  BY Zenon, <1>4, <1>5, <1>6, <1>7, <1>8 DEF IInv, WorkInv, RowInv, SubInv

LEMMA Quiet ==
    ASSUME Shapes, UNCHANGED <<sub, posted, consented, lost, answers>>
    PROVE  Grows
<1>1. \A u \in Urls : sub[u].gen \in Nat
  BY Zenon DEF Shapes, SubShape
<1>2. \A d \in Deliveries : answers[d].failed \in Nat
  BY Constants DEF Shapes, AnswerShape
<1>3. lost \in Nat
  BY Zenon DEF Shapes
<1> QED
  BY <1>1, <1>2, <1>3 DEF Grows, Kept

LEMMA SubsStay ==
    ASSUME IInv, Grows, NoneBack, UNCHANGED sub
    PROVE  \A u \in Urls : /\ sub'[u].gen = sub[u].gen
                           /\ sub'[u].state = "none" <=> sub[u].state = "none"
                           /\ Expired(u)' => Expired(u)
                           /\ SubOK(u)'
<1>1. ASSUME NEW u \in Urls PROVE SubOK(u)'
  <2>1. SameSub(u)
    BY Zenon DEF SameSub
  <2> QED
    BY Zenon, <2>1, SubStays DEF IInv, SubInv
<1> QED
  BY Zenon, <1>1 DEF Expired

\* What is known of a worker's delivery.
LEMMA WorkerIs ==
    ASSUME IInv, NEW w \in Workers, Works(w)
    PROVE  /\ Shapes /\ worker[w] \in Busy /\ Of(w) \in Deliveries
           /\ Of(w).id[1] \in Urls /\ Of(w).id = <<Of(w).id[1], Of(w).id[2]>>
           /\ worker[w].left \in Nat /\ worker[w].attempts \in Nat
           /\ Issued(Of(w)) /\ Leased(w) /\ Knows(w)
           /\ Of(w) \in DOMAIN queue => RowOK(Of(w)) /\ queue[Of(w)].leased \in Nat
           /\ sub[Of(w).id[1]] \in SubShape /\ SubOK(Of(w).id[1])
           /\ Exists(Of(w).id) => Id(Of(w).id[1]) = Of(w).id
<1>1. Shapes /\ WorkOK(w)
  BY Zenon DEF IInv, WorkInv
<1>2. worker[w] \in Busy /\ Of(w) \in Deliveries
  BY Zenon, <1>1, BusyIs
<1>3. worker[w].left \in Nat /\ worker[w].attempts \in Nat
  BY Zenon, <1>2 DEF Busy
<1>4. Of(w).id[1] \in Urls /\ Of(w).id = <<Of(w).id[1], Of(w).id[2]>>
  BY Zenon, <1>2, DeliveryIs
<1>5. Of(w) \in DOMAIN queue => RowOK(Of(w)) /\ queue[Of(w)].leased \in Nat
  BY Zenon, <1>1 DEF IInv, RowInv, Shapes, IsRow
<1>6. sub[Of(w).id[1]] \in SubShape /\ SubOK(Of(w).id[1])
  BY Zenon, <1>1, <1>4 DEF IInv, SubInv, Shapes
<1>7. Exists(Of(w).id) => Id(Of(w).id[1]) = Of(w).id
  BY Zenon, <1>4 DEF Exists, Id
<1> QED
  BY Zenon, <1>1, <1>2, <1>3, <1>4, <1>5, <1>6, <1>7 DEF WorkOK

\* The row of the worker's delivery, when nothing of it changes.
LEMMA OwnRow ==
    ASSUME IInv, Shapes', Grows, NEW w \in Workers, Works(w), NEW d \in DOMAIN queue', d = Of(w),
           d \in DOMAIN queue, queue'[d].attempts = queue[d].attempts,
           Exists(d.id) => Exists(d.id)',
           Expired(d.id[1])' => Expired(d.id[1]) \/ lost' > 0,
           answers'[d].ok /\ lost' = 0 => Settling(d)'
    PROVE  RowOK(d)'
<1>1. RowOK(d) /\ Shapes
  BY ZenonT(30), WorkerIs
<1>2. Exists(d.id)'
  BY ZenonT(30), <1>1 DEF RowOK
<1> QED
  BY Zenon, <1>1, <1>2, RowStays

LEMMA LookStep ==
    ASSUME IInv, NEW w \in Workers, Look(w)
    PROVE  IInv'
<1> DEFINE d == Of(w)
           drops == ~Exists(d.id) \/ sub[d.id[1]].state = "disabled"
           x == [worker[w] EXCEPT !.pc = "send", !.nonce = sub[d.id[1]].nonce, !.left = RequestTime]
<1>1. /\ worker[w].pc = "look" /\ Works(w)
      /\ UNCHANGED <<sub, queue, used, posted, expiring, lost, consented, answers>>
  BY Zenon DEF Look, At, Works, Rest
<1>2. IF drops THEN To(w, "drop") ELSE worker' = [worker EXCEPT ![w] = x]
  BY ZenonT(30) DEF Look, RowOf, Of
<1>3. /\ Shapes /\ worker[w] \in Busy /\ Leased(w) /\ Knows(w) /\ Issued(d)
      /\ worker[w].left \in Nat /\ sub[d.id[1]] \in SubShape /\ SubOK(d.id[1])
      /\ d \in DOMAIN queue => queue[d].leased \in Nat
      /\ Exists(d.id) => Id(d.id[1]) = d.id
  BY Zenon, <1>1, WorkerIs
<1>4. RequestTime \in Nat /\ SettleTime \in Nat
  BY Zenon, Constants
<1>5. Grows
  BY Zenon, <1>1, <1>3, Quiet
<1>6. /\ worker' \in [Workers -> Busy \cup {Idle}] /\ Works(w)' /\ Of(w)' = d
      /\ \A v \in Workers \ {w} : worker'[v] = worker[v]
      /\ WorkOK(w)'
  <2>1. CASE drops
    <3>1. To(w, "drop") /\ "drop" \in Pcs
      BY Zenon, <1>2, <2>1 DEF Pcs
    <3>2. /\ worker' \in [Workers -> Busy \cup {Idle}] /\ Works(w)' /\ Of(w)' = d
          /\ worker'[w].pc = "drop" /\ worker'[w].left = worker[w].left
          /\ \A v \in Workers \ {w} : worker'[v] = worker[v]
      BY Zenon, <1>1, <1>3, <3>1, ToIs
    <3>3. Settled(d)
      BY ZenonT(30), <1>3, <2>1 DEF Settled, SubOK
    <3>4. Issued(d)' /\ Confirmed(d)' = Confirmed(d) /\ Settled(d)'
      BY ZenonT(30), <1>1, <1>3, <3>2, <3>3 DEF Issued, Confirmed, Settled, Exists
    <3>5. Leased(w)'
      BY <1>1, <1>3, <1>4, <3>2 DEF Leased, Slack
    <3>6. Knows(w)'
      BY ZenonT(30), <1>1, <1>3, <3>2, <3>4 DEF Knows
    <3> QED
      BY Zenon, <3>2, <3>4, <3>5, <3>6 DEF WorkOK
  <2>2. CASE ~drops
    <3>1. /\ x \in Busy /\ x.pc = "send" /\ x.d = d /\ x.attempts = worker[w].attempts
          /\ x.nonce = sub[d.id[1]].nonce /\ x.left = RequestTime
      <4> DEFINE nonce == sub[d.id[1]].nonce
      <4>1. nonce \in BOOLEAN
        BY Zenon, <1>3 DEF SubShape
      <4> HIDE DEF nonce
      <4>2. [worker[w] EXCEPT !.pc = "send", !.nonce = nonce, !.left = RequestTime] \in Busy
        BY ZenonT(30), <1>3, <1>4, <4>1 DEF Busy
      <4>3. /\ x.pc = "send" /\ x.d = d /\ x.attempts = worker[w].attempts
            /\ x.nonce = sub[d.id[1]].nonce /\ x.left = RequestTime
        BY Zenon, <1>3 DEF Busy, Of
      <4> QED
        BY Zenon, <4>2, <4>3 DEF nonce
    <3>2. worker' = [worker EXCEPT ![w] = x]
      BY Zenon, <1>2, <2>2
    <3> HIDE DEF x
    <3>3. /\ worker' \in [Workers -> Busy \cup {Idle}] /\ worker'[w] = x
          /\ \A v \in Workers \ {w} : worker'[v] = worker[v]
      BY Zenon, <1>3, <3>1, <3>2 DEF Shapes
    <3>4. Works(w)' /\ Of(w)' = d
      BY Zenon, <3>1, <3>3 DEF Works, Of
    <3>5. ~x.nonce => d.id \in consented
      <4>1. Exists(d.id) /\ sub[d.id[1]].state \in {"pending", "active"}
        BY ZenonT(30), <1>3, <2>2 DEF SubShape, Exists
      <4> QED
        BY ZenonT(30), <1>3, <3>1, <4>1 DEF SubOK
    <3>6. Leased(w)'
      BY SMTT(30), <1>1, <1>3, <1>4, <3>1, <3>3, <3>4 DEF Leased, Slack
    <3>7. Issued(d)' /\ Confirmed(d)' = Confirmed(d)
      BY Zenon, <1>1, <1>3, <3>4 DEF Issued, Confirmed, Exists
    <3>8. Knows(w)'
      BY ZenonT(30), <1>1, <1>3, <3>1, <3>3, <3>4, <3>5, <3>7 DEF Knows
    <3> QED
      BY Zenon, <3>3, <3>4, <3>6, <3>7, <3>8 DEF WorkOK
  <2> QED
    BY Zenon, <2>1, <2>2
<1>7. Shapes'
  BY ZenonT(30), <1>1, <1>3, <1>6 DEF Shapes
<1>8. Frame(w)
  BY ZenonT(30), <1>1, <1>6 DEF Frame
<1>9. ASSUME NEW e \in DOMAIN queue', e = Of(w) PROVE RowOK(e)'
  <2>1. lost = 0 => ~answers[e].ok
    BY ZenonT(30), <1>1, <1>3, <1>9 DEF Knows
  <2>2. (Exists(e.id) => Exists(e.id)') /\ (Expired(e.id[1])' => Expired(e.id[1]))
    BY ZenonT(30), <1>1 DEF Exists, Expired
  <2> QED
    BY ZenonT(30), <1>1, <1>5, <1>7, <1>9, <2>1, <2>2, OwnRow
<1>10. NoneBack
  BY ZenonT(30), <1>1, <1>3, <1>8, FrameBack
<1> HIDE DEF d, drops, x
<1> QED
  BY ZenonT(30), <1>1, <1>5, <1>6, <1>7, <1>8, <1>9, <1>10, SubsStay, WorkerStep

LEMMA AnswerStep ==
    ASSUME IInv, NEW w \in Workers, NEW ok \in BOOLEAN, NEW permanent \in BOOLEAN,
           NEW echo \in BOOLEAN, Answer(w, ok, permanent, echo)
    PROVE  IInv'
<1> DEFINE d == Of(w)
           pc == IF ~ok THEN IF Exhausted(w, permanent) THEN "giveup" ELSE "retry"
                 ELSE IF ~IsChallenge(w) THEN "reset"
                 ELSE IF echo \/ ~worker[w].nonce THEN "confirm" ELSE "drop"
           failed == IF ok THEN answers[d].failed ELSE Lesser(answers[d].failed + 1, MaxAttempts)
           a == [ok |-> answers[d].ok \/ ok, permanent |-> answers[d].permanent \/ permanent,
                 failed |-> failed]
           x == [worker[w] EXCEPT !.pc = pc, !.left = SettleTime]
<1>1. /\ worker[w].pc = "send" /\ Works(w)
      /\ UNCHANGED <<sub, queue, used, posted, expiring, lost>>
  BY Zenon DEF Answer, At, Works
<1>2. /\ worker' = [worker EXCEPT ![w] = x] /\ answers' = [answers EXCEPT ![d] = a]
      /\ consented' = IF echo /\ worker[w].nonce THEN consented \cup {d.id} ELSE consented
  BY ZenonT(30) DEF Answer, Of
<1>3. /\ Shapes /\ worker[w] \in Busy /\ Leased(w) /\ Knows(w) /\ Issued(d) /\ d \in Deliveries
      /\ worker[w].left \in Nat /\ worker[w].attempts \in Nat
      /\ d \in DOMAIN queue => queue[d].leased \in Nat
  BY Zenon, <1>1, WorkerIs
<1>4. SettleTime \in Nat /\ MaxAttempts \in Nat
  BY Zenon, Constants
<1>5. answers[d] \in AnswerShape /\ answers[d].failed \in 0..MaxAttempts
  BY Zenon, <1>3 DEF Shapes, AnswerShape
<1>6. /\ failed \in 0..MaxAttempts /\ answers[d].failed <= failed
      /\ ~ok => failed = MaxAttempts \/ failed = answers[d].failed + 1
  BY SMTT(30), <1>4, <1>5 DEF Lesser
<1>7. a \in AnswerShape /\ a.ok = (answers[d].ok \/ ok) /\ a.failed = failed
      /\ a.permanent = (answers[d].permanent \/ permanent)
  BY ZenonT(30), <1>5, <1>6 DEF AnswerShape
<1>8. pc \in Pcs /\ pc # "send" /\ pc # "look" /\ pc # "idle"
  BY Zenon DEF Pcs
<1>9. /\ pc = "giveup" => ~ok /\ (permanent \/ worker[w].attempts + 1 >= MaxAttempts \/ d.event = Challenge)
      /\ pc = "retry" => ~ok /\ ~(worker[w].attempts + 1 >= MaxAttempts)
      /\ pc = "reset" => ok
      /\ pc = "confirm" => d.event = Challenge /\ (echo \/ ~worker[w].nonce)
      /\ pc = "drop" => d.event = Challenge
      /\ pc # "disable"
      /\ ok => pc \in {"confirm", "reset", "drop"}
      /\ pc \notin {"count", "disable"}
  BY Zenon DEF Exhausted, IsChallenge, Of
<1> HIDE DEF pc, failed, a
<1>10. x \in Busy /\ x.pc = pc /\ x.d = d /\ x.attempts = worker[w].attempts /\ x.left = SettleTime
  BY ZenonT(30), <1>3, <1>4, <1>8 DEF Busy, Of, Pcs
<1> HIDE DEF x
<1>11. /\ worker' \in [Workers -> Busy \cup {Idle}] /\ worker'[w] = x
       /\ \A v \in Workers \ {w} : worker'[v] = worker[v]
  BY Zenon, <1>2, <1>3, <1>10 DEF Shapes
<1>12. Works(w)' /\ Of(w)' = d
  BY Zenon, <1>8, <1>10, <1>11 DEF Works, Of
<1>13. /\ answers' \in [Deliveries -> AnswerShape] /\ answers'[d] = a
       /\ \A e \in Deliveries : e # d => answers'[e] = answers[e]
  BY Zenon, <1>2, <1>3, <1>7 DEF Shapes
<1>14. Shapes'
  BY ZenonT(30), <1>1, <1>3, <1>11, <1>13 DEF Shapes
<1>15. Grows
  <2>1. \A u \in Urls : sub[u].gen \in Nat
    BY Zenon, <1>3 DEF Shapes, SubShape
  <2>2. \A u \in Urls : Kept(u)
    BY <1>1, <2>1 DEF Kept
  <2>3. ASSUME NEW e \in Deliveries
        PROVE  /\ answers[e].ok => answers'[e].ok
               /\ answers[e].permanent => answers'[e].permanent
               /\ answers[e].failed <= answers'[e].failed
    <3>1. CASE e = d
      BY ZenonT(30), <1>6, <1>7, <1>13, <3>1
    <3>2. CASE e # d
      <4>1. answers[e].failed \in Nat
        BY <1>3, <1>4 DEF Shapes, AnswerShape
      <4> QED
        BY <1>13, <3>2, <4>1
    <3> QED
      BY Zenon, <3>1, <3>2
  <2>4. DOMAIN posted \subseteq DOMAIN posted' /\ consented \subseteq consented' /\ lost <= lost'
    BY <1>1, <1>2, <1>3 DEF Shapes
  <2> QED
    BY Zenon, <2>2, <2>3, <2>4 DEF Grows
<1>16. Frame(w)
  BY Zenon, <1>1, <1>11, <1>12, <1>13 DEF Frame
<1>17. WorkOK(w)'
  <2>1. Issued(d)' /\ (Confirmed(d) => Confirmed(d)')
    BY Zenon, <1>3, <1>12, <1>14, <1>15, Stays
  <2>2. Leased(w)'
    BY SMTT(30), <1>1, <1>3, <1>4, <1>8, <1>9, <1>10, <1>11, <1>12 DEF Leased, Slack
  <2>3. pc = "confirm" => d.id \in consented'
    BY ZenonT(30), <1>1, <1>2, <1>3, <1>9 DEF Knows
  <2>4. pc = "giveup" => answers'[d].permanent \/ answers'[d].failed >= MaxAttempts \/ d.event = Challenge
    <3>1. worker[w].attempts <= answers[d].failed
      BY Zenon, <1>1, <1>3 DEF Knows
    <3> QED
      BY <1>3, <1>4, <1>5, <1>6, <1>7, <1>9, <1>13, <3>1
  <2>5. pc \in {"giveup", "drop"} => Settled(d)'
    BY Zenon, <1>9, <1>12, <2>4 DEF Settled
  <2>6. pc = "retry" => /\ worker[w].attempts + 1 <= answers'[d].failed
                        /\ worker[w].attempts + 1 < MaxAttempts
    <3>1. worker[w].attempts <= answers[d].failed
      BY ZenonT(30), <1>1, <1>3 DEF Knows
    <3> QED
      BY SMTT(30), <1>3, <1>4, <1>5, <1>6, <1>7, <1>9, <1>13, <3>1
  <2>7. pc \in {"retry", "giveup"} /\ lost' = 0 => ~answers'[d].ok
    BY ZenonT(30), <1>1, <1>3, <1>7, <1>9, <1>13 DEF Knows
  <2>8. pc = "reset" => answers'[d].ok
    BY ZenonT(30), <1>7, <1>9, <1>13
  <2>9. Knows(w)'
    BY ZenonT(30), <1>3, <1>8, <1>9, <1>10, <1>11, <1>12, <2>1, <2>3, <2>5, <2>6, <2>7, <2>8 DEF Knows
  <2> QED
    BY Zenon, <1>12, <2>1, <2>2, <2>9 DEF WorkOK
<1>18. ASSUME NEW e \in DOMAIN queue', e = Of(w) PROVE RowOK(e)'
  <2>1. answers'[e].ok /\ lost' = 0 => Settling(e)'
    <3>1. answers'[e].ok /\ lost' = 0 => ok
      BY ZenonT(30), <1>1, <1>3, <1>7, <1>13, <1>18 DEF Knows
    <3> QED
      BY Zenon, <1>9, <1>10, <1>11, <1>12, <1>18, <3>1 DEF Settling
  <2>2. (Exists(e.id) => Exists(e.id)') /\ (Expired(e.id[1])' => Expired(e.id[1]))
    BY Zenon, <1>1 DEF Exists, Expired
  <2> QED
    BY ZenonT(30), <1>1, <1>14, <1>15, <1>18, <2>1, <2>2, OwnRow
<1>19. NoneBack
  BY ZenonT(30), <1>1, <1>3, <1>16, FrameBack
<1> HIDE DEF d
<1> QED
  BY ZenonT(30), <1>1, <1>14, <1>15, <1>16, <1>17, <1>18, <1>19, SubsStay, WorkerStep

\* The statements that take a row from the queue.
LEMMA DropStep ==
    ASSUME IInv, NEW w \in Workers, Drop(w)
    PROVE  IInv'
<1>1. /\ worker[w].pc = "drop" /\ Works(w) /\ queue' = Without({Of(w)}) /\ Done(w)
      /\ UNCHANGED <<sub, used, posted, expiring, lost, consented, answers>>
  BY Zenon DEF Drop, At, Works, Rest, Of
<1>2. Shapes
  BY Zenon DEF IInv
<1>3. /\ DOMAIN queue' = DOMAIN queue \ {Of(w)} /\ \A d \in DOMAIN queue' : queue'[d] = queue[d]
      /\ DOMAIN queue' \in SUBSET Deliveries /\ \A d \in DOMAIN queue' : IsRow(queue'[d])
  BY ZenonT(30), <1>1, <1>2, WithoutIs
<1>4. /\ worker' \in [Workers -> Busy \cup {Idle}] /\ ~Works(w)'
      /\ \A v \in Workers \ {w} : worker'[v] = worker[v]
  BY Zenon, <1>1, <1>2, DoneIs
<1>5. Shapes' /\ Grows
  BY ZenonT(30), <1>1, <1>2, <1>3, <1>4, Quiet DEF Shapes
<1>6. Frame(w)
  BY Zenon, <1>1, <1>3, <1>4 DEF Frame
<1>7. NoneBack
  BY Zenon, <1>1, <1>2, <1>6, FrameBack
<1> QED
  BY ZenonT(30), <1>1, <1>3, <1>4, <1>5, <1>6, <1>7, SubsStay, WorkerStep

LEMMA GiveUpStep ==
    ASSUME IInv, NEW w \in Workers, GiveUp(w)
    PROVE  IInv'
<1>1. /\ worker[w].pc = "giveup" /\ Works(w) /\ queue' = Without({Of(w)}) /\ To(w, "count")
      /\ UNCHANGED <<sub, used, posted, expiring, lost, consented, answers>>
  BY Zenon DEF GiveUp, At, Works, Rest, Of
<1>2. Shapes /\ Knows(w) /\ Issued(Of(w))
  BY Zenon, <1>1, WorkerIs
<1>3. /\ DOMAIN queue' = DOMAIN queue \ {Of(w)} /\ \A d \in DOMAIN queue' : queue'[d] = queue[d]
      /\ DOMAIN queue' \in SUBSET Deliveries /\ \A d \in DOMAIN queue' : IsRow(queue'[d])
  BY ZenonT(30), <1>1, <1>2, WithoutIs
<1>4. /\ worker' \in [Workers -> Busy \cup {Idle}] /\ Works(w)' /\ Of(w)' = Of(w)
      /\ worker'[w].pc = "count"
      /\ \A v \in Workers \ {w} : worker'[v] = worker[v]
  BY Zenon, <1>1, <1>2, ToIs DEF Pcs
<1>5. Shapes' /\ Grows
  BY ZenonT(30), <1>1, <1>2, <1>3, <1>4, Quiet DEF Shapes
<1>6. Frame(w)
  BY Zenon, <1>1, <1>3, <1>4 DEF Frame
<1>7. NoneBack
  BY Zenon, <1>1, <1>2, <1>6, FrameBack
<1>8. WorkOK(w)'
  <2>1. Leased(w)'
    BY Zenon, <1>3, <1>4 DEF Leased
  <2>2. Issued(Of(w))' /\ Confirmed(Of(w))' = Confirmed(Of(w))
    BY ZenonT(30), <1>1, <1>2, <1>4 DEF Issued, Confirmed, Exists
  <2>3. Knows(w)'
    BY ZenonT(30), <1>2, <1>4, <2>2 DEF Knows
  <2> QED
    BY Zenon, <2>1, <2>2, <2>3 DEF WorkOK
<1> QED
  BY Zenon, <1>1, <1>3, <1>5, <1>6, <1>7, <1>8, SubsStay, WorkerStep

LEMMA RetryStep ==
    ASSUME IInv, NEW w \in Workers, Retry(w)
    PROVE  IInv'
<1> DEFINE d == Of(w)
           attempts == worker[w].attempts + 1
<1>1. /\ worker[w].pc = "retry" /\ Works(w) /\ Done(w)
      /\ UNCHANGED <<sub, used, posted, expiring, lost, consented, answers>>
  BY ZenonT(30) DEF Retry, At, Works, Rest
<1>2. PICK wait : queue' = IF d \in DOMAIN queue
                           THEN [queue EXCEPT ![d] = [attempts |-> attempts, wait |-> wait,
                                                      leased |-> 0]]
                           ELSE queue
  BY ZenonT(30) DEF Retry, Of
<1> DEFINE r == [attempts |-> attempts, wait |-> wait, leased |-> 0]
<1>3. /\ Shapes /\ Knows(w) /\ Issued(d) /\ d \in Deliveries /\ worker[w].attempts \in Nat
      /\ d \in DOMAIN queue => RowOK(d)
  BY Zenon, <1>1, WorkerIs
<1>4. attempts \in Nat /\ attempts <= answers[d].failed /\ attempts < MaxAttempts
      /\ (lost = 0 => ~answers[d].ok)
  BY <1>1, <1>3 DEF Knows
<1> HIDE DEF attempts
<1>5. IsRow(r) /\ r.attempts = attempts
  BY ZenonT(30), <1>4 DEF IsRow
<1>6. queue' = IF d \in DOMAIN queue THEN [queue EXCEPT ![d] = r] ELSE queue
  BY Zenon, <1>2
<1> HIDE DEF r
<1>7. /\ DOMAIN queue' = DOMAIN queue
      /\ \A e \in DOMAIN queue' : queue'[e] = IF e = d THEN r ELSE queue[e]
  BY Zenon, <1>6
<1>8. /\ worker' \in [Workers -> Busy \cup {Idle}] /\ ~Works(w)'
      /\ \A v \in Workers \ {w} : worker'[v] = worker[v]
  BY Zenon, <1>1, <1>3, DoneIs
<1>9. Shapes'
  BY ZenonT(30), <1>1, <1>3, <1>5, <1>7, <1>8 DEF Shapes
<1>10. Grows
  BY ZenonT(30), <1>1, <1>3, Quiet
<1>11. Frame(w)
  BY Zenon, <1>1, <1>7, <1>8 DEF Frame
<1>12. NoneBack
  BY Zenon, <1>1, <1>3, <1>11, FrameBack
<1>13. ASSUME NEW e \in DOMAIN queue', e = Of(w) PROVE RowOK(e)'
  <2>1. RowOK(e) /\ queue'[e].attempts = attempts
    BY Zenon, <1>3, <1>5, <1>7, <1>13
  <2>2. Exists(e.id)' /\ Confirmed(e)' = Confirmed(e) /\ Expired(e.id[1])' = Expired(e.id[1])
    BY Zenon, <1>1, <2>1 DEF Exists, Confirmed, Expired, RowOK
  <2> QED
    BY Zenon, <1>1, <1>4, <1>13, <2>1, <2>2 DEF RowOK
<1> HIDE DEF d
<1> QED
  BY ZenonT(30), <1>1, <1>8, <1>9, <1>10, <1>11, <1>12, <1>13, SubsStay, WorkerStep

-----------------------------------------------------------------------------
(* The statements that update the delivery's subscription.                 *)

\* The update row fits the subscription it is written to.
Fits(w, row) ==
    LET old == sub[Of(w).id[1]]
    IN  /\ row \in SubShape /\ row.gen = old.gen
        /\ row.state # "none" /\ (row.state = "pending" => old.state = "pending")
        /\ (old.confirmed => row.confirmed) /\ (old.disabledAt => row.disabledAt)
        /\ row.state = "disabled" /\ ~row.confirmed => Expired(Of(w).id[1])

LEMMA SetsFrame ==
    ASSUME IInv, NEW w \in Workers, Works(w), NEW row, Sets(w, row), row \in SubShape,
           Exists(Of(w).id) => Fits(w, row),
           worker' \in [Workers -> Busy \cup {Idle}],
           \A v \in Workers \ {w} : worker'[v] = worker[v],
           Works(w)' => Of(w)' = Of(w),
           UNCHANGED <<queue, posted, expiring, lost, consented, answers>>
    PROVE  /\ Shapes' /\ Grows /\ Frame(w) /\ NoneBack
           /\ \A u \in Urls : /\ sub'[u].gen = sub[u].gen
                              /\ sub'[u].state = "none" <=> sub[u].state = "none"
                              /\ Expired(u)' => Expired(u)
                              /\ ~Exists(Of(w).id) \/ u # Of(w).id[1] => SubOK(u)'
           /\ Exists(Of(w).id) => sub'[Of(w).id[1]] = row
           /\ \A d \in Deliveries : Exists(d.id)' <=> Exists(d.id)
<1>1. Shapes /\ Of(w).id[1] \in Urls
  BY ZenonT(30), WorkerIs
<1>2. /\ sub' \in [Urls -> SubShape]
      /\ \A u \in Urls : sub'[u] = IF Exists(Of(w).id) /\ u = Of(w).id[1] THEN row ELSE sub[u]
  BY ZenonT(30), <1>1, SetsIs
<1>3. Shapes'
  BY ZenonT(30), <1>1, <1>2 DEF Shapes
<1>4. ASSUME NEW u \in Urls
      PROVE  /\ sub'[u].gen = sub[u].gen
             /\ sub'[u].state = "none" <=> sub[u].state = "none"
             /\ Expired(u)' => Expired(u)
             /\ Kept(u)
             /\ ~Exists(Of(w).id) \/ u # Of(w).id[1] => SameSub(u)
  <2>1. sub[u].gen \in Nat
    BY ZenonT(30), <1>1 DEF Shapes, SubShape
  <2>2. CASE Exists(Of(w).id) /\ u = Of(w).id[1]
    <3>1. sub'[u] = row /\ Fits(w, row) /\ sub[u].state # "none"
      BY ZenonT(30), <1>2, <2>2 DEF Exists
    <3> QED
      BY <2>1, <2>2, <3>1 DEF Fits, Kept, Expired
  <2>3. CASE ~(Exists(Of(w).id) /\ u = Of(w).id[1])
    <3>1. sub'[u] = sub[u]
      BY Zenon, <1>2, <2>3
    <3> QED
      BY SMTT(30), <2>1, <2>3, <3>1 DEF Kept, Expired, SameSub
  <2> QED
    BY ZenonT(30), <2>2, <2>3
<1>5. Grows
  <2>1. \A d \in Deliveries : answers[d].failed \in Nat
    BY <1>1, Constants DEF Shapes, AnswerShape
  <2>2. lost \in Nat
    BY Zenon, <1>1 DEF Shapes
  <2> QED
    BY <1>4, <2>1, <2>2 DEF Grows
<1>6. Frame(w)
  BY ZenonT(30) DEF Frame
<1>7. NoneBack
  BY Zenon, <1>1, <1>6, FrameBack
<1>8. ASSUME NEW u \in Urls, ~Exists(Of(w).id) \/ u # Of(w).id[1] PROVE SubOK(u)'
  BY ZenonT(30), <1>1, <1>4, <1>5, <1>7, <1>8, SubStays DEF IInv, SubInv
<1>9. Exists(Of(w).id) => sub'[Of(w).id[1]] = row
  BY ZenonT(30), <1>1, <1>2
<1>10. \A d \in Deliveries : Exists(d.id)' <=> Exists(d.id)
  BY Zenon, <1>4, DeliveryIs DEF Exists
<1> QED
  BY ZenonT(30), <1>3, <1>4, <1>5, <1>6, <1>7, <1>8, <1>9, <1>10

\* Confirm and Reset: the worker goes on to delete the row.
LEMMA DropNext ==
    ASSUME IInv, Shapes', Grows, NEW w \in Workers, Works(w), Works(w)', Of(w)' = Of(w),
           worker[w].pc \in {"confirm", "reset"}, worker'[w].pc = "drop",
           worker'[w].left = worker[w].left,
           UNCHANGED <<queue, answers, lost>>, Settled(Of(w)),
           \A d \in Deliveries : Exists(d.id)' <=> Exists(d.id),
           \A u \in Urls : Expired(u)' => Expired(u)
    PROVE  WorkOK(w)' /\ \A d \in DOMAIN queue' : d = Of(w) => RowOK(d)'
<1>1. /\ Shapes /\ Of(w) \in Deliveries /\ Issued(Of(w)) /\ Leased(w) /\ Knows(w)
      /\ Of(w).id[1] \in Urls
  BY ZenonT(30), WorkerIs
<1>2. Issued(Of(w))' /\ (Confirmed(Of(w)) => Confirmed(Of(w))') /\ Settled(Of(w))'
  BY ZenonT(30), <1>1, Stays
<1>3. Leased(w)'
  BY ZenonT(30), <1>1 DEF Leased, Slack
<1>4. Knows(w)'
  BY ZenonT(30), <1>1, <1>2 DEF Knows
<1>5. ASSUME NEW d \in DOMAIN queue', d = Of(w) PROVE RowOK(d)'
  <2>1. Settling(d)'
    BY ZenonT(30), <1>5 DEF Settling
  <2> QED
    BY ZenonT(30), <1>1, <1>5, <2>1, OwnRow
<1> QED
  BY ZenonT(30), <1>2, <1>3, <1>4, <1>5 DEF WorkOK

LEMMA ConfirmStep ==
    ASSUME IInv, NEW w \in Workers, Confirm(w)
    PROVE  IInv'
<1> DEFINE u == Of(w).id[1]
           row == [sub[u] EXCEPT !.state = "active", !.confirmed = TRUE, !.nonce = FALSE,
                                 !.failures = 0, !.age = 0]
<1>1. /\ worker[w].pc = "confirm" /\ Works(w) /\ Sets(w, row) /\ To(w, "drop")
      /\ UNCHANGED <<queue, posted, expiring, lost, consented, answers>>
  BY Zenon DEF Confirm, At, Works, Rest, RowOf, Of
<1>2. /\ Shapes /\ sub[u] \in SubShape /\ SubOK(u) /\ u \in Urls /\ Knows(w)
      /\ Exists(Of(w).id) => Id(u) = Of(w).id
  BY Zenon, <1>1, WorkerIs
<1>3. row \in SubShape
  <2> DEFINE zero == 0
  <2>1. zero \in Nat
    BY Zenon
  <2> HIDE DEF zero
  <2>2. [sub[u] EXCEPT !.state = "active", !.confirmed = TRUE, !.nonce = FALSE,
                       !.failures = zero, !.age = zero] \in SubShape
    BY ZenonT(30), <1>2, <2>1 DEF SubShape
  <2> QED
    BY Zenon, <2>2 DEF zero
<1>4. /\ row.state = "active" /\ row.gen = sub[u].gen /\ row.confirmed = TRUE /\ row.failures = 0
      /\ row.disabledAt = sub[u].disabledAt
  BY Zenon, <1>2 DEF SubShape
<1> HIDE DEF row
<1>5. Fits(w, row)
  BY Zenon, <1>3, <1>4 DEF Fits
<1>6. /\ worker' \in [Workers -> Busy \cup {Idle}] /\ Works(w)' /\ Of(w)' = Of(w)
      /\ worker'[w].pc = "drop" /\ worker'[w].left = worker[w].left
      /\ \A v \in Workers \ {w} : worker'[v] = worker[v]
  BY ZenonT(30), <1>1, <1>2, ToIs DEF Pcs
<1>7. /\ Shapes' /\ Grows /\ Frame(w) /\ NoneBack
      /\ \A x \in Urls : /\ sub'[x].gen = sub[x].gen
                         /\ sub'[x].state = "none" <=> sub[x].state = "none"
                         /\ Expired(x)' => Expired(x)
                         /\ ~Exists(Of(w).id) \/ x # u => SubOK(x)'
      /\ Exists(Of(w).id) => sub'[u] = row
      /\ \A d \in Deliveries : Exists(d.id)' <=> Exists(d.id)
  BY ZenonT(30), <1>1, <1>3, <1>5, <1>6, SetsFrame
<1>8. Exists(Of(w).id) => \A x \in Urls : x = u => SubOK(x)'
  <2>1. ASSUME Exists(Of(w).id), NEW x \in Urls, x = u PROVE SubOK(x)'
    <3>1. sub'[x] = row /\ Id(x)' = Id(x) /\ Id(x) \in consented
      BY ZenonT(30), <1>1, <1>2, <1>4, <1>7, <2>1 DEF Id, Knows
    <3>2. sub[x].state # "none" /\ sub[x].gen \in 1..MaxGens
      BY ZenonT(30), <1>2, <2>1 DEF SubOK, Exists
    <3> QED
      BY ZenonT(30), <1>1, <1>4, <2>1, <3>1, <3>2 DEF SubOK
  <2> QED
    BY Zenon, <2>1
<1>9. Settled(Of(w))
  BY ZenonT(30), <1>1, <1>2 DEF Knows, Settled
<1>10. WorkOK(w)' /\ \A d \in DOMAIN queue' : d = Of(w) => RowOK(d)'
  BY ZenonT(30), <1>1, <1>6, <1>7, <1>9, DropNext
<1> HIDE DEF u
<1> QED
  BY Zenon, <1>1, <1>7, <1>8, <1>10, WorkerStep

LEMMA ResetStep ==
    ASSUME IInv, NEW w \in Workers, Reset(w)
    PROVE  IInv'
<1> DEFINE u == Of(w).id[1]
           row == [sub[u] EXCEPT !.failures = 0]
<1>1. /\ worker[w].pc = "reset" /\ Works(w) /\ Sets(w, row) /\ To(w, "drop")
      /\ UNCHANGED <<queue, posted, expiring, lost, consented, answers>>
  BY Zenon DEF Reset, At, Works, Rest, RowOf, Of
<1>2. /\ Shapes /\ sub[u] \in SubShape /\ SubOK(u) /\ u \in Urls /\ Knows(w)
  BY Zenon, <1>1, WorkerIs
<1>3. row \in SubShape
  BY Zenon, <1>2 DEF SubShape
<1>4. /\ row.state = sub[u].state /\ row.gen = sub[u].gen /\ row.confirmed = sub[u].confirmed
      /\ row.disabledAt = sub[u].disabledAt /\ row.nonce = sub[u].nonce /\ row.failures = 0
  BY Zenon, <1>2 DEF SubShape
<1> HIDE DEF row
<1>5. Exists(Of(w).id) => Fits(w, row)
  BY ZenonT(30), <1>3, <1>4 DEF Fits, Exists, Expired
<1>6. /\ worker' \in [Workers -> Busy \cup {Idle}] /\ Works(w)' /\ Of(w)' = Of(w)
      /\ worker'[w].pc = "drop" /\ worker'[w].left = worker[w].left
      /\ \A v \in Workers \ {w} : worker'[v] = worker[v]
  BY Zenon, <1>1, <1>2, ToIs DEF Pcs
<1>7. /\ Shapes' /\ Grows /\ Frame(w) /\ NoneBack
      /\ \A x \in Urls : /\ sub'[x].gen = sub[x].gen
                         /\ sub'[x].state = "none" <=> sub[x].state = "none"
                         /\ Expired(x)' => Expired(x)
                         /\ ~Exists(Of(w).id) \/ x # u => SubOK(x)'
      /\ Exists(Of(w).id) => sub'[u] = row
      /\ \A d \in Deliveries : Exists(d.id)' <=> Exists(d.id)
  BY ZenonT(30), <1>1, <1>3, <1>5, <1>6, SetsFrame
<1>8. Exists(Of(w).id) => \A x \in Urls : x = u => SubOK(x)'
  <2>1. ASSUME Exists(Of(w).id), NEW x \in Urls, x = u PROVE SubOK(x)'
    <3>1. sub'[x] = row /\ Id(x)' = Id(x)
      BY ZenonT(30), <1>4, <1>7, <2>1 DEF Id
    <3> QED
      BY ZenonT(30), <1>1, <1>2, <1>4, <2>1, <3>1 DEF SubOK
  <2> QED
    BY Zenon, <2>1
<1>9. Settled(Of(w))
  BY ZenonT(30), <1>1, <1>2 DEF Knows, Settled
<1>10. WorkOK(w)' /\ \A d \in DOMAIN queue' : d = Of(w) => RowOK(d)'
  BY ZenonT(30), <1>1, <1>6, <1>7, <1>9, DropNext
<1> HIDE DEF u
<1> QED
  BY ZenonT(30), <1>1, <1>7, <1>8, <1>10, WorkerStep

\* A worker that counts a failure of a subscription that is not confirmed counts
\* the only one: that of its challenge.
LEMMA FirstFailure ==
    ASSUME IInv, NEW w \in Workers, Works(w), Exists(Of(w).id), ~sub[Of(w).id[1]].confirmed
    PROVE  sub[Of(w).id[1]].failures = 0 /\ Of(w) = ChallengeOf(Of(w).id[1])
<1> DEFINE u == Of(w).id[1]
<1>1. /\ Knows(w) /\ SubOK(u) /\ Id(u) = Of(w).id /\ Of(w) \in Deliveries
  BY ZenonT(30), WorkerIs
<1>2. Of(w).event = Challenge
  BY ZenonT(30), <1>1 DEF Knows, Confirmed
<1>3. Of(w) = ChallengeOf(u)
  BY Zenon, <1>1, <1>2, DeliveryIs DEF ChallengeOf
<1>4. sub[u].state # "none"
  BY Zenon DEF Exists
<1> QED
  BY ZenonT(30), <1>1, <1>3, <1>4 DEF SubOK, FailedOnce

LEMMA CountStep ==
    ASSUME IInv, NEW w \in Workers, Count(w)
    PROVE  IInv'
<1> DEFINE u == Of(w).id[1]
           failures == sub[u].failures + 1
           row == [sub[u] EXCEPT !.failures = failures]
           disables == Exists(Of(w).id) /\ failures >= DisableFailures
<1>1. /\ worker[w].pc = "count" /\ Works(w) /\ Sets(w, row)
      /\ IF disables THEN To(w, "disable") ELSE Done(w)
      /\ UNCHANGED <<queue, posted, expiring, lost, consented, answers>>
  BY ZenonT(30) DEF Count, At, Works, Rest, RowOf, Of
<1>2. /\ Shapes /\ sub[u] \in SubShape /\ SubOK(u) /\ u \in Urls /\ Knows(w) /\ Leased(w)
      /\ Of(w) \in Deliveries /\ Issued(Of(w))
      /\ Exists(Of(w).id) => Id(u) = Of(w).id
  BY Zenon, <1>1, WorkerIs
<1>3. Of(w) \notin DOMAIN queue
  BY Zenon, <1>1, <1>2 DEF Leased
<1>4. failures \in Nat /\ failures = sub[u].failures + 1
  BY <1>2 DEF SubShape
<1>5. Exists(Of(w).id) /\ ~sub[u].confirmed => /\ failures = 1 /\ ~disables
                                               /\ Of(w) = ChallengeOf(u)
  <2>1. Exists(Of(w).id) /\ ~sub[u].confirmed => sub[u].failures = 0 /\ Of(w) = ChallengeOf(u)
    BY Zenon, <1>1, FirstFailure
  <2> QED
    BY <1>4, <2>1, Constants
<1> HIDE DEF failures
<1>6. /\ row \in SubShape /\ row.state = sub[u].state /\ row.gen = sub[u].gen
      /\ row.confirmed = sub[u].confirmed /\ row.disabledAt = sub[u].disabledAt
      /\ row.nonce = sub[u].nonce /\ row.failures = failures
  BY Zenon, <1>2, <1>4 DEF SubShape
<1> HIDE DEF row
<1>7. Exists(Of(w).id) => Fits(w, row)
  BY Zenon, <1>6 DEF Fits, Exists, Expired
<1>8. /\ worker' \in [Workers -> Busy \cup {Idle}]
      /\ Works(w)' => disables /\ Of(w)' = Of(w) /\ worker'[w].pc = "disable"
      /\ \A v \in Workers \ {w} : worker'[v] = worker[v]
  <2>1. CASE disables
    BY ZenonT(30), <1>1, <1>2, <2>1, ToIs DEF Pcs
  <2>2. CASE ~disables
    BY ZenonT(30), <1>1, <1>2, <2>2, DoneIs
  <2> QED
    BY Zenon, <2>1, <2>2
<1>9. /\ Shapes' /\ Grows /\ Frame(w) /\ NoneBack
      /\ \A x \in Urls : /\ sub'[x].gen = sub[x].gen
                         /\ sub'[x].state = "none" <=> sub[x].state = "none"
                         /\ Expired(x)' => Expired(x)
                         /\ ~Exists(Of(w).id) \/ x # u => SubOK(x)'
      /\ Exists(Of(w).id) => sub'[u] = row
      /\ \A d \in Deliveries : Exists(d.id)' <=> Exists(d.id)
  BY ZenonT(30), <1>1, <1>6, <1>7, <1>8, SetsFrame
<1>10. Exists(Of(w).id) => \A x \in Urls : x = u => SubOK(x)'
  <2>1. ASSUME Exists(Of(w).id), NEW x \in Urls, x = u PROVE SubOK(x)'
    <3>1. sub'[x] = row /\ Id(x)' = Id(x) /\ ChallengeOf(x)' = ChallengeOf(x)
      BY ZenonT(30), <1>6, <1>9, <2>1 DEF Id, ChallengeOf
    <3>2. ~sub[x].confirmed => FailedOnce(x)'
      <4>1. ASSUME ~sub[x].confirmed PROVE FailedOnce(x)'
        <5>1. row.failures = 1 /\ ~Works(w)' /\ Of(w) = ChallengeOf(x)
          BY Zenon, <1>5, <1>6, <1>8, <2>1, <4>1
        <5>2. ASSUME NEW v \in Workers, Works(v)' PROVE Of(v)' # ChallengeOf(x)
          <6>1. v # w /\ worker'[v] = worker[v]
            BY Zenon, <1>8, <5>1, <5>2
          <6>2. Works(v) /\ Of(v)' = Of(v)
            BY Zenon, <5>2, <6>1 DEF Works, Of
          <6>3. worker[v] # Idle /\ worker[w] # Idle
            BY ZenonT(30), <1>1, <1>2, <6>2, BusyIs
          <6> QED
            BY Zenon, <5>1, <6>1, <6>2, <6>3 DEF IInv, WorkInv, OneSender, Of
        <5> QED
          BY ZenonT(30), <1>1, <1>3, <3>1, <5>1, <5>2 DEF FailedOnce
      <4> QED
        BY Zenon, <4>1
    <3> QED
      BY ZenonT(30), <1>1, <1>2, <1>6, <2>1, <3>1, <3>2 DEF SubOK
  <2> QED
    BY ZenonT(30), <2>1
<1>11. Works(w)' => WorkOK(w)'
  <2>1. ASSUME Works(w)' PROVE WorkOK(w)'
    <3>1. disables /\ Of(w)' = Of(w) /\ worker'[w].pc = "disable"
      BY Zenon, <1>8, <2>1
    <3>2. Issued(Of(w))' /\ (Confirmed(Of(w)) => Confirmed(Of(w))')
      BY ZenonT(30), <1>2, <1>9, <3>1, Stays
    <3>3. Leased(w)'
      BY ZenonT(30), <1>1, <1>3, <3>1 DEF Leased
    <3>4. sub'[Of(w).id[1]].confirmed
      BY ZenonT(30), <1>5, <1>6, <1>9, <3>1
    <3>5. Knows(w)'
      BY ZenonT(30), <1>2, <3>1, <3>2, <3>4 DEF Knows
    <3> QED
      BY Zenon, <3>2, <3>3, <3>5 DEF WorkOK
  <2> QED
    BY Zenon, <2>1
<1>12. \A d \in DOMAIN queue' : d # Of(w)
  BY ZenonT(30), <1>1, <1>3
<1> HIDE DEF u
<1> QED
  BY ZenonT(30), <1>1, <1>9, <1>10, <1>11, <1>12, WorkerStep

LEMMA DisableStep ==
    ASSUME IInv, NEW w \in Workers, Disable(w)
    PROVE  IInv'
<1> DEFINE u == Of(w).id[1]
           row == [sub[u] EXCEPT !.state = "disabled", !.disabledAt = TRUE]
<1>1. /\ worker[w].pc = "disable" /\ Works(w) /\ Sets(w, row) /\ Done(w)
      /\ UNCHANGED <<queue, posted, expiring, lost, consented, answers>>
  BY Zenon DEF Disable, At, Works, Rest, RowOf, Of
<1>2. /\ Shapes /\ sub[u] \in SubShape /\ SubOK(u) /\ u \in Urls /\ Knows(w) /\ Leased(w)
  BY Zenon, <1>1, WorkerIs
<1>3. Of(w) \notin DOMAIN queue /\ (Exists(Of(w).id) => sub[u].confirmed)
  BY Zenon, <1>1, <1>2 DEF Leased, Knows
<1>4. /\ row \in SubShape /\ row.state = "disabled" /\ row.gen = sub[u].gen
      /\ row.confirmed = sub[u].confirmed /\ row.disabledAt = TRUE
  BY ZenonT(30), <1>2 DEF SubShape
<1> HIDE DEF row
<1>5. Exists(Of(w).id) => Fits(w, row)
  BY ZenonT(30), <1>3, <1>4 DEF Fits
<1>6. /\ worker' \in [Workers -> Busy \cup {Idle}] /\ ~Works(w)'
      /\ \A v \in Workers \ {w} : worker'[v] = worker[v]
  BY ZenonT(30), <1>1, <1>2, DoneIs
<1>7. /\ Shapes' /\ Grows /\ Frame(w) /\ NoneBack
      /\ \A x \in Urls : /\ sub'[x].gen = sub[x].gen
                         /\ sub'[x].state = "none" <=> sub[x].state = "none"
                         /\ Expired(x)' => Expired(x)
                         /\ ~Exists(Of(w).id) \/ x # u => SubOK(x)'
      /\ Exists(Of(w).id) => sub'[u] = row
      /\ \A d \in Deliveries : Exists(d.id)' <=> Exists(d.id)
  BY ZenonT(30), <1>1, <1>4, <1>5, <1>6, SetsFrame
<1>8. Exists(Of(w).id) => \A x \in Urls : x = u => SubOK(x)'
  <2>1. ASSUME Exists(Of(w).id), NEW x \in Urls, x = u PROVE SubOK(x)'
    <3>1. sub'[x] = row /\ Id(x)' = Id(x) /\ sub[x].state # "none"
      BY ZenonT(30), <1>4, <1>7, <2>1 DEF Id, Exists
    <3> QED
      BY ZenonT(30), <1>1, <1>2, <1>3, <1>4, <2>1, <3>1 DEF SubOK
  <2> QED
    BY Zenon, <2>1
<1>9. \A d \in DOMAIN queue' : d # Of(w)
  BY ZenonT(30), <1>1, <1>3
<1> HIDE DEF u
<1> QED
  BY ZenonT(30), <1>1, <1>6, <1>7, <1>8, <1>9, WorkerStep

-----------------------------------------------------------------------------
(* A claim, and a worker that fails.                                       *)

LEMMA LoseStep ==
    ASSUME IInv, NEW w \in Workers, Lose(w)
    PROVE  IInv'
<1>1. /\ Works(w) /\ Done(w) /\ lost' = lost + 1
      /\ UNCHANGED <<sub, queue, used, posted, expiring, consented, answers>>
  BY Zenon DEF Lose, At, Works
<1>2. Shapes
  BY Zenon DEF IInv
<1>3. /\ worker' \in [Workers -> Busy \cup {Idle}] /\ ~Works(w)'
      /\ \A v \in Workers \ {w} : worker'[v] = worker[v]
  BY Zenon, <1>1, <1>2, DoneIs
<1>4. lost \in Nat /\ lost' \in Nat /\ lost' > 0 /\ lost <= lost'
  BY SMTT(30), <1>1, <1>2 DEF Shapes
<1>5. Shapes'
  BY Zenon, <1>1, <1>2, <1>3, <1>4 DEF Shapes
<1>6. Grows
  <2>1. \A u \in Urls : sub[u].gen \in Nat
    BY Zenon, <1>2 DEF Shapes, SubShape
  <2>2. \A d \in Deliveries : answers[d].failed \in Nat
    BY SMTT(30), <1>2, Constants DEF Shapes, AnswerShape
  <2> QED
    BY <1>1, <1>4, <2>1, <2>2 DEF Grows, Kept
<1>7. Frame(w)
  BY Zenon, <1>1, <1>3 DEF Frame
<1>8. NoneBack
  BY Zenon, <1>1, <1>2, <1>7, FrameBack
<1>9. ASSUME NEW d \in DOMAIN queue', d = Of(w) PROVE RowOK(d)'
  <2>1. (Exists(d.id) => Exists(d.id)') /\ (Expired(d.id[1])' => Expired(d.id[1]))
    BY Zenon, <1>1 DEF Exists, Expired
  <2> QED
    BY <1>1, <1>4, <1>5, <1>6, <1>9, <2>1, OwnRow
<1> QED
  BY Zenon, <1>1, <1>3, <1>5, <1>6, <1>7, <1>8, <1>9, SubsStay, WorkerStep

LEMMA ClaimStep ==
    ASSUME IInv, NEW w \in Workers, NEW d \in DOMAIN queue, Claim(w, d)
    PROVE  IInv'
<1> DEFINE x == [pc |-> "look", d |-> d, attempts |-> queue[d].attempts, nonce |-> FALSE,
                 left |-> ClaimTime]
<1>1. /\ ~Works(w) /\ queue[d].leased = 0
      /\ queue' = [queue EXCEPT ![d].leased = Lease] /\ worker' = [worker EXCEPT ![w] = x]
      /\ UNCHANGED <<sub, used, posted, expiring, lost, consented, answers>>
  BY Zenon DEF Claim, At, Works, Rest
<1>2. Shapes /\ d \in Deliveries /\ RowOK(d) /\ IsRow(queue[d]) /\ OneSender
  BY Zenon DEF IInv, RowInv, Shapes, WorkInv
<1>3. Lease \in Nat /\ ClaimTime \in Nat /\ RequestTime \in Nat /\ SettleTime \in Nat
      /\ ClaimTime + RequestTime + SettleTime < Lease
  BY Zenon, Constants
<1>4. x \in Busy /\ x.pc = "look" /\ x.d = d /\ x.left = ClaimTime /\ x.attempts = queue[d].attempts
  BY Zenon, <1>2, <1>3 DEF Busy, IsRow
<1> HIDE DEF x
<1>5. /\ worker' \in [Workers -> Busy \cup {Idle}] /\ worker'[w] = x
      /\ \A v \in Workers \ {w} : worker'[v] = worker[v]
  BY Zenon, <1>1, <1>2, <1>4 DEF Shapes
<1>6. Works(w)' /\ Of(w)' = d
  BY Zenon, <1>4, <1>5 DEF Works, Of
<1>7. /\ DOMAIN queue' = DOMAIN queue
      /\ \A e \in DOMAIN queue : e # d => queue'[e] = queue[e]
      /\ IsRow(queue'[d]) /\ queue'[d].leased = Lease /\ queue'[d].attempts = queue[d].attempts
  <2>1. queue[d] = [attempts |-> queue[d].attempts, wait |-> queue[d].wait, leased |-> queue[d].leased]
    BY Zenon, <1>2 DEF IsRow
  <2>2. /\ DOMAIN queue' = DOMAIN queue /\ \A e \in DOMAIN queue : e # d => queue'[e] = queue[e]
        /\ queue'[d] = [queue[d] EXCEPT !.leased = Lease]
    BY Zenon, <1>1
  <2>3. [queue[d] EXCEPT !.leased = Lease] =
          [attempts |-> queue[d].attempts, wait |-> queue[d].wait, leased |-> Lease]
    BY SMTT(30), <2>1
  <2>4. queue[d].attempts \in Nat
    BY Zenon, <1>2 DEF IsRow
  <2> QED
    BY Zenon, <1>3, <2>2, <2>3, <2>4 DEF IsRow
<1>8. Shapes'
  BY Zenon, <1>1, <1>2, <1>5, <1>7 DEF Shapes
<1>9. Grows
  BY Zenon, <1>1, <1>2, Quiet
<1>10. ASSUME NEW v \in Workers, Works(v) PROVE Of(v) # d /\ v # w
  <2>1. Leased(v) /\ worker[v].left \in Nat
    BY ZenonT(30), <1>10, WorkerIs
  <2>2. Slack(worker[v].pc) \in Nat
    BY SMTT(30), <1>3 DEF Slack
  <2> QED
    BY SMTT(30), <1>1, <1>10, <2>1, <2>2 DEF Leased
<1>11. ASSUME NEW v \in Workers, Works(v)'
       PROVE  v = w \/ (Works(v) /\ Of(v)' = Of(v) /\ worker'[v] = worker[v] /\ Of(v) # d)
  BY Zenon, <1>5, <1>10, <1>11 DEF Works, Of
<1>12. NoneBack
  BY Zenon, <1>6, <1>7, <1>11 DEF NoneBack
<1>13. WorkOK(w)'
  <2>1. Issued(d) /\ Issued(d)' /\ Confirmed(d)' = Confirmed(d)
    <3>1. d.id[2] \in Nat /\ sub[d.id[1]].gen \in Nat
      BY ZenonT(30), <1>2, DeliveryIs DEF Shapes, SubShape
    <3> QED
      BY SMTT(30), <1>1, <1>2, <3>1 DEF RowOK, Exists, Issued, Confirmed
  <2>2. lost = 0 => ~answers[d].ok
    <3>1. ~Settling(d)
      BY Zenon, <1>10 DEF Settling, Works
    <3> QED
      BY Zenon, <1>2, <3>1 DEF RowOK
  <2>3. Leased(w)'
    BY SMTT(30), <1>3, <1>4, <1>5, <1>6, <1>7 DEF Leased, Slack
  <2>4. d.event # Challenge => Confirmed(d)'
    BY ZenonT(30), <1>2, <2>1 DEF RowOK
  <2>5. worker'[w].attempts <= answers'[d].failed /\ worker'[w].attempts < MaxAttempts
    BY Zenon, <1>1, <1>2, <1>4, <1>5 DEF RowOK
  <2>6. Knows(w)'
    BY Zenon, <1>1, <1>4, <1>5, <1>6, <2>2, <2>4, <2>5 DEF Knows
  <2> QED
    BY Zenon, <1>6, <2>1, <2>3, <2>6 DEF WorkOK
<1>14. ASSUME NEW v \in Workers, Works(v)' PROVE WorkOK(v)'
  <2>1. CASE v = w
    BY Zenon, <1>13, <2>1
  <2>2. CASE v # w
    <3>1. Works(v) /\ Of(v) # d /\ worker'[v] = worker[v] /\ WorkOK(v)
      BY ZenonT(30), <1>11, <1>14, <2>2 DEF IInv, WorkInv
    <3> QED
      BY Zenon, <1>1, <1>2, <1>7, <1>8, <1>9, <3>1, OthersStay
  <2> QED
    BY Zenon, <2>1, <2>2
<1>15. OneSender'
  <2>1. ASSUME NEW v \in Workers, NEW y \in Workers, v # y, worker'[v] # Idle, worker'[y] # Idle
        PROVE  Of(v)' # Of(y)'
    <3>1. Works(v)' /\ Works(y)'
      <4>1. worker'[v] \in Busy /\ worker'[y] \in Busy
        BY Zenon, <1>5, <2>1
      <4> QED
        BY Zenon, <4>1 DEF Busy, Works
    <3>2. Works(v) => worker[v] # Idle
      BY Zenon, <1>2, BusyIs
    <3>3. Works(y) => worker[y] # Idle
      BY Zenon, <1>2, BusyIs
    <3> QED
      BY Zenon, <1>2, <1>6, <1>11, <2>1, <3>1, <3>2, <3>3 DEF OneSender, Of
  <2> QED
    BY Zenon, <2>1 DEF OneSender, Of
<1>16. ASSUME NEW e \in DOMAIN queue' PROVE RowOK(e)'
  <2>1. e \in DOMAIN queue /\ RowOK(e) /\ queue'[e].attempts = queue[e].attempts
    BY Zenon, <1>7 DEF IInv, RowInv
  <2>2. Exists(e.id)' /\ Expired(e.id[1])' = Expired(e.id[1])
    BY Zenon, <1>1, <2>1 DEF RowOK, Exists, Expired
  <2>3. Settling(e) => Settling(e)'
    <3>1. ASSUME NEW v \in Workers, worker[v].pc \in {"confirm", "reset", "drop"}, Of(v) = e
          PROVE  worker'[v] = worker[v]
      BY Zenon, <1>1, <1>5, <3>1 DEF Works
    <3> QED
      BY Zenon, <3>1 DEF Settling, Of
  <2>4. answers'[e].ok /\ lost' = 0 => Settling(e)'
    BY Zenon, <1>1, <2>1, <2>3 DEF RowOK
  <2> QED
    BY Zenon, <1>2, <1>8, <1>9, <2>1, <2>2, <2>4, RowStays
<1>17. SubInv'
  BY Zenon, <1>1, <1>9, <1>12, SubsStay DEF SubInv
<1>18. AnswerInv'
  BY Zenon, <1>1, <1>2, <1>8, <1>9, AnswersStay DEF IInv
<1>19. FoundInv'
  BY Zenon, <1>1, <1>2, <1>8, <1>9, <1>12, FoundStays DEF IInv, FoundInv
<1> QED
  BY Zenon, <1>8, <1>14, <1>15, <1>16, <1>17, <1>18, <1>19 DEF IInv, WorkInv, RowInv

-----------------------------------------------------------------------------
(* Commands and maintenance.                                               *)

\* A step that touches no worker: what comes to the queue is new, and the rows
\* that stay there still fit their subscriptions.
LEMMA OutsideStep ==
    ASSUME IInv, Shapes', Grows, UNCHANGED <<worker, answers>>,
           \A d \in DOMAIN queue' \cap DOMAIN queue :
              /\ queue'[d] = queue[d] /\ Exists(d.id)'
              /\ Expired(d.id[1])' => Expired(d.id[1]) \/ lost' > 0,
           \A d \in DOMAIN queue' \ DOMAIN queue : ~Issued(d) /\ RowOK(d)',
           \A u \in Urls : SubOK(u)', \A id \in expiring' : FoundOK(id)'
    PROVE  IInv'
<1>1. Shapes /\ OneSender
  BY Zenon DEF IInv, WorkInv
<1>2. ASSUME NEW v \in Workers, Works(v)' PROVE WorkOK(v)'
  <2>1. Works(v) /\ WorkOK(v) /\ Issued(Of(v))
    BY ZenonT(30), <1>2 DEF IInv, WorkInv, Works, WorkOK
  <2>2. Of(v) \in DOMAIN queue' =>
          Of(v) \in DOMAIN queue /\ queue'[Of(v)].leased = queue[Of(v)].leased
    BY Zenon, <2>1
  <2> QED
    BY ZenonT(30), <1>1, <2>1, <2>2, OthersStay
<1>3. OneSender'
  BY Zenon, <1>1 DEF OneSender
<1>4. ASSUME NEW d \in DOMAIN queue' PROVE RowOK(d)'
  <2>1. CASE d \in DOMAIN queue
    <3>1. RowOK(d) /\ queue'[d] = queue[d] /\ Exists(d.id)'
      BY ZenonT(30), <2>1 DEF IInv, RowInv
    <3>2. answers'[d].ok /\ lost' = 0 => Settling(d)'
      <4>1. lost' = 0 => lost = 0
        BY <1>1 DEF Grows, Shapes
      <4> QED
        BY ZenonT(30), <3>1, <4>1 DEF RowOK, Settling, Of
    <3> QED
      BY Zenon, <1>1, <2>1, <3>1, <3>2, RowStays
  <2> QED
    BY Zenon, <2>1
<1>5. AnswerInv'
  BY ZenonT(30), <1>1, AnswersStay DEF IInv
<1> QED
  BY ZenonT(30), <1>2, <1>3, <1>4, <1>5 DEF IInv, WorkInv, RowInv, SubInv, FoundInv

\* A row of the queue has the id of its subscription.
LEMMA RowsId ==
    ASSUME IInv, NEW d \in DOMAIN queue
    PROVE  /\ d \in Deliveries /\ d.id[1] \in Urls /\ RowOK(d) /\ Issued(d)
           /\ sub[d.id[1]].state # "none" /\ d.id = Id(d.id[1]) /\ d.id[2] = sub[d.id[1]].gen
<1>1. d \in Deliveries /\ RowOK(d)
  BY Zenon DEF IInv, Shapes, RowInv
<1>2. d.id[1] \in Urls /\ d.id = <<d.id[1], d.id[2]>> /\ d.id[2] \in Nat
  BY Zenon, <1>1, DeliveryIs
<1>3. sub[d.id[1]].state # "none" /\ d.id[2] = sub[d.id[1]].gen
  BY Zenon, <1>1 DEF RowOK, Exists
<1> QED
  BY <1>1, <1>2, <1>3 DEF Id, Issued, RowOK

LEMMA EnqueueIs ==
    ASSUME Shapes, NEW D \in SUBSET Deliveries, D \cap DOMAIN queue = {}, queue' = Enqueue(D)
    PROVE  /\ DOMAIN queue' = DOMAIN queue \cup D
           /\ \A d \in DOMAIN queue : queue'[d] = queue[d]
           /\ \A d \in D : queue'[d].attempts = 0
           /\ DOMAIN queue' \in SUBSET Deliveries /\ \A d \in DOMAIN queue' : IsRow(queue'[d])
<1>1. /\ DOMAIN queue' = DOMAIN queue \cup D
      /\ \A d \in DOMAIN queue' : queue'[d] = IF d \in D THEN NewRow ELSE queue[d]
  BY Zenon DEF Enqueue
<1>2. IsRow(NewRow) /\ NewRow.attempts = 0
  BY Zenon DEF NewRow, IsRow
<1> QED
  BY Zenon, <1>1, <1>2 DEF Shapes

\* A delivery that was never issued was never answered.
LEMMA NewRowOK ==
    ASSUME IInv, NEW d \in Deliveries, ~Issued(d), UNCHANGED answers, queue'[d].attempts = 0,
           Exists(d.id)', d.event \in DOMAIN posted' \cup {Challenge},
           d.event # Challenge => Confirmed(d)', ~Expired(d.id[1])'
    PROVE  RowOK(d)'
<1>1. ~answers[d].ok
  BY Zenon DEF IInv, AnswerInv
<1>2. 0 <= answers[d].failed /\ 0 < MaxAttempts
  BY SMTT(30), Constants DEF IInv, Shapes, AnswerShape
<1> QED
  BY Zenon, <1>1, <1>2 DEF RowOK

LEMMA CreateStep ==
    ASSUME IInv, NEW u \in Urls, Create(u)
    PROVE  IInv'
<1>0. PICK gen : gen = sub[u].gen + 1
  BY Zenon
<1> DEFINE n == [id |-> <<u, gen>>, event |-> Challenge]
           row == [NoSub(gen) EXCEPT !.state = "pending", !.nonce = TRUE]
<1>1. /\ gen <= MaxGens
      /\ sub[u].state = "none" \/ (Expired(u) /\ Queued(Id(u)) = {})
      /\ sub' = [sub EXCEPT ![u] = row] /\ queue' = Enqueue({n})
      /\ UNCHANGED <<used, posted, worker, expiring, lost, consented, answers>>
  BY Zenon, <1>0 DEF Create
<1>2. Shapes /\ sub[u].gen \in Nat
  BY Zenon DEF IInv, Shapes, SubShape
<1>3. gen \in 1..MaxGens /\ gen \in Nat /\ gen = sub[u].gen + 1
  BY <1>0, <1>1, <1>2, Constants
<1>4. /\ row \in SubShape /\ row.state = "pending" /\ row.nonce = TRUE /\ row.gen = gen
      /\ row.confirmed = FALSE /\ row.failures = 0
  BY ZenonT(30), <1>3 DEF NoSub, SubShape
<1>5. n \in Deliveries /\ n.id[1] = u /\ n.id[2] = gen /\ n.event = Challenge
  BY Zenon, <1>3 DEF Deliveries, Ids
<1> HIDE DEF row, n
<1>6. /\ sub' \in [Urls -> SubShape] /\ sub'[u] = row
      /\ \A x \in Urls : x # u => sub'[x] = sub[x]
  BY Zenon, <1>1, <1>2, <1>4 DEF Shapes
<1>7. ~Issued(n)
  BY <1>2, <1>3, <1>5 DEF Issued
<1>8. n \notin DOMAIN queue
  BY Zenon, <1>7, RowsId
<1>9. /\ DOMAIN queue' = DOMAIN queue \cup {n} /\ \A d \in DOMAIN queue : queue'[d] = queue[d]
      /\ queue'[n].attempts = 0
      /\ DOMAIN queue' \in SUBSET Deliveries /\ \A d \in DOMAIN queue' : IsRow(queue'[d])
  <2>1. {n} \in SUBSET Deliveries /\ {n} \cap DOMAIN queue = {}
    BY Zenon, <1>5, <1>8
  <2> QED
    BY ZenonT(30), <1>1, <1>2, <2>1, EnqueueIs
<1>10. Shapes'
  BY Zenon, <1>1, <1>2, <1>6, <1>9 DEF Shapes
<1>11. Grows
  <2>1. \A x \in Urls : sub[x].gen \in Nat
    BY Zenon, <1>2 DEF Shapes, SubShape
  <2>2. \A x \in Urls : Kept(x)
    BY <1>3, <1>4, <1>6, <2>1 DEF Kept
  <2>3. \A d \in Deliveries : answers[d].failed \in Nat
    BY SMTT(30), <1>2, Constants DEF Shapes, AnswerShape
  <2> QED
    BY <1>1, <1>2, <2>2, <2>3 DEF Grows, Shapes
<1>12. NoneBack
  BY SMTT(30), <1>1, <1>2, <1>3, <1>5, <1>7, <1>9 DEF NoneBack, Works, Of
<1>13. ASSUME NEW d \in DOMAIN queue PROVE d.id[1] # u
  <2>1. sub[d.id[1]].state # "none" /\ d.id = Id(d.id[1])
    BY Zenon, RowsId
  <2> QED
    BY Zenon, <1>1, <2>1 DEF Queued
<1>14. ASSUME NEW d \in DOMAIN queue
       PROVE  Exists(d.id)' /\ (Expired(d.id[1])' => Expired(d.id[1]))
  <2>1. d.id[1] \in Urls /\ Exists(d.id)
    BY ZenonT(30), RowsId DEF RowOK
  <2>2. sub'[d.id[1]] = sub[d.id[1]]
    BY Zenon, <1>6, <1>13, <2>1
  <2> QED
    BY SMTT(30), <2>1, <2>2 DEF Exists, Expired
<1>15. RowOK(n)'
  <2>1. Exists(n.id)' /\ ~Expired(n.id[1])' /\ n.event \in DOMAIN posted' \cup {Challenge}
    BY Zenon, <1>4, <1>5, <1>6 DEF Exists, Expired
  <2> QED
    BY ZenonT(30), <1>1, <1>5, <1>7, <1>9, <2>1, NewRowOK
<1>16. ASSUME NEW x \in Urls PROVE SubOK(x)'
  <2>1. CASE x = u
    BY Zenon, <1>3, <1>4, <1>6, <2>1 DEF SubOK
  <2>2. CASE x # u
    <3>1. SameSub(x)
      BY Zenon, <1>6, <2>2 DEF SameSub
    <3> QED
      BY Zenon, <1>2, <1>11, <1>12, <3>1, SubStays DEF IInv, SubInv
  <2> QED
    BY Zenon, <2>1, <2>2
<1>17. ASSUME NEW id \in expiring' PROVE FoundOK(id)'
  BY Zenon, <1>1, <1>2, <1>10, <1>11, <1>12, FoundStays DEF IInv, FoundInv
<1> QED
  BY ZenonT(30), <1>1, <1>7, <1>9, <1>10, <1>11, <1>14, <1>15, <1>16, <1>17, OutsideStep

LEMMA DeleteStep ==
    ASSUME IInv, NEW u \in Urls, Delete(u)
    PROVE  IInv'
<1>0. PICK gen, id : gen = sub[u].gen /\ id = Id(u)
  BY Zenon
<1>1. /\ sub[u].state # "none"
      /\ sub' = [sub EXCEPT ![u] = NoSub(gen)] /\ queue' = Without(Queued(id))
      /\ UNCHANGED <<used, posted, worker, expiring, lost, consented, answers>>
  BY Zenon, <1>0 DEF Delete
<1>2. Shapes /\ gen \in Nat
  BY Zenon, <1>0 DEF IInv, Shapes, SubShape
<1>3. /\ NoSub(gen) \in SubShape /\ NoSub(gen).state = "none" /\ NoSub(gen).gen = gen
      /\ NoSub(gen).confirmed = FALSE
  BY Zenon, <1>2 DEF NoSub, SubShape
<1>4. /\ sub' \in [Urls -> SubShape] /\ sub'[u] = NoSub(gen)
      /\ \A x \in Urls : x # u => sub'[x] = sub[x]
  BY Zenon, <1>1, <1>2, <1>3 DEF Shapes
<1>5. /\ DOMAIN queue' = DOMAIN queue \ Queued(id) /\ \A d \in DOMAIN queue' : queue'[d] = queue[d]
      /\ DOMAIN queue' \in SUBSET Deliveries /\ \A d \in DOMAIN queue' : IsRow(queue'[d])
  BY Zenon, <1>1, <1>2, WithoutIs
<1>6. Shapes'
  BY ZenonT(30), <1>1, <1>2, <1>4, <1>5 DEF Shapes
<1>7. Grows
  <2>1. \A x \in Urls : sub[x].gen \in Nat
    BY Zenon, <1>2 DEF Shapes, SubShape
  <2>2. \A x \in Urls : Kept(x)
    BY SMTT(30), <1>0, <1>3, <1>4, <2>1 DEF Kept
  <2>3. \A d \in Deliveries : answers[d].failed \in Nat
    BY SMTT(30), <1>2, Constants DEF Shapes, AnswerShape
  <2> QED
    BY <1>1, <1>2, <2>2, <2>3 DEF Grows, Shapes
<1>8. NoneBack
  BY Zenon, <1>1, <1>5 DEF NoneBack, Works, Of
<1>9. ASSUME NEW d \in DOMAIN queue'
      PROVE  Exists(d.id)' /\ (Expired(d.id[1])' => Expired(d.id[1]))
  <2>1. d \in DOMAIN queue /\ d.id # id
    BY Zenon, <1>5 DEF Queued
  <2>2. d.id[1] \in Urls /\ Exists(d.id) /\ d.id = Id(d.id[1])
    BY Zenon, <2>1, RowsId DEF RowOK
  <2>3. sub'[d.id[1]] = sub[d.id[1]]
    BY Zenon, <1>0, <1>4, <2>1, <2>2
  <2> QED
    BY SMTT(30), <2>2, <2>3 DEF Exists, Expired
<1>10. ASSUME NEW x \in Urls PROVE SubOK(x)'
  <2>1. CASE x = u
    BY Zenon, <1>3, <1>4, <2>1 DEF SubOK
  <2>2. CASE x # u
    <3>1. SameSub(x)
      BY Zenon, <1>4, <2>2 DEF SameSub
    <3> QED
      BY Zenon, <1>2, <1>7, <1>8, <3>1, SubStays DEF IInv, SubInv
  <2> QED
    BY Zenon, <2>1, <2>2
<1>11. ASSUME NEW x \in expiring' PROVE FoundOK(x)'
  BY Zenon, <1>1, <1>2, <1>6, <1>7, <1>8, FoundStays DEF IInv, FoundInv
<1> QED
  BY ZenonT(30), <1>1, <1>5, <1>6, <1>7, <1>9, <1>10, <1>11, OutsideStep

\* Only the queue, the posts and the failures change.
LEMMA QuietOutside ==
    ASSUME Shapes, UNCHANGED <<sub, consented, answers>>, DOMAIN posted \subseteq DOMAIN posted', lost <= lost'
    PROVE  Grows
<1>1. \A u \in Urls : sub[u].gen \in Nat
  BY Zenon DEF Shapes, SubShape
<1>2. \A d \in Deliveries : answers[d].failed \in Nat
  BY SMTT(30), Constants DEF Shapes, AnswerShape
<1> QED
  BY <1>1, <1>2 DEF Grows, Kept

LEMMA PostStep ==
    ASSUME IInv, NEW e \in Events, NEW T \in SUBSET Active, NEW S \in SUBSET T, Post(e, T, S)
    PROVE  IInv'
<1>0. PICK D : D = {[id |-> Id(u), event |-> e] : u \in S}
  BY ZenonT(30)
<1>1. /\ e \notin DOMAIN posted /\ queue' = Enqueue(D)
      /\ DOMAIN posted' = DOMAIN posted \cup {e}
      /\ UNCHANGED <<sub, worker, expiring, lost, consented, answers>>
  BY ZenonT(30), <1>0 DEF Post
<1>2. Shapes
  BY Zenon DEF IInv
<1>3. ASSUME NEW d \in D
      PROVE  /\ d \in Deliveries /\ d.event = e /\ e # Challenge
             /\ d.id[1] \in Urls /\ d.id = Id(d.id[1])
             /\ d.id[2] = sub[d.id[1]].gen /\ sub[d.id[1]].state = "active"
             /\ sub[d.id[1]].confirmed /\ d.id \in consented
  <2>1. PICK u \in S : d = [id |-> Id(u), event |-> e]
    BY ZenonT(30), <1>0
  <2>2. u \in Urls /\ sub[u].state = "active" /\ SubOK(u)
    BY ZenonT(30) DEF Active, IInv, SubInv
  <2>3. sub[u].gen \in 1..MaxGens /\ sub[u].confirmed /\ Id(u) \in consented
    BY ZenonT(30), <2>2 DEF SubOK
  <2>4. Id(u) \in Ids /\ Id(u)[1] = u /\ Id(u)[2] = sub[u].gen
    BY Zenon, <2>2, <2>3 DEF Id, Ids
  <2>5. d \in Deliveries /\ d.id = Id(u) /\ d.event = e /\ e # Challenge
    BY Zenon, <2>1, <2>4, Constants DEF Deliveries
  <2> QED
    BY Zenon, <2>2, <2>3, <2>4, <2>5
<1>4. \A d \in D : ~Issued(d)
  BY ZenonT(30), <1>1, <1>3 DEF Issued
<1>5. D \in SUBSET Deliveries /\ D \cap DOMAIN queue = {}
  BY ZenonT(30), <1>3, <1>4, RowsId
<1>6. /\ DOMAIN queue' = DOMAIN queue \cup D /\ \A d \in DOMAIN queue : queue'[d] = queue[d]
      /\ \A d \in D : queue'[d].attempts = 0
      /\ DOMAIN queue' \in SUBSET Deliveries /\ \A d \in DOMAIN queue' : IsRow(queue'[d])
  BY ZenonT(30), <1>1, <1>2, <1>5, EnqueueIs
<1>7. Shapes'
  BY Zenon, <1>1, <1>2, <1>6 DEF Shapes
<1>8. Grows
  <2>1. lost <= lost' /\ DOMAIN posted \subseteq DOMAIN posted'
    BY SMTT(30), <1>1, <1>2 DEF Shapes
  <2> QED
    BY Zenon, <1>1, <1>2, <2>1, QuietOutside
<1>9. NoneBack
  BY ZenonT(30), <1>1, <1>3, <1>4, <1>6 DEF NoneBack, Works, Of
<1>10. ASSUME NEW d \in DOMAIN queue
       PROVE  Exists(d.id)' /\ (Expired(d.id[1])' => Expired(d.id[1]))
  BY ZenonT(30), <1>1, RowsId DEF RowOK, Exists, Expired
<1>11. ASSUME NEW d \in D PROVE RowOK(d)'
  <2>1. Exists(d.id)' /\ ~Expired(d.id[1])' /\ Confirmed(d)' /\ d.event \in DOMAIN posted'
    BY ZenonT(30), <1>1, <1>3 DEF Exists, Expired, Confirmed
  <2> QED
    BY ZenonT(30), <1>1, <1>3, <1>4, <1>6, <2>1, NewRowOK
<1>12. \A u \in Urls : SubOK(u)'
  BY ZenonT(30), <1>1, <1>8, <1>9, SubsStay
<1>13. ASSUME NEW id \in expiring' PROVE FoundOK(id)'
  BY Zenon, <1>1, <1>2, <1>7, <1>8, <1>9, FoundStays DEF IInv, FoundInv
<1> QED
  BY Zenon, <1>1, <1>4, <1>6, <1>7, <1>8, <1>10, <1>11, <1>12, <1>13, OutsideStep

LEMMA HideStep ==
    ASSUME IInv, NEW E, NEW hide \in BOOLEAN, setHidden(E, hide)
    PROVE  IInv'
<1>0. PICK D : D = {d \in DOMAIN queue : About(d, E)}
  BY ZenonT(30)
<1>1. /\ queue' = IF hide THEN Without(D) ELSE queue
      /\ DOMAIN posted' = DOMAIN posted
      /\ UNCHANGED <<sub, used, worker, expiring, lost, consented, answers>>
  BY ZenonT(30), <1>0 DEF setHidden
<1>2. Shapes /\ lost \in Nat
  BY Zenon DEF IInv, Shapes
<1>3. DOMAIN queue' \subseteq DOMAIN queue /\ \A d \in DOMAIN queue' : queue'[d] = queue[d]
  BY ZenonT(30), <1>1 DEF Without
<1>4. Shapes'
  BY ZenonT(30), <1>1, <1>2, <1>3 DEF Shapes
<1>5. lost <= lost'
  BY SMTT(30), <1>1, <1>2
<1>6. Grows
  BY Zenon, <1>1, <1>2, <1>5, QuietOutside
<1>7. NoneBack
  BY Zenon, <1>1, <1>3 DEF NoneBack, Works, Of
<1>8. ASSUME NEW d \in DOMAIN queue
      PROVE  Exists(d.id)' /\ (Expired(d.id[1])' => Expired(d.id[1]))
  BY ZenonT(30), <1>1, RowsId DEF RowOK, Exists, Expired
<1>9. \A u \in Urls : SubOK(u)'
  BY ZenonT(30), <1>1, <1>6, <1>7, SubsStay
<1>10. ASSUME NEW id \in expiring' PROVE FoundOK(id)'
  BY Zenon, <1>1, <1>2, <1>4, <1>6, <1>7, FoundStays DEF IInv, FoundInv
<1> QED
  BY ZenonT(30), <1>1, <1>3, <1>4, <1>6, <1>8, <1>9, <1>10, OutsideStep

LEMMA ExpireQueueStep ==
    ASSUME IInv, NEW fails \in BOOLEAN, ExpireQueue(fails)
    PROVE  IInv'
<1>0. PICK due : due = {Id(u) : u \in Unconfirmed}
  BY ZenonT(30)
<1>1. /\ IF fails THEN lost' = lost + 1 /\ UNCHANGED queue
                  ELSE queue' = Without(UNION {Queued(id) : id \in due}) /\ UNCHANGED lost
      /\ expiring' = due
      /\ UNCHANGED <<sub, used, posted, worker, consented, answers>>
  BY Zenon, <1>0 DEF ExpireQueue
<1>2. Shapes /\ lost \in Nat
  BY Zenon DEF IInv, Shapes
<1>3. /\ DOMAIN queue' \subseteq DOMAIN queue /\ \A d \in DOMAIN queue' : queue'[d] = queue[d]
      /\ fails \/ \A d \in DOMAIN queue' : d.id \notin due
  <2>1. CASE fails
    BY Zenon, <1>1, <2>1
  <2>2. CASE ~fails
    <3>1. /\ DOMAIN queue' = DOMAIN queue \ UNION {Queued(id) : id \in due}
          /\ \A d \in DOMAIN queue' : queue'[d] = queue[d]
      BY ZenonT(30), <1>1, <1>2, <2>2, WithoutIs
    <3> QED
      BY SMTT(30), <3>1 DEF Queued
  <2> QED
    BY Zenon, <2>1, <2>2
<1>4. ASSUME NEW id \in due
      PROVE  id \in Ids /\ id[1] \in Urls /\ id[2] = sub[id[1]].gen /\ id[2] \in Nat
  <2>1. PICK u \in Urls : id = Id(u) /\ sub[u].state = "pending"
    BY Zenon, <1>0 DEF Unconfirmed
  <2>2. sub[u].gen \in 1..MaxGens
    BY Zenon, <2>1 DEF IInv, SubInv, SubOK
  <2> QED
    BY <2>1, <2>2, Constants DEF Id, Ids
<1>5. Shapes'
  <2>1. DOMAIN queue' \in SUBSET Deliveries /\ \A d \in DOMAIN queue' : IsRow(queue'[d])
    BY ZenonT(30), <1>2, <1>3 DEF Shapes
  <2>2. lost' \in Nat /\ expiring' \in SUBSET Ids
    BY <1>1, <1>2, <1>4
  <2> QED
    BY Zenon, <1>1, <1>2, <2>1, <2>2 DEF Shapes
<1>6. lost <= lost'
  BY SMTT(30), <1>1, <1>2
<1>7. Grows
  BY Zenon, <1>1, <1>2, <1>6, QuietOutside
<1>8. NoneBack
  BY Zenon, <1>1, <1>3 DEF NoneBack, Works, Of
<1>9. ASSUME NEW d \in DOMAIN queue
      PROVE  Exists(d.id)' /\ (Expired(d.id[1])' => Expired(d.id[1]))
  BY ZenonT(30), <1>1, RowsId DEF RowOK, Exists, Expired
<1>10. \A u \in Urls : SubOK(u)'
  BY ZenonT(30), <1>1, <1>7, <1>8, SubsStay
<1>11. ASSUME NEW id \in expiring' PROVE FoundOK(id)'
  <2>1. id \in due /\ id[2] <= sub'[id[1]].gen
    BY <1>1, <1>4
  <2>2. lost' = 0 => ~fails
    BY SMTT(30), <1>1, <1>2
  <2> QED
    BY Zenon, <1>3, <2>1, <2>2 DEF FoundOK
<1> QED
  BY ZenonT(30), <1>1, <1>3, <1>5, <1>7, <1>9, <1>10, <1>11, OutsideStep

LEMMA ExpireSubsStep ==
    ASSUME IInv, NEW fails \in BOOLEAN, ExpireSubs(fails)
    PROVE  IInv'
<1>0. PICK due : due = {u \in Urls : Id(u) \in expiring /\ sub[u].state = "pending"}
  BY ZenonT(30)
<1>a. \A u \in Urls : u \in due <=> Id(u) \in expiring /\ sub[u].state = "pending"
  BY Zenon, <1>0
<1>b. /\ fails => lost' = lost + 1 /\ UNCHANGED sub
      /\ ~fails => UNCHANGED lost
  BY ZenonT(30) DEF ExpireSubs
<1>c. ~fails => sub' = [u \in Urls |-> IF u \in due THEN [sub[u] EXCEPT !.state = "disabled",
                                                                       !.disabledAt = TRUE,
                                                                       !.nonce = FALSE]
                                      ELSE sub[u]]
  BY ZenonT(30), <1>0 DEF ExpireSubs
<1>1. expiring' = {} /\ UNCHANGED <<queue, used, posted, worker, consented, answers>>
  BY ZenonT(30) DEF ExpireSubs
<1>2. Shapes /\ lost \in Nat
  BY Zenon DEF IInv, Shapes
<1>3. \A u \in Urls : sub[u] \in SubShape /\ sub[u].gen \in Nat
  BY Zenon, <1>2 DEF Shapes, SubShape
<1>4. ASSUME NEW u \in Urls, u \in due, ~fails
      PROVE  /\ sub'[u] \in SubShape /\ sub'[u].state = "disabled" /\ sub'[u].disabledAt
             /\ sub'[u].gen = sub[u].gen /\ sub'[u].confirmed = sub[u].confirmed
             /\ sub'[u].failures = sub[u].failures
  <2>1. sub'[u] = [sub[u] EXCEPT !.state = "disabled", !.disabledAt = TRUE, !.nonce = FALSE]
    BY ZenonT(30), <1>c, <1>4
  <2> QED
    BY ZenonT(30), <1>3, <2>1 DEF SubShape
<1>5. ASSUME NEW u \in Urls, fails \/ u \notin due PROVE sub'[u] = sub[u]
  BY ZenonT(30), <1>b, <1>c, <1>5
<1>6. sub' \in [Urls -> SubShape]
  <2>1. CASE fails
    BY Zenon, <1>b, <1>2, <2>1 DEF Shapes
  <2>2. CASE ~fails
    <3>1. \A u \in Urls : sub'[u] \in SubShape
      BY Zenon, <1>3, <1>4, <1>5, <2>2
    <3>2. sub' = [u \in Urls |-> sub'[u]]
      BY ZenonT(30), <1>c, <2>2
    <3> QED
      BY Zenon, <3>1, <3>2
  <2> QED
    BY Zenon, <2>1, <2>2
<1>7. lost' \in Nat /\ lost <= lost'
  BY SMTT(30), <1>b, <1>2
<1>8. Shapes'
  BY Zenon, <1>1, <1>2, <1>6, <1>7 DEF Shapes
<1>9. Grows
  <2>1. ASSUME NEW u \in Urls PROVE Kept(u)
    <3>1. CASE u \in due /\ ~fails
      BY SMTT(30), <1>a, <1>3, <1>4, <3>1 DEF Kept
    <3>2. CASE fails \/ u \notin due
      BY SMTT(30), <1>3, <1>5, <3>2 DEF Kept
    <3> QED
      BY Zenon, <3>1, <3>2
  <2>2. \A d \in Deliveries : answers[d].failed \in Nat
    BY SMTT(30), <1>2, Constants DEF Shapes, AnswerShape
  <2> QED
    BY <1>1, <1>7, <2>1, <2>2 DEF Grows
<1>10. NoneBack
  BY Zenon, <1>1 DEF NoneBack, Works, Of
<1>11. ASSUME NEW d \in DOMAIN queue
       PROVE  Exists(d.id)' /\ (Expired(d.id[1])' => Expired(d.id[1]) \/ lost' > 0)
  <2>1. d.id[1] \in Urls /\ Exists(d.id) /\ d.id = Id(d.id[1])
    BY ZenonT(30), RowsId DEF RowOK
  <2>2. CASE d.id[1] \in due /\ ~fails
    <3>1. d.id \in expiring /\ sub[d.id[1]].state = "pending"
      BY Zenon, <1>a, <2>1, <2>2
    <3>2. lost # 0
      BY Zenon, <2>1, <3>1 DEF IInv, FoundInv, FoundOK
    <3>3. lost' > 0
      BY SMTT(30), <1>b, <1>2, <2>2, <3>2
    <3>4. Exists(d.id)'
      BY Zenon, <1>4, <2>1, <2>2 DEF Exists
    <3> QED
      BY Zenon, <3>3, <3>4
  <2>3. CASE fails \/ d.id[1] \notin due
    BY Zenon, <1>5, <2>1, <2>3 DEF Exists, Expired
  <2> QED
    BY Zenon, <2>2, <2>3
<1>12. ASSUME NEW u \in Urls PROVE SubOK(u)'
  <2>1. CASE u \in due /\ ~fails
    <3>1. sub[u].state = "pending" /\ SubOK(u)
      BY Zenon, <1>a, <2>1 DEF IInv, SubInv
    <3>2. sub[u].gen \in 1..MaxGens /\ ~sub[u].confirmed
      BY ZenonT(30), <3>1 DEF SubOK
    <3>3. sub[u].failures # 0 => FailedOnce(u)
      BY Zenon, <3>1, <3>2 DEF SubOK
    <3>4. FailedOnce(u) => FailedOnce(u)'
      BY Zenon, <1>2, <1>4, <1>10, <2>1, FailedOnceStays
    <3> QED
      BY ZenonT(30), <1>4, <2>1, <3>2, <3>3, <3>4 DEF SubOK
  <2>2. CASE fails \/ u \notin due
    <3>1. SameSub(u)
      BY Zenon, <1>5, <2>2 DEF SameSub
    <3> QED
      BY Zenon, <1>2, <1>9, <1>10, <3>1, SubStays DEF IInv, SubInv
  <2> QED
    BY Zenon, <2>1, <2>2
<1> QED
  BY ZenonT(30), <1>1, <1>8, <1>9, <1>11, <1>12, OutsideStep

LEMMA TickStep ==
    ASSUME IInv, Tick
    PROVE  IInv'
<1>1. /\ \A w \in Workers : Works(w) => worker[w].left > 0
      /\ worker' = [w \in Workers |-> IF At(w, "idle") THEN Idle
                                      ELSE [worker[w] EXCEPT !.left = @ - 1]]
      /\ queue' = [d \in DOMAIN queue |-> [queue[d] EXCEPT !.wait = Less(@), !.leased = Less(@)]]
      /\ sub' = [u \in Urls |-> IF sub[u].state = "pending"
                                THEN [sub[u] EXCEPT !.age = Lesser(@ + 1, PendingTTL + 1)]
                                ELSE sub[u]]
      /\ UNCHANGED <<used, posted, expiring, lost, consented, answers>>
  BY ZenonT(30) DEF Tick, At, Works
<1>2. Shapes
  BY Zenon DEF IInv
<1>3. ASSUME NEW w \in Workers
      PROVE  /\ worker'[w] \in Busy \cup {Idle} /\ (Works(w)' <=> Works(w))
             /\ Works(w) => /\ worker[w].left \in Nat /\ worker'[w].left = worker[w].left - 1
                            /\ worker'[w].pc = worker[w].pc /\ Of(w)' = Of(w)
                            /\ worker'[w].attempts = worker[w].attempts
                            /\ worker'[w].nonce = worker[w].nonce
  <2>1. CASE Works(w)
    <3> DEFINE left == worker[w].left - 1
    <3>1. worker[w] \in Busy /\ worker[w].left > 0
      BY ZenonT(30), <1>1, <1>2, <2>1, BusyIs
    <3>2. worker[w].left \in Nat
      BY Zenon, <3>1 DEF Busy
    <3>3. left \in Nat
      BY SMTT(30), <3>1, <3>2
    <3>4. worker'[w] = [worker[w] EXCEPT !.left = left]
      BY ZenonT(30), <1>1, <2>1 DEF At, Works
    <3> HIDE DEF left
    <3>5. worker'[w] \in Busy
      BY Zenon, <3>1, <3>3, <3>4 DEF Busy
    <3>6. /\ worker'[w].left = left /\ worker'[w].pc = worker[w].pc /\ worker'[w].d = worker[w].d
          /\ worker'[w].attempts = worker[w].attempts /\ worker'[w].nonce = worker[w].nonce
      BY Zenon, <3>1, <3>4 DEF Busy
    <3> QED
      BY Zenon, <2>1, <3>2, <3>5, <3>6 DEF Works, Of, left
  <2>2. CASE ~Works(w)
    <3>1. worker'[w] = Idle /\ Idle.pc = "idle"
      BY ZenonT(30), <1>1, <2>2 DEF At, Works, Idle
    <3> QED
      BY Zenon, <2>2, <3>1 DEF Works
  <2> QED
    BY ZenonT(30), <2>1, <2>2
<1>4. DOMAIN queue' = DOMAIN queue
  BY ZenonT(30), <1>1
<1>5. ASSUME NEW d \in DOMAIN queue
      PROVE  /\ IsRow(queue'[d]) /\ queue'[d].attempts = queue[d].attempts
             /\ queue[d].leased \in Nat /\ queue'[d].leased = Less(queue[d].leased)
  <2> DEFINE wait == Less(queue[d].wait)
             leased == Less(queue[d].leased)
  <2>1. IsRow(queue[d])
    BY Zenon, <1>2 DEF Shapes
  <2>2. queue[d].leased \in Nat /\ leased \in Nat /\ queue[d].attempts \in Nat
    BY SMTT(30), <2>1 DEF IsRow, Less
  <2>3. queue'[d] = [queue[d] EXCEPT !.wait = wait, !.leased = leased]
    BY ZenonT(30), <1>1
  <2> HIDE DEF wait, leased
  <2>4. queue'[d] = [attempts |-> queue[d].attempts, wait |-> wait, leased |-> leased]
    BY ZenonT(30), <2>1, <2>3 DEF IsRow
  <2> QED
    BY <2>2, <2>4 DEF IsRow, leased
<1>6. ASSUME NEW u \in Urls PROVE sub'[u] \in SubShape /\ SameSub(u)
  <2> DEFINE age == Lesser(sub[u].age + 1, PendingTTL + 1)
  <2>1. sub[u] \in SubShape
    BY Zenon, <1>2 DEF Shapes
  <2>2. age \in Nat
    <3>1. sub[u].age \in Nat /\ PendingTTL \in Nat
      BY Zenon, <2>1, WebhooksAssumption DEF SubShape
    <3> QED
      BY <3>1 DEF Lesser
  <2>3. sub'[u] = IF sub[u].state = "pending" THEN [sub[u] EXCEPT !.age = age] ELSE sub[u]
    BY ZenonT(30), <1>1
  <2> HIDE DEF age
  <2>4. sub'[u] \in SubShape
    BY Zenon, <2>1, <2>2, <2>3 DEF SubShape
  <2>5. SameSub(u)
    BY Zenon, <2>1, <2>3 DEF SameSub, SubShape
  <2> QED
    BY Zenon, <2>4, <2>5
<1>7. sub' \in [Urls -> SubShape] /\ worker' \in [Workers -> Busy \cup {Idle}]
  <2>1. sub' = [u \in Urls |-> sub'[u]] /\ worker' = [w \in Workers |-> worker'[w]]
    BY ZenonT(30), <1>1
  <2> QED
    BY Zenon, <1>3, <1>6, <2>1
<1>8. Shapes'
  <2>1. \A d \in DOMAIN queue' : IsRow(queue'[d])
    BY Zenon, <1>4, <1>5
  <2> QED
    BY ZenonT(30), <1>1, <1>2, <1>4, <1>7, <2>1 DEF Shapes
<1>9. Grows
  <2>1. \A u \in Urls : sub[u].gen \in Nat
    BY Zenon, <1>2 DEF Shapes, SubShape
  <2>2. \A u \in Urls : Kept(u)
    BY SMTT(30), <1>6, <2>1 DEF Kept, SameSub
  <2>3. \A d \in Deliveries : answers[d].failed \in Nat
    BY SMTT(30), <1>2, Constants DEF Shapes, AnswerShape
  <2>4. UNCHANGED <<posted, lost, consented, answers>> /\ lost \in Nat
    BY ZenonT(30), <1>1, <1>2 DEF Shapes
  <2> QED
    BY <2>2, <2>3, <2>4 DEF Grows
<1>10. NoneBack
  BY ZenonT(30), <1>3, <1>4 DEF NoneBack
<1>11. ASSUME NEW w \in Workers, Works(w)' PROVE WorkOK(w)'
  <2>1. /\ Works(w) /\ worker[w].left \in Nat /\ worker'[w].left = worker[w].left - 1
        /\ worker'[w].pc = worker[w].pc /\ Of(w)' = Of(w)
        /\ worker'[w].attempts = worker[w].attempts /\ worker'[w].nonce = worker[w].nonce
        /\ worker[w].left > 0
    BY ZenonT(30), <1>1, <1>3, <1>11
  <2>2. Of(w) \in Deliveries /\ Issued(Of(w)) /\ Leased(w) /\ Knows(w)
    BY ZenonT(30), <2>1, WorkerIs
  <2>3. Issued(Of(w))'
    BY ZenonT(30), <1>2, <1>8, <1>9, <2>1, <2>2, Stays
  <2>4. Leased(w)'
    <3>1. Slack(worker[w].pc) \in Nat /\ Slack(worker[w].pc)' = Slack(worker[w].pc)
      BY <2>1, Constants DEF Slack
    <3> QED
      BY <1>4, <1>5, <2>1, <2>2, <3>1 DEF Leased, Less
  <2>5. Knows(w)'
    <3>1. Confirmed(Of(w)) => Confirmed(Of(w))'
      BY ZenonT(30), <1>2, <1>8, <1>9, <2>1, <2>2, Stays
    <3>2. Settled(Of(w)) => Settled(Of(w))'
      BY ZenonT(30), <1>2, <1>8, <1>9, <2>1, <2>2, Stays
    <3>3. Exists(Of(w).id)' => /\ Exists(Of(w).id)
                               /\ sub[Of(w).id[1]].confirmed => sub'[Of(w).id[1]].confirmed
      BY ZenonT(30), <1>2, <1>8, <1>9, <2>1, <2>2, Stays
    <3> QED
      BY ZenonT(30), <1>1, <2>1, <2>2, <3>1, <3>2, <3>3 DEF Knows
  <2> QED
    BY Zenon, <2>3, <2>4, <2>5 DEF WorkOK
<1>12. OneSender'
  <2>1. \A w \in Workers : worker'[w] # Idle => Works(w)'
    BY ZenonT(30), <1>3 DEF Works, Busy
  <2>2. \A w \in Workers : Works(w) => worker[w] # Idle
    BY Zenon, <1>2, BusyIs
  <2>3. OneSender
    BY Zenon DEF IInv, WorkInv
  <2> QED
    BY <1>3, <2>1, <2>2, <2>3 DEF OneSender, Of
<1>13. ASSUME NEW d \in DOMAIN queue' PROVE RowOK(d)'
  <2>1. d \in DOMAIN queue /\ RowOK(d) /\ d.id[1] \in Urls
    BY ZenonT(30), <1>4, RowsId
  <2>2. Exists(d.id)' /\ (Expired(d.id[1])' => Expired(d.id[1]))
    BY ZenonT(30), <1>6, <2>1 DEF RowOK, Exists, Expired, SameSub
  <2>3. answers'[d].ok /\ lost' = 0 => Settling(d)'
    <3>1. ASSUME answers'[d].ok, lost' = 0 PROVE Settling(d)'
      <4>1. PICK w \in Workers : worker[w].pc \in {"confirm", "reset", "drop"} /\ Of(w) = d
        BY ZenonT(30), <1>1, <2>1, <3>1 DEF RowOK, Settling
      <4>2. Works(w)
        BY Zenon, <4>1 DEF Works
      <4> QED
        BY ZenonT(30), <1>3, <4>1, <4>2 DEF Settling
    <3> QED
      BY Zenon, <3>1
  <2> QED
    BY ZenonT(30), <1>2, <1>5, <1>8, <1>9, <2>1, <2>2, <2>3, RowStays
<1>14. ASSUME NEW u \in Urls PROVE SubOK(u)'
  BY Zenon, <1>2, <1>6, <1>9, <1>10, SubStays DEF IInv, SubInv
<1>15. AnswerInv'
  BY ZenonT(30), <1>1, <1>2, <1>8, <1>9, AnswersStay DEF IInv
<1>16. ASSUME NEW id \in expiring' PROVE FoundOK(id)'
  BY ZenonT(30), <1>1, <1>2, <1>8, <1>9, <1>10, FoundStays DEF IInv, FoundInv
<1> QED
  BY Zenon, <1>8, <1>11, <1>12, <1>13, <1>14, <1>15, <1>16 DEF IInv, WorkInv, RowInv, SubInv, FoundInv

\* A step that changes nothing the invariant is about: NewHour, or none.
LEMMA UsedStep ==
    ASSUME IInv, UNCHANGED <<sub, queue, posted, worker, expiring, lost, consented, answers>>
    PROVE  IInv'
<1>1. Shapes /\ Shapes'
  BY Zenon DEF IInv, Shapes
<1>2. Grows
  BY Zenon, <1>1, Quiet
<1>3. NoneBack
  BY Zenon DEF NoneBack, Works, Of
<1>4. ASSUME NEW d \in DOMAIN queue
      PROVE  Exists(d.id)' /\ (Expired(d.id[1])' => Expired(d.id[1]))
  BY ZenonT(30), RowsId DEF RowOK, Exists, Expired
<1>5. \A u \in Urls : SubOK(u)'
  BY ZenonT(30), <1>2, <1>3, SubsStay
<1>6. ASSUME NEW id \in expiring' PROVE FoundOK(id)'
  BY Zenon, <1>1, <1>2, <1>3, FoundStays DEF IInv, FoundInv
<1> QED
  BY Zenon, <1>1, <1>2, <1>4, <1>5, <1>6, OutsideStep

-----------------------------------------------------------------------------
(* The theorems.                                                           *)

LEMMA Invariant == Spec => []IInv
<1>1. IInv /\ [Next]_vars => IInv'
  <2> SUFFICES ASSUME IInv, [Next]_vars PROVE IInv'
    BY Zenon
  <2>1. CASE \E u \in Urls : Create(u) \/ Delete(u)
    BY Zenon, <2>1, CreateStep, DeleteStep
  <2>2. CASE \E e \in Events : \E T \in SUBSET Active : \E S \in SUBSET T : Post(e, T, S)
    BY Zenon, <2>2, PostStep
  <2>7. CASE \E e \in Events : withdrawMessage(e) \/ \E hide \in BOOLEAN : Moderate(e, hide)
    BY Zenon, <2>7, HideStep DEF withdrawMessage, Moderate
  <2>3. ASSUME NEW w \in Workers, Deliver(w) \/ Lose(w) PROVE IInv'
    <3>1. CASE \E d \in DOMAIN queue : Claim(w, d)
      BY Zenon, <3>1, ClaimStep
    <3>2. CASE \E ok, permanent, echo \in BOOLEAN : Answer(w, ok, permanent, echo)
      BY Zenon, <3>2, AnswerStep
    <3>3. CASE Look(w) \/ Confirm(w) \/ Reset(w) \/ Drop(w) \/ Retry(w)
      BY Zenon, <3>3, LookStep, ConfirmStep, ResetStep, DropStep, RetryStep
    <3>4. CASE GiveUp(w) \/ Count(w) \/ Disable(w) \/ Lose(w)
      BY Zenon, <3>4, GiveUpStep, CountStep, DisableStep, LoseStep
    <3> QED
      BY Zenon, <2>3, <3>1, <3>2, <3>3, <3>4 DEF Deliver
  <2>4. CASE Expire
    BY Zenon, <2>4, ExpireQueueStep, ExpireSubsStep DEF Expire
  <2>5. CASE Tick
    BY Zenon, <2>5, TickStep
  <2>6. CASE NewHour \/ UNCHANGED vars
    BY Zenon, <2>6, UsedStep DEF NewHour, vars
  <2> QED
    BY Zenon, <2>1, <2>2, <2>3, <2>4, <2>5, <2>6, <2>7 DEF Next
<1> QED
  BY <1>1, InitInv, PTL DEF Spec

\* No two workers of the sender are ever at one delivery: a lease is taken only
\* when it is 0, and it outlasts what its worker may still do.
THEOREM LeaseExcludes == Spec => []OneSender
<1>1. IInv => OneSender
  BY Zenon DEF IInv, WorkInv
<1> QED
  BY <1>1, Invariant, PTL

\* The sender sends an acknowledged delivery again only after a failure half-way
\* through a claim, a settlement or a pass of maintenance.
THEOREM SentOnceAcknowledged == Spec => []AcknowledgedOnce
<1>1. IInv => AcknowledgedOnce
  <2> SUFFICES ASSUME IInv, NEW w \in Workers, worker[w].pc = "send", answers[worker[w].d].ok
               PROVE  lost > 0
    BY Zenon DEF AcknowledgedOnce, At
  <2>1. Knows(w) /\ Shapes
    BY ZenonT(30), WorkerIs DEF Works, IInv
  <2>2. lost # 0
    BY ZenonT(30), <2>1 DEF Knows, Of
  <2> QED
    BY SMTT(30), <2>1, <2>2 DEF Shapes
<1> QED
  BY <1>1, Invariant, PTL

\* A subscription is confirmed only by an echo of its own nonce, and an event
\* is sent only to a subscription whose nonce was echoed.
THEOREM ConsentComesFirst == Spec => []ConsentFirst
<1>1. IInv => ConsentFirst
  <2> SUFFICES ASSUME IInv PROVE ConsentFirst
    BY Zenon
  <2>1. \A u \in Urls : sub[u].confirmed => Id(u) \in consented
    BY Zenon DEF IInv, SubInv, SubOK
  <2>2. ASSUME NEW w \in Workers, worker[w].pc = "send", worker[w].d.event # Challenge
        PROVE  worker[w].d.id \in consented
    <3>1. Knows(w)
      BY ZenonT(30), <2>2, WorkerIs DEF Works
    <3> QED
      BY ZenonT(30), <2>2, <3>1 DEF Knows, Of, Confirmed
  <2> QED
    BY Zenon, <2>1, <2>2 DEF ConsentFirst, At, IsChallenge
<1> QED
  BY <1>1, Invariant, PTL

\* A row with the state of its subscription.
LEMMA Unproven ==
    ASSUME IInv, NEW d \in DOMAIN queue, ~sub[d.id[1]].confirmed
    PROVE  d.event = Challenge
BY ZenonT(30), RowsId DEF RowOK, Confirmed

\* Nothing is queued for a hidden post or a version of one: hiding it drops
\* what is, and a version is refused while any of its message's is hidden.
HiddenInv == \A d \in DOMAIN queue : ~About(d, Hidden)

\* Only a post brings anything but a challenge to the queue.
LEMMA WhoEnqueues ==
    ASSUME Next,
           ~\E e \in Events : \E T \in SUBSET Active : \E S \in SUBSET T : Post(e, T, S),
           ~\E e \in Events : withdrawMessage(e) \/ \E hide \in BOOLEAN : Moderate(e, hide)
    PROVE  /\ UNCHANGED posted
           /\ \A d \in DOMAIN queue' : d \in DOMAIN queue \/ d.event = Challenge
<1>1. CASE \E u \in Urls : Create(u)
  <2>1. PICK n : n.event = Challenge /\ queue' = Enqueue({n}) /\ UNCHANGED posted
    <3>1. \A id : [id |-> id, event |-> Challenge].event = Challenge
      BY Zenon
    <3> QED
      BY ZenonT(30), <1>1, <3>1 DEF Create
  <2> QED
    BY Zenon, <2>1 DEF Enqueue
<1>2. CASE \E u \in Urls : Delete(u)
  BY Zenon, <1>2 DEF Delete, Without
<1>3. ASSUME NEW w \in Workers, Deliver(w) \/ Lose(w)
      PROVE  UNCHANGED posted /\ DOMAIN queue' \subseteq DOMAIN queue
  <2>1. CASE \E c \in DOMAIN queue : Claim(w, c)
    BY Zenon, <2>1 DEF Claim, Rest
  <2>2. CASE Drop(w) \/ GiveUp(w)
    BY ZenonT(30), <2>2 DEF Drop, GiveUp, Without, Rest
  <2>3. CASE Retry(w)
    BY Zenon, <2>3 DEF Retry, Rest
  <2>4. CASE UNCHANGED <<queue, posted>>
    BY Zenon, <2>4
  <2> QED
    BY ZenonT(30), <1>3, <2>1, <2>2, <2>3, <2>4
    DEF Deliver, Look, Answer, Confirm, Reset, Count, Disable, Lose, Rest
<1>4. CASE Expire
  BY ZenonT(30), <1>4 DEF Expire, ExpireQueue, ExpireSubs, Without
<1>5. CASE Tick \/ NewHour
  BY ZenonT(30), <1>5 DEF Tick, NewHour
<1> QED
  BY ZenonT(30), <1>1, <1>2, <1>3, <1>4, <1>5 DEF Next

LEMMA HiddenInvariant == Spec => []HiddenInv
<1>1. Init => HiddenInv
  BY SMT DEF Init, HiddenInv
<1>2. HiddenInv /\ [Next]_vars => HiddenInv'
  <2> SUFFICES ASSUME HiddenInv, [Next]_vars PROVE HiddenInv'
    BY Zenon
  <2>1. ASSUME NEW e \in Events, NEW T \in SUBSET Active, NEW S \in SUBSET T, Post(e, T, S)
        PROVE  HiddenInv'
    <3> DEFINE D == {[id |-> Id(u), event |-> e] : u \in S}
    <3>1. /\ e \notin DOMAIN posted /\ \A f \in Versions(e) : ~posted[f]
          /\ queue' = Enqueue(D)
          /\ posted' = [f \in DOMAIN posted \cup {e} |-> f # e /\ posted[f]]
      BY ZenonT(30), <2>1 DEF Post, checkSupersession
    <3>4. \A d \in D : d.event = e
      BY SMT
    <3> HIDE DEF D
    <3>5. \A d \in DOMAIN queue' : d \in DOMAIN queue \/ d.event = e
      BY Zenon, <3>1, <3>4 DEF Enqueue
    <3>2. Hidden' = Hidden
      BY ZenonT(30), <3>1 DEF Hidden
    <3>3. e \notin Hidden /\ Origin[e] \notin Hidden
      BY ZenonT(30), <3>1, WebhooksAssumption DEF Hidden, Versions
    <3> QED
      BY ZenonT(30), <3>2, <3>3, <3>5 DEF HiddenInv, About
  <2>2. ASSUME NEW E, NEW hide \in BOOLEAN, setHidden(E, hide) PROVE HiddenInv'
    <3>1. CASE hide
      <4>1. Hidden' \subseteq Hidden \cup E
        BY ZenonT(30), <2>2 DEF setHidden, Hidden
      <4>2. \A d \in DOMAIN queue' : d \in DOMAIN queue /\ ~About(d, E)
        BY ZenonT(30), <2>2, <3>1 DEF setHidden, Without
      <4> QED
        BY ZenonT(30), <4>1, <4>2 DEF HiddenInv, About
    <3>2. CASE ~hide
      <4>1. Hidden' \subseteq Hidden /\ queue' = queue
        BY ZenonT(30), <2>2, <3>2 DEF setHidden, Hidden
      <4> QED
        BY ZenonT(30), <4>1 DEF HiddenInv, About
    <3> QED
      BY Zenon, <3>1, <3>2
  <2>3. CASE \E e \in Events : withdrawMessage(e) \/ \E hide \in BOOLEAN : Moderate(e, hide)
    BY Zenon, <2>2, <2>3 DEF withdrawMessage, Moderate
  <2>4. CASE /\ UNCHANGED posted
             /\ \A d \in DOMAIN queue' : d \in DOMAIN queue \/ d.event = Challenge
    BY ZenonT(30), <2>4 DEF HiddenInv, About, Hidden
  <2>5. CASE UNCHANGED vars
    BY Zenon, <2>4, <2>5 DEF vars
  <2> QED
    BY ZenonT(30), <2>1, <2>3, <2>4, <2>5, WhoEnqueues
<1> QED
  BY <1>1, <1>2, PTL DEF Spec

\* A pending or expired subscription has at most its challenge in the queue and
\* a deleted one nothing, though the deletions of expireWebhooks may fail, and
\* nothing is queued for a hidden message.
THEOREM QueueFitsSubscriptions == Spec => []QueueFits
<1>1. IInv /\ HiddenInv => QueueFits
  <2> SUFFICES ASSUME IInv, HiddenInv, NEW d \in DOMAIN queue
               PROVE  /\ Exists(d.id)
                      /\ ~About(d, Hidden)
                      /\ sub[d.id[1]].state = "pending" \/ Expired(d.id[1]) => d.event = Challenge
                      /\ Expired(d.id[1]) => lost > 0
    BY Zenon DEF QueueFits
  <2>1. RowOK(d) /\ d.id[1] \in Urls
    BY Zenon, RowsId
  <2>2. sub[d.id[1]].state = "pending" \/ Expired(d.id[1]) => ~sub[d.id[1]].confirmed
    BY Zenon, <2>1 DEF IInv, SubInv, SubOK, Expired
  <2> QED
    BY Zenon, <2>1, <2>2, Unproven DEF RowOK, HiddenInv
<1> QED
  BY <1>1, Invariant, HiddenInvariant, PTL

\* The statements that delete from webhook_deliveries.
LEMMA WhoDeletes ==
    ASSUME IInv, Next, NEW d \in DOMAIN queue \ DOMAIN queue'
    PROVE  \/ \E E : setHidden(E, TRUE) /\ About(d, E) /\ E \subseteq DOMAIN posted
           \/ \E u \in Urls : Delete(u) /\ d.id = Id(u)
           \/ \E w \in Workers : Works(w) /\ worker[w].pc \in {"drop", "giveup"} /\ d = Of(w)
           \/ \E u \in Unconfirmed : d.id = Id(u)
<1>1. CASE \E u \in Urls : Create(u)
  BY Zenon, <1>1 DEF Create, Enqueue
<1>2. ASSUME NEW u \in Urls, Delete(u) PROVE d.id = Id(u)
  BY Zenon, <1>2 DEF Delete, Without, Queued
<1>3. CASE \E e \in Events : \E T \in SUBSET Active : \E S \in SUBSET T : Post(e, T, S)
  BY ZenonT(30), <1>3 DEF Post, Enqueue
<1>7. ASSUME NEW e \in Events, withdrawMessage(e) \/ \E hide \in BOOLEAN : Moderate(e, hide)
      PROVE  \E E : setHidden(E, TRUE) /\ About(d, E) /\ E \subseteq DOMAIN posted
  <2>1. ASSUME NEW E, NEW hide \in BOOLEAN, setHidden(E, hide), E \subseteq DOMAIN posted
        PROVE  \E F : setHidden(F, TRUE) /\ About(d, F) /\ F \subseteq DOMAIN posted
    <3>1. hide = TRUE /\ queue' = Without({c \in DOMAIN queue : About(c, E)})
      BY ZenonT(30), <2>1 DEF setHidden
    <3>2. About(d, E)
      BY ZenonT(30), <3>1 DEF Without
    <3>3. setHidden(E, TRUE)
      BY Zenon, <2>1, <3>1
    <3> QED
      BY Zenon, <2>1, <3>2, <3>3
  <2>2. CASE withdrawMessage(e)
    <3>1. setHidden(Versions(e), TRUE) /\ Versions(e) \subseteq DOMAIN posted
      BY ZenonT(30), <2>2 DEF withdrawMessage, Versions
    <3>2. TRUE \in BOOLEAN
      BY Zenon
    <3> QED
      BY Zenon, <2>1, <3>1, <3>2
  <2>3. ASSUME NEW h \in BOOLEAN, Moderate(e, h)
        PROVE  \E F : setHidden(F, TRUE) /\ About(d, F) /\ F \subseteq DOMAIN posted
    <3>1. setHidden({e}, h) /\ {e} \subseteq DOMAIN posted
      BY ZenonT(30), <2>3 DEF Moderate
    <3> QED
      BY Zenon, <2>1, <3>1
  <2> QED
    BY Zenon, <1>7, <2>2, <2>3
<1>4. ASSUME NEW w \in Workers, Deliver(w) \/ Lose(w)
      PROVE  Works(w) /\ worker[w].pc \in {"drop", "giveup"} /\ d = Of(w)
  <2>1. CASE \E c \in DOMAIN queue : Claim(w, c)
    BY Zenon, <2>1 DEF Claim
  <2>2. CASE Drop(w) \/ GiveUp(w)
    BY ZenonT(30), <2>2 DEF Drop, GiveUp, Without, At, Works, Of
  <2>3. CASE Retry(w)
    BY Zenon, <2>3 DEF Retry
  <2>4. CASE ~(Drop(w) \/ GiveUp(w) \/ Retry(w)) /\ UNCHANGED queue
    BY Zenon, <2>4
  <2> QED
    BY ZenonT(30), <1>4, <2>1, <2>2, <2>3, <2>4
    DEF Deliver, Look, Answer, Confirm, Reset, Count, Disable, Lose
<1>5. ASSUME Expire PROVE \E u \in Unconfirmed : d.id = Id(u)
  <2>1. PICK fails \in BOOLEAN : ExpireQueue(fails) \/ ExpireSubs(fails)
    BY Zenon, <1>5 DEF Expire
  <2>2. queue' = Without(UNION {Queued(id) : id \in {Id(u) : u \in Unconfirmed}})
    BY ZenonT(30), <2>1 DEF ExpireQueue, ExpireSubs
  <2> QED
    BY Zenon, <2>2 DEF Without, Queued
<1>6. CASE Tick \/ NewHour
  BY ZenonT(30), <1>6 DEF Tick, NewHour
<1> QED
  BY ZenonT(30), <1>1, <1>2, <1>3, <1>4, <1>5, <1>6, <1>7 DEF Next

\* A delivery leaves the queue only once it is acknowledged, refused for good
\* or out of attempts, with its subscription deleted or disabled, or with its
\* message hidden.
THEOREM DeliveriesAreNotLost == Spec => NoneLost
<1>1. ASSUME IInv, Next, NEW d \in DOMAIN queue \ DOMAIN queue'
      PROVE  \/ d.event = Challenge
             \/ answers[d].ok \/ answers[d].permanent \/ answers[d].failed >= MaxAttempts
             \/ ~Exists(d.id)' \/ sub[d.id[1]].disabledAt
             \/ About(d, Hidden)'
  <2>4. CASE \E E : setHidden(E, TRUE) /\ About(d, E) /\ E \subseteq DOMAIN posted
    <3>1. PICK E : setHidden(E, TRUE) /\ About(d, E) /\ E \subseteq DOMAIN posted
      BY Zenon, <2>4
    <3>2. E \subseteq Hidden'
      BY ZenonT(30), <3>1 DEF setHidden, Hidden
    <3> QED
      BY ZenonT(30), <3>1, <3>2 DEF About
  <2>1. CASE \E u \in Urls : Delete(u) /\ d.id = Id(u)
    <3>1. PICK u \in Urls : Delete(u) /\ d.id = Id(u)
      BY Zenon, <2>1
    <3>2. d.id[1] = u /\ sub'[u].state = "none"
      BY SMTT(30), <1>1, <3>1 DEF Delete, Id, NoSub, IInv, Shapes
    <3> QED
      BY ZenonT(30), <3>2 DEF Exists
  <2>2. CASE \E w \in Workers : Works(w) /\ worker[w].pc \in {"drop", "giveup"} /\ d = Of(w)
    <3>1. Settled(d)
      BY ZenonT(30), <1>1, <2>2, WorkerIs DEF Knows
    <3>2. Exists(d.id)
      BY ZenonT(30), <1>1, RowsId DEF RowOK
    <3> QED
      BY Zenon, <3>1, <3>2 DEF Settled
  <2>3. CASE \E u \in Unconfirmed : d.id = Id(u)
    <3>1. PICK u \in Urls : d.id = Id(u) /\ sub[u].state = "pending"
      BY Zenon, <2>3 DEF Unconfirmed
    <3>2. ~sub[d.id[1]].confirmed
      BY SMTT(30), <1>1, <3>1 DEF IInv, SubInv, SubOK, Id
    <3> QED
      BY ZenonT(30), <1>1, <3>2, Unproven
  <2> QED
    BY ZenonT(30), <1>1, <2>1, <2>2, <2>3, <2>4, WhoDeletes
<1>2. IInv /\ [Next]_vars =>
        [\A d \in DOMAIN queue \ DOMAIN queue' :
            \/ d.event = Challenge
            \/ answers[d].ok \/ answers[d].permanent \/ answers[d].failed >= MaxAttempts
            \/ ~Exists(d.id)' \/ sub[d.id[1]].disabledAt
            \/ About(d, Hidden)']_vars
  BY Zenon, <1>1
<1> QED
  BY <1>2, Invariant, PTL DEF Spec, NoneLost
=============================================================================
