------------------------------ MODULE Webhooks ------------------------------
(***************************************************************************)
(* Push delivery (internal/board/webhooks.go, webhookdelivery.go):         *)
(* subscriptions, the delivery queue, the sender's workers and the         *)
(* maintenance that expires unconfirmed subscriptions.  webhook.create,    *)
(* webhook.delete and a post are one transaction each.  The sender is not: *)
(* claimDelivery, settle and expireWebhooks are several statements, each   *)
(* its own transaction, and every statement is a step here.                *)
(*                                                                         *)
(* A time in a table is kept as what is left of it, 0 once it is past, so  *)
(* that the clock needs no last instant.  Which accounts an event concerns *)
(* is left open; the body, the signature and last_error are left out.      *)
(***************************************************************************)
EXTENDS Integers, FiniteSets

CONSTANTS Urls, Owner,          \* url -> the account that subscribes it
          Events,               \* posts
          Origin,               \* post -> the one it is a version of, itself
                                \* when it is a version of none
          Workers,
          Challenge,            \* the event of a challenge's delivery
          MaxPerAccount, MaxExpiredPerAccount, MaxDeliveriesHour, MaxFanout,
          MaxAttempts, DisableFailures, PendingTTL,
          BaseBackoff, MaxBackoff, Lease,
          ClaimTime,            \* the longest a claim's two statements take
          RequestTime, SettleTime,
          MaxGens,              \* subscriptions made of one url
          MaxLost               \* claims and passes that fail half-way

ASSUME WebhooksAssumption ==
    /\ Challenge \notin Events
    /\ Origin \in [Events -> Events]
    /\ \A e \in Events : Origin[Origin[e]] = Origin[e]
    /\ DOMAIN Owner = Urls
    /\ {MaxPerAccount, MaxExpiredPerAccount, MaxDeliveriesHour, MaxFanout,
        MaxAttempts, PendingTTL, BaseBackoff, MaxBackoff, Lease, RequestTime,
        SettleTime, MaxGens} \subseteq Nat \ {0}
    /\ {ClaimTime, MaxLost} \subseteq Nat
    /\ DisableFailures \in Nat /\ DisableFailures > 1
    /\ ClaimTime + RequestTime + SettleTime < Lease

VARIABLES sub,        \* webhook_subscriptions: url -> its row (age: while pending)
          queue,      \* webhook_deliveries: delivery -> its row
          used,       \* webhook_rates: account -> deliveries this hour
          posted,     \* events: post -> whether it is hidden
          worker,     \* worker -> the delivery it is at
          expiring,   \* expireWebhooks: the subscriptions it has found, if any
          lost,
          consented,  \* history: subscriptions whose nonce was echoed
          answers     \* history: delivery -> what its endpoint answered

vars == <<sub, queue, used, posted, worker, expiring, lost, consented, answers>>

Accounts == {Owner[u] : u \in Urls}
\* A url's gen stands for the random id its subscription got.
Ids == Urls \X (1..MaxGens)
\* UNIQUE(subscription,event_id).
Deliveries == [id : Ids, event : Events \cup {Challenge}]
Idle == [pc |-> "idle"]

NoSub(gen) == [state |-> "none", gen |-> gen, age |-> 0, confirmed |-> FALSE,
               disabledAt |-> FALSE, nonce |-> FALSE, failures |-> 0]
NoAnswer == [ok |-> FALSE, permanent |-> FALSE, failed |-> 0]

Init == /\ sub = [u \in Urls |-> NoSub(0)]
        /\ queue = << >>
        /\ used = [a \in Accounts |-> 0]
        /\ posted = << >>
        /\ worker = [w \in Workers |-> Idle]
        /\ expiring = {}
        /\ lost = 0
        /\ consented = {}
        /\ answers = [d \in Deliveries |-> NoAnswer]

-----------------------------------------------------------------------------
(* The commands.                                                           *)

Id(u) == <<u, sub[u].gen>>
\* The row with this id is still there.
Exists(id) == sub[id[1]].gen = id[2] /\ sub[id[1]].state # "none"

\* webhookExpiredSQL: never confirmed, and too late to be.
Expired(u) == sub[u].state = "disabled" /\ ~sub[u].confirmed
HeldBy(a) == {u \in Urls : Owner[u] = a /\ sub[u].state # "none" /\ ~Expired(u)}
ExpiredOf(a) == {u \in Urls : Owner[u] = a /\ Expired(u)}

Queued(id) == {d \in DOMAIN queue : d.id = id}
NewRow == [attempts |-> 0, wait |-> 0, leased |-> 0]
Enqueue(D) == [d \in DOMAIN queue \cup D |-> IF d \in D THEN NewRow ELSE queue[d]]
Without(D) == [d \in DOMAIN queue \ D |-> queue[d]]

\* webhook.create: a new row, or an expired one of the same url made anew. No
\* foreign key may point to the id that row loses.
Create(u) ==
    LET gen == sub[u].gen + 1
    IN  /\ gen <= MaxGens
        /\ \/ sub[u].state = "none"
              /\ Cardinality(ExpiredOf(Owner[u])) < MaxExpiredPerAccount
           \/ Expired(u) /\ Queued(Id(u)) = {}
        /\ Cardinality(HeldBy(Owner[u])) < MaxPerAccount
        /\ sub' = [sub EXCEPT ![u] = [NoSub(gen) EXCEPT !.state = "pending",
                                                        !.nonce = TRUE]]
        /\ queue' = Enqueue({[id |-> <<u, gen>>, event |-> Challenge]})
        /\ UNCHANGED <<used, posted, worker, expiring, lost, consented, answers>>

Delete(u) ==
    /\ sub[u].state # "none"
    /\ sub' = [sub EXCEPT ![u] = NoSub(@.gen)]
    /\ queue' = Without(Queued(Id(u)))
    /\ UNCHANGED <<used, posted, worker, expiring, lost, consented, answers>>

Active == {u \in Urls : sub[u].state = "active"}
Lesser(a, b) == IF a <= b THEN a ELSE b

\* What has been posted of the message that e is a version of.
Versions(e) == {f \in DOMAIN posted : Origin[f] = Origin[e]}

\* A version follows the post it is a version of, while none of them is hidden.
checkSupersession(e) == /\ Origin[e] = e \/ Origin[e] \in DOMAIN posted
                        /\ \A f \in Versions(e) : ~posted[f]

\* The delivery is of a post in E or of a version of one.
About(d, E) == d.event # Challenge /\ {d.event, Origin[d.event]} \cap E # {}

\* enqueueWebhooks, in the transaction of a post that concerns the accounts of
\* the subscriptions in T: over the hourly ceiling a delivery is dropped.
Post(e, T, S) ==
    LET In(X, a) == {u \in X : Owner[u] = a}
    IN  /\ e \notin DOMAIN posted /\ checkSupersession(e)
        /\ T \subseteq Active /\ Cardinality(T) <= MaxFanout
        /\ S \subseteq T
        /\ \A a \in Accounts :
              Cardinality(In(S, a)) =
                Lesser(Cardinality(In(T, a)), MaxDeliveriesHour - used[a])
        /\ queue' = Enqueue({[id |-> Id(u), event |-> e] : u \in S})
        /\ used' = [a \in Accounts |-> used[a] + Cardinality(In(S, a))]
        /\ posted' = [f \in DOMAIN posted \cup {e} |-> f # e /\ posted[f]]
        /\ UNCHANGED <<sub, worker, expiring, lost, consented, answers>>

\* setHidden, by a command that hides or restores the posts in E: what is
\* queued for them, or for a version of them, is dropped when they are hidden,
\* and does not come back when they are restored.
setHidden(E, hide) ==
    /\ posted' = [f \in DOMAIN posted |-> IF f \in E THEN hide ELSE posted[f]]
    /\ queue' = IF hide THEN Without({d \in DOMAIN queue : About(d, E)}) ELSE queue
    /\ UNCHANGED <<sub, used, worker, expiring, lost, consented, answers>>

\* The operator, or a room's moderators, hide or restore one post.
Moderate(e, hide) == e \in DOMAIN posted /\ setHidden({e}, hide)

\* Its author withdraws a message with all of its versions.
withdrawMessage(e) ==
    /\ e \in DOMAIN posted
    /\ \A f \in Versions(e) : ~posted[f]
    /\ setHidden(Versions(e), TRUE)

-----------------------------------------------------------------------------
(* A worker: claimDelivery, send, settle.                                  *)

At(w, pc) == worker[w].pc = pc
To(w, pc) == worker' = [worker EXCEPT ![w].pc = pc]
Done(w) == worker' = [worker EXCEPT ![w] = Idle]
\* UPDATE webhook_subscriptions ... WHERE id=?, of the delivery's subscription.
Sets(w, row) == LET u == worker[w].d.id[1]
                IN  sub' = IF Exists(worker[w].d.id)
                           THEN [sub EXCEPT ![u] = row] ELSE sub
RowOf(w) == sub[worker[w].d.id[1]]
Rest == UNCHANGED <<used, posted, expiring, lost, consented, answers>>

\* Mutant: the lease is not looked at.
ClaimLeased(w, d) ==
    /\ At(w, "idle")
    /\ queue[d].wait = 0
    /\ queue' = [queue EXCEPT ![d].leased = Lease]
    /\ worker' = [worker EXCEPT ![w] =
                    [pc |-> "look", d |-> d, attempts |-> queue[d].attempts,
                     nonce |-> FALSE, left |-> ClaimTime]]
    /\ UNCHANGED sub /\ Rest

Claim(w, d) ==
    /\ At(w, "idle")
    /\ queue[d].wait = 0
    /\ queue[d].leased = 0
    /\ queue' = [queue EXCEPT ![d].leased = Lease]
    /\ worker' = [worker EXCEPT ![w] =
                    [pc |-> "look", d |-> d, attempts |-> queue[d].attempts,
                     nonce |-> FALSE, left |-> ClaimTime]]
    /\ UNCHANGED sub /\ Rest

\* Mutant: a disabled subscription is not told from an active one.
LookAnyState(w) ==
    LET id == worker[w].d.id
    IN  /\ At(w, "look")
        /\ IF ~Exists(id)
           THEN To(w, "drop")
           ELSE worker' = [worker EXCEPT ![w].pc = "send",
                                         ![w].nonce = RowOf(w).nonce,
                                         ![w].left = RequestTime]
        /\ UNCHANGED <<sub, queue>> /\ Rest

\* The claim's second statement. (An event of a pending subscription would be
\* put off; QueueFits says there is none.)
Look(w) ==
    LET id == worker[w].d.id
    IN  /\ At(w, "look")
        /\ IF ~Exists(id) \/ RowOf(w).state = "disabled"
           THEN To(w, "drop")
           ELSE worker' = [worker EXCEPT ![w].pc = "send",
                                         ![w].nonce = RowOf(w).nonce,
                                         ![w].left = RequestTime]
        /\ UNCHANGED <<sub, queue>> /\ Rest

IsChallenge(w) == worker[w].d.event = Challenge

\* Mutant: the last attempt is not made.
ExhaustedEarly(w, permanent) == \/ permanent
                                \/ worker[w].attempts + 2 >= MaxAttempts
                                \/ IsChallenge(w)

\* A challenge is sent once.
Exhausted(w, permanent) == \/ permanent
                           \/ worker[w].attempts + 1 >= MaxAttempts
                           \/ IsChallenge(w)

\* send, and what settle makes of it: ok is a 2xx, echo that its body holds
\* the challenge, which any body does once the challenge has been cleared.  A
\* challenge that fails is given up, permanently refused or not.
Answer(w, ok, permanent, echo) ==
    LET d == worker[w].d
        pc == IF ~ok THEN IF Exhausted(w, permanent) THEN "giveup" ELSE "retry"
              ELSE IF ~IsChallenge(w) THEN "reset"
              ELSE IF echo \/ ~worker[w].nonce THEN "confirm" ELSE "drop"
    IN  /\ At(w, "send")
        /\ permanent => ~ok /\ ~IsChallenge(w)
        /\ echo => ok /\ IsChallenge(w)
        /\ worker' = [worker EXCEPT ![w].pc = pc, ![w].left = SettleTime]
        /\ answers' = [answers EXCEPT ![d] =
                         [ok |-> @.ok \/ ok,
                          permanent |-> @.permanent \/ permanent,
                          failed |-> IF ok THEN @.failed
                                     ELSE Lesser(@.failed + 1, MaxAttempts)]]
        /\ consented' = IF echo /\ worker[w].nonce
                        THEN consented \cup {d.id} ELSE consented
        /\ UNCHANGED <<sub, queue, used, posted, expiring, lost>>

Confirm(w) ==
    /\ At(w, "confirm")
    /\ Sets(w, [RowOf(w) EXCEPT !.state = "active", !.confirmed = TRUE,
                                !.nonce = FALSE, !.failures = 0, !.age = 0])
    /\ To(w, "drop")
    /\ UNCHANGED queue /\ Rest

\* Mutant: an acknowledged delivery is released, not deleted.
ResetRequeues(w) ==
    /\ At(w, "reset")
    /\ Sets(w, [RowOf(w) EXCEPT !.failures = 0])
    /\ queue' = [d \in DOMAIN queue |-> IF d = worker[w].d THEN NewRow ELSE queue[d]]
    /\ Done(w)
    /\ Rest

Reset(w) ==
    /\ At(w, "reset")
    /\ Sets(w, [RowOf(w) EXCEPT !.failures = 0])
    /\ To(w, "drop")
    /\ UNCHANGED queue /\ Rest

Drop(w) ==
    /\ At(w, "drop")
    /\ queue' = Without({worker[w].d})
    /\ Done(w)
    /\ UNCHANGED sub /\ Rest

\* webhookBackoff: doubled from the second failure on, within a quarter, and
\* at most MaxBackoff.
Doubled[n \in Nat] == IF n = 0 THEN BaseBackoff
                      ELSE IF Doubled[n - 1] >= MaxBackoff THEN Doubled[n - 1]
                      ELSE 2 * Doubled[n - 1]
Within(n) == IF n < 1 THEN 1 ELSE Lesser(n, MaxBackoff)
webhookBackoff(attempts) ==
    LET delay == Lesser(Doubled[attempts - 1], MaxBackoff)
    IN  {Within(n) : n \in ((3 * delay) \div 4)..((5 * delay - 1) \div 4)}

\* Mutant: the attempt is not counted.
RetryUncounted(w) ==
    LET d == worker[w].d  attempts == worker[w].attempts + 1
    IN  /\ At(w, "retry")
        /\ \E wait \in webhookBackoff(attempts) :
              queue' = IF d \in DOMAIN queue
                       THEN [queue EXCEPT ![d].wait = wait, ![d].leased = 0]
                       ELSE queue
        /\ Done(w)
        /\ UNCHANGED sub /\ Rest

Retry(w) ==
    LET d == worker[w].d  attempts == worker[w].attempts + 1
    IN  /\ At(w, "retry")
        /\ \E wait \in webhookBackoff(attempts) :
              queue' = IF d \in DOMAIN queue
                       THEN [queue EXCEPT ![d] = [attempts |-> attempts, wait |-> wait,
                                                  leased |-> 0]]
                       ELSE queue
        /\ Done(w)
        /\ UNCHANGED sub /\ Rest

GiveUp(w) ==
    /\ At(w, "giveup")
    /\ queue' = Without({worker[w].d})
    /\ To(w, "count")
    /\ UNCHANGED sub /\ Rest

Count(w) ==
    LET failures == RowOf(w).failures + 1
    IN  /\ At(w, "count")
        /\ Sets(w, [RowOf(w) EXCEPT !.failures = failures])
        /\ IF Exists(worker[w].d.id) /\ failures >= DisableFailures
           THEN To(w, "disable") ELSE Done(w)
        /\ UNCHANGED queue /\ Rest

Disable(w) ==
    /\ At(w, "disable")
    /\ Sets(w, [RowOf(w) EXCEPT !.state = "disabled", !.disabledAt = TRUE])
    /\ Done(w)
    /\ UNCHANGED queue /\ Rest

\* A statement fails, a step panics, or the process stops: the row stays
\* leased.
Lose(w) ==
    /\ ~At(w, "idle")
    /\ lost < MaxLost
    /\ lost' = lost + 1
    /\ Done(w)
    /\ UNCHANGED <<sub, queue, used, posted, expiring, consented, answers>>

-----------------------------------------------------------------------------
(* expireWebhooks, two statements, either of which may fail; and the clock. *)

Unconfirmed == {u \in Urls : sub[u].state = "pending" /\ sub[u].age > PendingTTL}

\* Mutant: the queue is cleared of subscriptions marked already.
ExpireQueueMarked(fails) ==
    LET due == {Id(u) : u \in Unconfirmed}
    IN  /\ expiring = {} /\ due # {}
        /\ IF fails THEN lost < MaxLost /\ lost' = lost + 1 /\ UNCHANGED queue
                    ELSE queue' = Without(UNION {Queued(Id(u)) : u \in {v \in Urls : Expired(v)}})
                         /\ UNCHANGED lost
        /\ expiring' = due
        /\ UNCHANGED <<sub, used, posted, worker, consented, answers>>

ExpireQueue(fails) ==
    LET due == {Id(u) : u \in Unconfirmed}
    IN  /\ expiring = {} /\ due # {}
        /\ IF fails THEN lost < MaxLost /\ lost' = lost + 1 /\ UNCHANGED queue
                    ELSE queue' = Without(UNION {Queued(id) : id \in due})
                         /\ UNCHANGED lost
        /\ expiring' = due
        /\ UNCHANGED <<sub, used, posted, worker, consented, answers>>

ExpireSubs(fails) ==
    LET due == {u \in Urls : Id(u) \in expiring /\ sub[u].state = "pending"}
    IN  /\ expiring # {}
        /\ IF fails THEN lost < MaxLost /\ lost' = lost + 1 /\ UNCHANGED sub
                    ELSE sub' = [u \in Urls |->
                                   IF u \in due THEN [sub[u] EXCEPT !.state = "disabled",
                                                                    !.disabledAt = TRUE,
                                                                    !.nonce = FALSE]
                                   ELSE sub[u]]
                         /\ UNCHANGED lost
        /\ expiring' = {}
        /\ UNCHANGED <<queue, used, posted, worker, consented, answers>>

Less(n) == IF n > 0 THEN n - 1 ELSE 0

\* Whatever is bounded in time has been done by then.
Tick ==
    /\ \A w \in Workers : ~At(w, "idle") => worker[w].left > 0
    /\ worker' = [w \in Workers |-> IF At(w, "idle") THEN Idle
                                    ELSE [worker[w] EXCEPT !.left = @ - 1]]
    /\ queue' = [d \in DOMAIN queue |-> [queue[d] EXCEPT !.wait = Less(@),
                                                         !.leased = Less(@)]]
    /\ sub' = [u \in Urls |-> IF sub[u].state = "pending"
                              THEN [sub[u] EXCEPT !.age = Lesser(@ + 1, PendingTTL + 1)]
                              ELSE sub[u]]
    /\ UNCHANGED <<used, posted, expiring, lost, consented, answers>>

NewHour ==
    /\ used' = [a \in Accounts |-> 0]
    /\ UNCHANGED <<sub, queue, posted, worker, expiring, lost, consented, answers>>

Deliver(w) ==
    \/ \E d \in DOMAIN queue : Claim(w, d)
    \/ Look(w)
    \/ \E ok, permanent, echo \in BOOLEAN : Answer(w, ok, permanent, echo)
    \/ Confirm(w) \/ Reset(w) \/ Drop(w) \/ Retry(w)
    \/ GiveUp(w) \/ Count(w) \/ Disable(w)

Expire == \E fails \in BOOLEAN : ExpireQueue(fails) \/ ExpireSubs(fails)

Next == \/ \E u \in Urls : Create(u) \/ Delete(u)
        \/ \E e \in Events : \E T \in SUBSET Active : \E S \in SUBSET T : Post(e, T, S)
        \/ \E e \in Events : withdrawMessage(e) \/ \E hide \in BOOLEAN : Moderate(e, hide)
        \/ \E w \in Workers : Deliver(w) \/ Lose(w)
        \/ Expire
        \/ Tick
        \/ NewHour

Spec == Init /\ [][Next]_vars

\* When Deliver(w) and a Tick that changes something are enabled.
Ready(w) == \/ ~At(w, "idle")
            \/ \E d \in DOMAIN queue : queue[d].wait = 0 /\ queue[d].leased = 0
Passing == /\ \A w \in Workers : ~At(w, "idle") => worker[w].left > 0
           /\ \/ \E w \in Workers : ~At(w, "idle")
              \/ \E d \in DOMAIN queue : queue[d].wait + queue[d].leased > 0
              \/ \E u \in Urls : sub[u].state = "pending" /\ sub[u].age <= PendingTTL

\* What Deliver(w) does and no other step: w moves on, and nothing is lost.
MovesOn(w) == worker'[w].pc # worker[w].pc /\ lost' = lost

\* Workers poll and drain, maintenance runs every minute, the clock advances:
\* WF_vars of Deliver(w), of Expire (only it changes expiring) and of Tick,
\* spelled out.
LiveSpec == /\ Spec
            /\ \A w \in Workers : []<>~Ready(w) \/ []<><<MovesOn(w)>>_worker
            /\ []<>(expiring = {} /\ Unconfirmed = {}) \/ []<>(<<TRUE>>_expiring)
            /\ []<>~Passing \/ []<><<Tick>>_vars

-----------------------------------------------------------------------------
SubType == [state : {"none", "pending", "active", "disabled"}, gen : 0..MaxGens,
            age : 0..(PendingTTL + 1), confirmed : BOOLEAN, disabledAt : BOOLEAN,
            nonce : BOOLEAN, failures : 0..Cardinality(Events \cup {Challenge})]
RowType == [attempts : 0..(MaxAttempts - 1), wait : 0..MaxBackoff, leased : 0..Lease]
BusyType == [pc : {"look", "send", "confirm", "reset", "drop", "retry", "giveup",
                   "count", "disable"},
             d : Deliveries, attempts : 0..(MaxAttempts - 1), nonce : BOOLEAN,
             left : 0..Lease]

\* The tables have their shapes: a delivery in the queue has an attempt left,
\* and none waits longer than the longest backoff.
TypeOK ==
    /\ sub \in [Urls -> SubType]
    /\ DOMAIN queue \subseteq Deliveries
    /\ \A d \in DOMAIN queue : queue[d] \in RowType
    /\ used \in [Accounts -> 0..MaxDeliveriesHour]
    /\ DOMAIN posted \subseteq Events /\ \A e \in DOMAIN posted : posted[e] \in BOOLEAN
    /\ \A w \in Workers : worker[w] \in BusyType \cup {Idle}
    /\ expiring \subseteq Ids
    /\ lost \in 0..MaxLost
    /\ consented \subseteq Ids
    /\ \A d \in Deliveries : answers[d].failed \in 0..MaxAttempts

\* The lease: no two workers are at one delivery, though the lease of a worker
\* that failed lapses and another then takes the delivery up.
OneSender ==
    \A v, w \in Workers : v # w /\ worker[v] # Idle /\ worker[w] # Idle
                            => worker[v].d # worker[w].d

\* RFC 0006: a subscription "receives no event deliveries until the endpoint
\* proves it wants them".  A confirmed subscription's own nonce was echoed, and
\* no event is sent to another, though a cleared challenge matches any body.
ConsentFirst ==
    /\ \A u \in Urls : sub[u].confirmed => Id(u) \in consented
    /\ \A w \in Workers : At(w, "send") /\ ~IsChallenge(w)
                            => worker[w].d.id \in consented

\* StopWebhookDelivery: stopping "repeats none that the endpoint already
\* acknowledged".  Only a failure between the answer and settle's last
\* statement makes a delivery go out again.
AcknowledgedOnce ==
    \A w \in Workers : At(w, "send") /\ answers[worker[w].d].ok => lost > 0

Hidden == {e \in DOMAIN posted : posted[e]}

\* What a subscription has in the queue fits its state: a pending or an expired
\* one at most its challenge, and a deleted one nothing, so that nothing points
\* to the id webhook.create takes from an expired row but a challenge whose
\* deletion failed.  And "a hidden message notifies no one" (setHidden): nothing
\* is queued for a hidden post or for a version of one.
QueueFits ==
    \A d \in DOMAIN queue :
        /\ Exists(d.id)
        /\ ~About(d, Hidden)
        /\ sub[d.id[1]].state = "pending" \/ Expired(d.id[1]) => d.event = Challenge
        /\ Expired(d.id[1]) => lost > 0

\* No event is lost: its delivery leaves the queue once the endpoint has
\* acknowledged it, refused it for good or failed it MaxAttempts times, with
\* its subscription deleted, or disabled when a worker came to it, or with its
\* message hidden.
NoneLost ==
    [][\A d \in DOMAIN queue \ DOMAIN queue' :
          \/ d.event = Challenge
          \/ answers[d].ok \/ answers[d].permanent \/ answers[d].failed >= MaxAttempts
          \/ ~Exists(d.id)' \/ sub[d.id[1]].disabledAt
          \/ About(d, Hidden)']_vars

\* Whatever fails half-way and whatever the endpoint answers, deliveries are
\* made or given up and no subscription stays pending: after the last post and
\* the last webhook.create the queue drains.
QueueDrains == []<>(/\ DOMAIN queue = {}
                    /\ \A u \in Urls : sub[u].state # "pending")

\* PROTOCOL.md: "A disabled subscription is never contacted again; the row
\* stays": one that failures disabled is not active again.  (Violated.)
DisabledForGood ==
    [][\A u \in Urls : sub[u].state = "disabled" /\ sub[u].confirmed
                         => sub'[u].state # "active"]_vars
=============================================================================
