------------------------------- MODULE Outbox -------------------------------
(***************************************************************************)
(* The durable client outbox (clients/python/swarmmemo_outbox.py), a       *)
(* network that loses, delays and repeats, and the board's request cache   *)
(* (module Requests).                                                      *)
(*                                                                         *)
(* Rows of the queue are numbered in enqueue order.  A flush holds the     *)
(* file lock from its first look at the queue to its end, so that at most  *)
(* one runs and nothing is enqueued meanwhile; it may die anywhere.  Each  *)
(* UPDATE of the queue is a commit of its own.  Copies of a request whose  *)
(* sender gave up or died may still reach the board.  The same key is also *)
(* used without the outbox (Direct).                                       *)
(***************************************************************************)
EXTENDS Requests, FiniteSets

CONSTANTS N,             \* rows
          Op, Body,      \* of the N intents
          Direct,        \* [id, body] of posts made without the outbox
          Bindings,      \* the outboxes: bound to a key (TRUE) or anonymous
          Skews,         \* how far ahead the client's clock may be
          Limits,        \* of a flush
          MaxCopies, MaxFaults, Horizon   \* bounds of the model

Rows == 1..N
NoStamp == -1

ASSUME OutboxAssumption ==
    /\ N \in Nat
    /\ Op \in [Rows -> {"post", "rotate"}]
    /\ DOMAIN Body = Rows
    /\ Bindings \subseteq BOOLEAN
    /\ Skews \subseteq Nat /\ Limits \subseteq Nat \ {0}
    /\ {MaxCopies, MaxFaults, Horizon} \subseteq Nat

VARIABLES signed,   \* the binding: signed by a key, or anonymous
          queue,    \* the rows: state, and the envelope's timestamp
          flush,    \* the flush that holds the lock
          copies,   \* requests on their way, by row
          faults    \* how many things went wrong

client == <<signed, queue, flush, copies, faults>>
vars == <<server, client>>

Idle == [pc |-> "idle", row |-> 0, rows |-> {}, retry |-> FALSE, answer |-> 0]

Init == /\ ServerInit
        /\ signed \in Bindings
        /\ queue = [i \in Rows |-> [state |-> "none", stamp |-> NoStamp]]
        /\ flush = Idle
        /\ copies = [i \in Rows |-> 0]
        /\ faults = 0

Lowest(S) == CHOOSE i \in S : \A j \in S : i <= j

Goes(wrong) == IF wrong THEN faults < MaxFaults /\ faults' = faults + 1
                        ELSE faults' = faults

-----------------------------------------------------------------------------
(* The queue.                                                              *)

\* A repeated id with the same intent is no step, with another is refused.
enqueue(i) ==
    /\ flush = Idle
    /\ queue[i].state = "none" /\ \A j \in 1..(i - 1) : queue[j].state # "none"
    /\ signed \/ Op[i] = "post"
    /\ queue' = [queue EXCEPT ![i].state = "queued"]
    /\ UNCHANGED <<server, signed, flush, copies, faults>>

Waiting == {i \in Rows : queue[i].state \notin {"none", "acknowledged"}}

\* outbox_rotation_completed
RotationCompleted == \E i \in Rows : Op[i] = "rotate" /\ queue[i].state = "acknowledged"

First(n) == {i \in Waiting : n > Cardinality({j \in Waiting : j < i})}

\* Mutant: a blocked row ends it always.
TakeUnblocked(rows, retry) ==
    IF rows = {} THEN Idle
    ELSE LET i == Lowest(rows)
         IN  IF queue[i].state = "blocked" THEN Idle
             ELSE [pc |-> IF queue[i].stamp = NoStamp THEN "prepare" ELSE "attempt",
                   row |-> i, rows |-> rows \ {i}, retry |-> retry, answer |-> 0]

\* A flush takes its rows; a blocked one ends it unless it is told to retry.
Take(rows, retry) ==
    IF rows = {} THEN Idle
    ELSE LET i == Lowest(rows)
         IN  IF queue[i].state = "blocked" /\ ~retry THEN Idle
             ELSE [pc |-> IF queue[i].stamp = NoStamp THEN "prepare" ELSE "attempt",
                   row |-> i, rows |-> rows \ {i}, retry |-> retry, answer |-> 0]

Flush(n, retry) ==
    /\ flush = Idle /\ ~RotationCompleted
    /\ flush' = Take(First(n), retry) /\ flush' # Idle
    /\ UNCHANGED <<server, signed, queue, copies, faults>>

\* deliver: only the head, only a post, and no envelope is made for a row that
\* failed without one.
deliver(i, retry) ==
    /\ flush = Idle /\ ~RotationCompleted
    /\ i \in First(1) /\ Op[i] = "post"
    /\ queue[i].stamp = NoStamp => queue[i].state = "queued"
    /\ flush' = Take({i}, retry) /\ flush' # Idle
    /\ UNCHANGED <<server, signed, queue, copies, faults>>

At(pc) == flush.pc = pc

\* The envelope is signed and committed before anything is sent.
Prepare(skew) ==
    /\ At("prepare")
    /\ queue' = [queue EXCEPT ![flush.row] =
                   [@ EXCEPT !.state = "prepared", !.stamp = IF signed THEN now + skew ELSE 0]]
    /\ flush' = [flush EXCEPT !.pc = "attempt"]
    /\ UNCHANGED <<server, signed, copies, faults>>

\* The attempt is committed, then the request leaves.
Attempt ==
    /\ At("attempt")
    /\ queue' = [queue EXCEPT ![flush.row].state = "unresolved"]
    /\ flush' = [flush EXCEPT !.pc = "send"]
    /\ UNCHANGED <<server, signed, copies, faults>>

Send ==
    /\ At("send")
    /\ copies' = [copies EXCEPT ![flush.row] = IF @ < MaxCopies THEN @ + 1 ELSE @]
    /\ flush' = [flush EXCEPT !.pc = "wait"]
    /\ UNCHANGED <<server, signed, queue, faults>>

\* Mutant: the next row is sent behind one that failed.
OnwardPastBlocked(state) ==
    IF Op[flush.row] = "rotate" THEN Idle ELSE Take(flush.rows, flush.retry)

\* What follows a row: the rest of the batch, but for a row that was not
\* acknowledged and behind a rotation.
Onward(state) ==
    IF state # "acknowledged" \/ Op[flush.row] = "rotate" THEN Idle
    ELSE Take(flush.rows, flush.retry)

\* The acknowledgement is committed; one that is not valid is a Fail.
Acknowledge ==
    /\ At("answered") /\ flush.answer # 0
    /\ queue' = [queue EXCEPT ![flush.row].state = "acknowledged"]
    /\ flush' = Onward("acknowledged")
    /\ UNCHANGED <<server, signed, copies, faults>>

\* The except branch, from wherever it is entered: the row is blocked by a 4xx
\* or a local refusal, and else stays unresolved.
Fail(state) ==
    /\ \/ At("answered") /\ flush.answer = 0 /\ state = "blocked" /\ Goes(FALSE)
       \/ At("wait") /\ copies[flush.row] = 0 /\ state = "unresolved" /\ Goes(FALSE)
       \/ flush # Idle /\ Goes(TRUE)
    /\ queue' = [queue EXCEPT ![flush.row].state = state]
    /\ flush' = Onward(state)
    /\ UNCHANGED <<server, signed, copies>>

\* The process dies: the lock is free, a request may be on its way.
Crash ==
    /\ flush # Idle /\ Goes(TRUE)
    /\ flush' = Idle
    /\ UNCHANGED <<server, signed, queue, copies>>

-----------------------------------------------------------------------------
(* The network and the board.                                              *)

Envelope(i) == [id |-> i, op |-> Op[i], body |-> Body[i], stamp |-> queue[i].stamp,
                signed |-> signed]

Arrives(i) == copies[i] > 0 /\ copies' = [copies EXCEPT ![i] = @ - 1]

\* The answer reaches the client if it waits for one of this row.
Heard(i, answer) ==
    flush' = IF At("wait") /\ flush.row = i
             THEN [flush EXCEPT !.pc = "answered", !.answer = answer] ELSE flush

\* A copy of row i's request reaches the board; its answer may be lost.
Serve(i, source, lost) ==
    /\ Arrives(i)
    /\ executeCommand(Envelope(i), source)
    /\ Goes(lost)
    /\ IF lost THEN flush' = flush ELSE Heard(i, Answer(Envelope(i), source))
    /\ UNCHANGED <<signed, queue>>

\* The board refuses it for a reason of its own.
Refused(i) ==
    /\ Arrives(i)
    /\ Refuse(Envelope(i))
    /\ Goes(TRUE)
    /\ Heard(i, 0)
    /\ UNCHANGED <<signed, queue>>

Drop(i) ==
    /\ Arrives(i) /\ Goes(TRUE)
    /\ UNCHANGED <<server, signed, queue, flush>>

\* A post of the same key without the outbox, once.
Post(d, source) ==
    /\ signed
    /\ \A k \in 1..Len(events) : events[k].command.id # d.id
    /\ executeCommand([id |-> d.id, op |-> "post", body |-> d.body, stamp |-> now,
                       signed |-> TRUE], source)
    /\ events' # events
    /\ UNCHANGED client

Tick == /\ now < Horizon
        /\ now' = now + 1
        /\ UNCHANGED <<events, requests, successor, salts, client>>

Board == \/ expireSalt /\ salts' # salts /\ UNCHANGED client
         \/ Restart /\ Goes(TRUE) /\ UNCHANGED <<signed, queue, flush, copies>>
         \/ \E d \in Direct, source \in Networks : Post(d, source)
         \/ Tick

Step == \/ \E skew \in Skews : Prepare(skew)
        \/ Attempt \/ Send \/ Acknowledge
        \/ \E state \in {"blocked", "unresolved"} : Fail(state)

Network == \E i \in Rows :
             \/ \E source \in Networks, lost \in BOOLEAN : Serve(i, source, lost)
             \/ Refused(i) \/ Drop(i)

Next == \/ \E i \in Rows : enqueue(i)
        \/ \E n \in Limits, retry \in BOOLEAN : Flush(n, retry)
        \/ \E i \in Rows, retry \in BOOLEAN : deliver(i, retry)
        \/ Step \/ Crash \/ Network \/ Board

Spec == Init /\ [][Next]_vars

\* When a Flush that retries is enabled.
Flushable == /\ flush = Idle /\ ~RotationCompleted
             /\ \E n \in Limits : Take(First(n), TRUE) # Idle

\* Nothing flushes by itself: somebody does so again and again, also what is
\* blocked (weak fairness of that Flush, which ends its own enabledness).  A
\* request is then answered or times out, so that a flush ends.
LiveSpec == Spec /\ []<>~Flushable /\ []<>(flush = Idle)

-----------------------------------------------------------------------------

\* OUTBOX.md: "Later work does not silently overtake an uncertain earlier
\* mutation", and a rotation is a barrier: no row is signed, let alone sent,
\* before all earlier ones are acknowledged, and none behind a rotation.
NoOvertaking ==
    \A j \in Rows : queue[j].stamp # NoStamp =>
        \A i \in 1..(j - 1) : queue[i].state = "acknowledged" /\ Op[i] = "post"

\* Where and when the board executed row i's envelope.
Executed(i) == {k \in 1..Len(events) : events[k].command = Envelope(i)}

\* However often a request is sent, lost, repeated and refused, the board
\* executes it once.  An anonymous one it executes again only for a caller it
\* cannot know: long after, in another network, or after a restart or the next
\* day's grace.
AppliedOnce ==
    \A i \in Rows : \A k, m \in Executed(i) : k < m =>
        LET e == events[k]
            f == events[m]
        IN  /\ ~signed
            /\ Public(e.command) => f.at > e.at + CrossNetwork
            /\ \/ e.ns[2] # f.ns[2] \/ e.boot # f.boot
               \/ f.at >= Day * (e.at \div Day + 1) + Grace

\* store.go: "exact successful mutation retries may reuse their original
\* envelope", whatever came between: staleness, the key's rotation, a later
\* post that says the same.  The answer is the receipt of the execution.
OriginalReceipt ==
    [][\A i \in Rows, source \in Networks, lost \in BOOLEAN :
         signed /\ Executed(i) # {} /\ Serve(i, source, lost)
           => Answer(Envelope(i), source) \in Executed(i)]_vars

\* OUTBOX.md: "A process that dies after the server accepts but before saving
\* the response resumes by sending the original command again", also when its
\* signature is stale by then, or its key rotated: what was executed is in the
\* end acknowledged.
Delivered ==
    []<>(\A i \in Rows : Executed(i) # {} => queue[i].state = "acknowledged")
=============================================================================
