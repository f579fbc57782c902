---------------------------- MODULE ServiceCalls ----------------------------
(***************************************************************************)
(* The services engine (internal/services/engine.go): a remote or async    *)
(* call is admitted and reserved in its command's transaction, run outside *)
(* any transaction under a slot, and settled in a second one; an async     *)
(* call leaves a job, which the worker leases, runs and settles; the       *)
(* worker marks calls past their end unknown, while the ledger's sweeper   *)
(* charges their holds.  Each transaction is one step.  A crash, or Stop,  *)
(* loses every goroutine and keeps the tables.                             *)
(*                                                                         *)
(* A local call runs and is paid inside its command's transaction and      *)
(* meets none of this.  Time is counted in the units of the constants.     *)
(***************************************************************************)
EXTENDS Integers, FiniteSets

CONSTANTS Calls,            \* requests: retries of one are answered from it
          Signed,           \* those of an account rather than a network
          AsyncCalls,       \* those whose provider may answer with a job
          Account,          \* call -> its account
          MaxDuration, HoldGrace, LeaseGrace, SettleAttempts,
          RemoteSlots, AnonymousRemoteSlots,
          HoldsPerAccount, HoldsTotal, AnonymousHoldsTotal,
          MaxUnits,         \* the most a call may cost
          Horizon,          \* the last instant
          MaxCrashes        \* how often the process may stop

SettleMargin == HoldGrace \div 2
TTL == MaxDuration + HoldGrace

ASSUME ServiceCallsAssumption ==
    /\ IsFiniteSet(Calls)
    /\ Signed \subseteq Calls /\ AsyncCalls \subseteq Calls
    /\ DOMAIN Account = Calls
    /\ {MaxDuration, SettleMargin, MaxUnits} \subseteq Nat \ {0}
    /\ {HoldGrace, LeaseGrace, SettleAttempts, RemoteSlots,
        AnonymousRemoteSlots, HoldsPerAccount, HoldsTotal,
        AnonymousHoldsTotal, Horizon, MaxCrashes} \subseteq Nat

VARIABLES now, crashes,
          call,     \* service_calls: call -> its row
          hold,     \* the ledger's hold behind it
          job,      \* service_jobs: call -> its job
          task,     \* call -> the goroutine that finishes it
          worker    \* the worker's pass

vars == <<now, crashes, call, hold, job, task, worker>>

H == INSTANCE CallHolds WITH Ends <- 0..Horizon, callHold <- hold

NoCall == [state |-> "none", cost |-> 0, end |-> 0]
NoJob == [state |-> "none", due |-> 0, attempts |-> 0, leased |-> 0]

\* What a run gives: a result that costs used, or an error.
Failed == [ok |-> FALSE, used |-> 0]
Results == {Failed} \cup [ok : {TRUE}, used : 0..(MaxUnits + 1)]

\* A goroutine: where it is, which slots it has, until when it waits or runs,
\* the result it carries to settle, or the time a job it schedules is due.
Task(pc, has, until, res, due) ==
    [pc |-> pc, has |-> has, until |-> until, res |-> res, due |-> due]
NoTask == Task("none", {}, 0, Failed, 0)

\* The worker: the instant its pass began at, the jobs it has still to do,
\* and the run it is in.
Worker(pc, at, todo, of, until, res) ==
    [pc |-> pc, at |-> at, todo |-> todo, of |-> of, until |-> until, res |-> res]
Idle == Worker("idle", 0, {}, {}, 0, Failed)

Init == /\ now = 0
        /\ crashes = 0
        /\ call = [c \in Calls |-> NoCall]
        /\ H!Init
        /\ job = [c \in Calls |-> NoJob]
        /\ task = [c \in Calls |-> NoTask]
        /\ worker = Idle

-----------------------------------------------------------------------------
(* A call, and the goroutine that finishes it.                             *)

Running == {c \in Calls : call[c].state = "running"}
Holding == {c \in Calls : H!Held(c)}
Of(S, c) == {d \in S : Account[d] = Account[c]}

Call(c, max) ==
    /\ now + TTL + MaxDuration + LeaseGrace < Horizon
    /\ call[c].state = "none"
    /\ Cardinality(Of(Running, c)) < HoldsPerAccount
    /\ Cardinality(Running) < HoldsTotal
    /\ c \notin Signed => Cardinality(Running \ Signed) < AnonymousHoldsTotal
    /\ Cardinality(Of(Holding, c)) < HoldsPerAccount
    /\ Cardinality(Holding) < HoldsTotal
    /\ H!Reserve(c, max, now + TTL)
    /\ call' = [call EXCEPT ![c] =
                  [state |-> "running", cost |-> 0, end |-> now + TTL]]
    /\ task' = [task EXCEPT ![c] = Task(IF c \in Signed THEN "slot" ELSE "anon",
                                        {}, now + MaxDuration, Failed, 0)]
    /\ UNCHANGED <<now, crashes, job, worker>>

Having(slot) == {c \in Calls : slot \in task[c].has}

TakeAnonSlot(c) ==
    /\ task[c].pc = "anon"
    /\ Cardinality(Having("anon")) < AnonymousRemoteSlots
    /\ task' = [task EXCEPT ![c].pc = "slot", ![c].has = {"anon"}]
    /\ UNCHANGED <<now, crashes, call, hold, job, worker>>

\* Mutant: no time is set aside.
LeftWhole(c) == call[c].end - now

\* What is left of the hold for the run, once its settlement is set aside.
Left(c) == call[c].end - now - SettleMargin

Lesser(a, b) == IF a <= b THEN a ELSE b
Greater(a, b) == IF a >= b THEN a ELSE b

\* Mutant: the unsigned calls' slot is given back for the remote one.
TakeSlotReleases(c) ==
    LET has == {"slot"}
    IN  /\ task[c].pc = "slot"
        /\ Cardinality(Having("slot")) < RemoteSlots
        /\ task' = [task EXCEPT ![c] =
                      IF Left(c) < Greater(1, MaxDuration \div 4)
                      THEN Task("settle", has, 0, Failed, 0)
                      ELSE Task("run", has, now + Lesser(MaxDuration, Left(c)),
                                Failed, 0)]
        /\ UNCHANGED <<now, crashes, call, hold, job, worker>>

TakeSlot(c) ==
    LET has == task[c].has \cup {"slot"}
    IN  /\ task[c].pc = "slot"
        /\ Cardinality(Having("slot")) < RemoteSlots
        /\ task' = [task EXCEPT ![c] =
                      IF Left(c) < Greater(1, MaxDuration \div 4)
                      THEN Task("settle", has, 0, Failed, 0)
                      ELSE Task("run", has, now + Lesser(MaxDuration, Left(c)),
                                Failed, 0)]
        /\ UNCHANGED <<now, crashes, call, hold, job, worker>>

\* No slot came free in time: the call settles as busy.
WaitOver(c) ==
    /\ task[c].pc \in {"anon", "slot"}
    /\ now >= task[c].until
    /\ task' = [task EXCEPT ![c] = Task("settle", @.has, 0, Failed, 0)]
    /\ UNCHANGED <<now, crashes, call, hold, job, worker>>

RunEnds(c, res) ==
    /\ task[c].pc = "run"
    /\ task' = [task EXCEPT ![c] = Task("settle", @.has, 0, res, 0)]
    /\ UNCHANGED <<now, crashes, call, hold, job, worker>>

\* The run answers with a job: one due too late fails the call.
RunSchedules(c, at) ==
    LET due == Greater(at, now)
    IN  /\ task[c].pc = "run"
        /\ c \in AsyncCalls
        /\ task' = [task EXCEPT ![c] = IF due >= call[c].end
                                       THEN Task("settle", @.has, 0, Failed, 0)
                                       ELSE Task("schedule", @.has, 0, Failed, due)]
        /\ UNCHANGED <<now, crashes, call, hold, job, worker>>

\* ErrCrash: the run is given up, and nothing settles.
RunLost(c) ==
    /\ task[c].pc = "run"
    /\ task' = [task EXCEPT ![c] = NoTask]
    /\ UNCHANGED <<now, crashes, call, hold, job, worker>>

\* Mutant: the call's row is written as running again.
ScheduleReopens(c) ==
    /\ task[c].pc = "schedule"
    /\ job' = [job EXCEPT ![c] = [state |-> "scheduled", due |-> task[c].due,
                                  attempts |-> 0, leased |-> 0]]
    /\ call' = [call EXCEPT ![c].state = "running", ![c].cost = 0]
    /\ task' = [task EXCEPT ![c] = NoTask]
    /\ UNCHANGED <<now, crashes, hold, worker>>

Schedule(c) ==
    /\ task[c].pc = "schedule"
    /\ job' = [job EXCEPT ![c] = [state |-> "scheduled", due |-> task[c].due,
                                  attempts |-> 0, leased |-> 0]]
    /\ task' = [task EXCEPT ![c] = NoTask]
    /\ UNCHANGED <<now, crashes, call, hold, worker>>

-----------------------------------------------------------------------------
(* settle: the ledger's answer decides what the call is recorded as.       *)

Record(row, state, cost) == [row EXCEPT !.state = state, !.cost = cost]

\* A result outside the quote is a failure.
Good(c, res) == res.ok /\ res.used <= hold[c].max

\* Mutant: the ledger's refusal goes unnoticed.
SettleAnyway(c, res) ==
    \/ /\ call[c].state # "running"
       /\ UNCHANGED <<call, hold>>
    \/ /\ call[c].state = "running"
       /\ IF H!Held(c) /\ Good(c, res) THEN H!Commit(c, res.used)
          ELSE IF H!Held(c) THEN H!Refund(c) ELSE UNCHANGED hold
       /\ call' = [call EXCEPT ![c] = IF Good(c, res) THEN Record(@, "done", res.used)
                                                     ELSE Record(@, "failed", 0)]

settle(c, res) ==
    \/ /\ call[c].state # "running"
       /\ UNCHANGED <<call, hold>>
    \/ /\ call[c].state = "running"
       /\ Good(c, res)
       /\ H!Commit(c, res.used)
       /\ call' = [call EXCEPT ![c] = Record(@, "done", res.used)]
    \/ /\ call[c].state = "running"
       /\ ~Good(c, res)
       /\ H!Refund(c)
       /\ call' = [call EXCEPT ![c] = Record(@, "failed", 0)]
    \/ /\ call[c].state = "running"
       /\ ~H!Held(c)
       /\ call' = [call EXCEPT ![c] = Record(@, "unknown", hold[c].max)]
       /\ UNCHANGED hold

Settle(c) ==
    /\ task[c].pc = "settle"
    /\ settle(c, task[c].res)
    /\ task' = [task EXCEPT ![c] = NoTask]
    /\ UNCHANGED <<now, crashes, job, worker>>

-----------------------------------------------------------------------------
(* The worker: due jobs, in the order they are due, then reconcile.        *)

Due(c, at) == \/ job[c].state = "scheduled" /\ job[c].due <= at
              \/ job[c].state = "running" /\ job[c].leased < at

Work == /\ worker.pc = "idle"
        /\ worker' = Worker("pass", now, {c \in Calls : Due(c, now)}, {}, 0, Failed)
        /\ UNCHANGED <<now, crashes, call, hold, job, task>>

\* The job the pass comes to next.
IsNext(c) == /\ worker.pc = "pass"
             /\ c \in worker.todo
             /\ \A d \in worker.todo : job[c].due <= job[d].due

Skipped(c) == [worker EXCEPT !.todo = @ \ {c}]

\* Of a job that is over nothing but its state is read again.
Over(state) == [NoJob EXCEPT !.state = state]

\* workJob, for a job whose call is over.
DropJob(c) ==
    /\ IsNext(c)
    /\ call[c].state # "running"
    /\ job' = [job EXCEPT ![c] = Over("failed")]
    /\ worker' = Skipped(c)
    /\ UNCHANGED <<now, crashes, call, hold, task>>

\* workJob, for a job that is tried out, whose call is past its end, or whose
\* service has been switched off, which can be any.
GiveUpJob(c) ==
    /\ IsNext(c)
    /\ call[c].state = "running"
    /\ job' = [job EXCEPT ![c] = Over("failed")]
    /\ worker' = Skipped(c)
    /\ UNCHANGED <<now, crashes, call, hold, task>>

\* workJob's lease, and the run it starts.
LeaseJob(c) ==
    /\ IsNext(c)
    /\ call[c].state = "running"
    /\ job[c].attempts < SettleAttempts
    /\ worker.at < call[c].end
    /\ job' = [job EXCEPT ![c].state = "running",
                          ![c].attempts = @ + 1,
                          ![c].leased = worker.at + MaxDuration + LeaseGrace]
    /\ worker' = Worker("run", worker.at, worker.todo \ {c}, {c},
                        now + MaxDuration, Failed)
    /\ UNCHANGED <<now, crashes, call, hold, task>>

JobEnds(res) ==
    /\ worker.pc = "run"
    /\ worker' = [worker EXCEPT !.pc = "settle", !.until = 0, !.res = res]
    /\ UNCHANGED <<now, crashes, call, hold, job, task>>

\* ErrCrash again: the lease lapses and a later pass tries the job again.
JobLost ==
    /\ worker.pc = "run"
    /\ worker' = Worker("pass", worker.at, worker.todo, {}, 0, Failed)
    /\ UNCHANGED <<now, crashes, call, hold, job, task>>

\* Mutant: the job is recorded as its run ended, quote or no quote.
SettleJobAsRun(c) ==
    /\ worker.pc = "settle"
    /\ worker.of = {c}
    /\ settle(c, worker.res)
    /\ job' = [job EXCEPT ![c] =
                 IF call[c].state = "running"
                 THEN Over(IF worker.res.ok THEN "done" ELSE "failed")
                 ELSE @]
    /\ worker' = Worker("pass", worker.at, worker.todo, {}, 0, Failed)
    /\ UNCHANGED <<now, crashes, task>>

SettleJob(c) ==
    /\ worker.pc = "settle"
    /\ worker.of = {c}
    /\ settle(c, worker.res)
    /\ job' = [job EXCEPT ![c] =
                 IF call[c].state = "running"
                 THEN Over(IF Good(c, worker.res) THEN "done" ELSE "failed")
                 ELSE @]
    /\ worker' = Worker("pass", worker.at, worker.todo, {}, 0, Failed)
    /\ UNCHANGED <<now, crashes, task>>

\* Mutant: only calls that have a job are reconciled.
OverdueJobs == {c \in Running : call[c].end <= worker.at /\ job[c].state # "none"}

\* The calls past their end, as the pass began.
Overdue == {c \in Running : call[c].end <= worker.at}

reconcile ==
    /\ worker.pc = "pass"
    /\ worker.todo = {}
    /\ call' = [c \in Calls |-> IF c \in Overdue
                                THEN Record(call[c], "unknown", hold[c].max)
                                ELSE call[c]]
    /\ job' = [c \in Calls |-> IF c \in Overdue /\ job[c].state \in {"scheduled", "running"}
                               THEN Over("failed") ELSE job[c]]
    /\ worker' = Idle
    /\ UNCHANGED <<now, crashes, hold, task>>

-----------------------------------------------------------------------------
(* The ledger's sweeper, the process and the clock.                        *)

Sweep == /\ H!Due # {}
         /\ H!Lapse
         /\ UNCHANGED <<now, crashes, call, job, task, worker>>

Crash == /\ crashes < MaxCrashes
         /\ crashes' = crashes + 1
         /\ task' = [c \in Calls |-> NoTask]
         /\ worker' = Idle
         /\ UNCHANGED <<now, call, hold, job>>

\* A run ends by its deadline: its context is cancelled there.
Tick == /\ now < Horizon
        /\ \A c \in Calls : task[c].pc = "run" => now < task[c].until
        /\ worker.pc = "run" => now < worker.until
        /\ now' = now + 1
        /\ UNCHANGED <<crashes, call, hold, job, task, worker>>

\* A goroutine's steps, once its call is made.
Finish(c) == \/ TakeAnonSlot(c) \/ TakeSlot(c) \/ WaitOver(c)
             \/ \E res \in Results : RunEnds(c, res)
             \/ \E at \in 0..Horizon : RunSchedules(c, at)
             \/ RunLost(c)
             \/ Schedule(c)
             \/ Settle(c)

WorkStep == \/ Work
            \/ \E c \in Calls : DropJob(c) \/ GiveUpJob(c) \/ LeaseJob(c) \/ SettleJob(c)
            \/ \E res \in Results : JobEnds(res)
            \/ JobLost
            \/ reconcile

Next == \/ \E c \in Calls : \/ \E max \in 1..MaxUnits : Call(c, max)
                            \/ Finish(c)
        \/ WorkStep
        \/ Sweep
        \/ Crash
        \/ Tick

Spec == Init /\ [][Next]_vars

\* When Tick is enabled.
Ticking == /\ now < Horizon
           /\ \A c \in Calls : task[c].pc = "run" => now < task[c].until
           /\ worker.pc = "run" => now < worker.until

\* The worker passes and the sweeper sweeps every so often, a run ends by its
\* deadline, and the clock advances: WF_vars of WorkStep (always enabled; only
\* it and a crash move the worker), of Sweep (only it changes a hold and no
\* call), of each run's end and of Tick, spelled out.  Nothing else is asked of
\* the goroutines.
LiveSpec == /\ Spec
            /\ []<><<UNCHANGED crashes>>_worker
            /\ []<>(H!Due = {}) \/ []<><<UNCHANGED call>>_hold
            /\ \A c \in Calls : []<>(task[c].pc # "run")
            /\ []<>~Ticking \/ []<>(<<TRUE>>_now)

-----------------------------------------------------------------------------
TaskPcs == {"none", "anon", "slot", "run", "schedule", "settle"}

CallType == [state : {"none", "running", "done", "failed", "unknown"},
             cost : Nat, end : Nat]
JobType == [state : {"none", "scheduled", "running", "done", "failed"},
            due : Nat, attempts : 0..SettleAttempts, leased : Nat]
TaskType == [pc : TaskPcs, has : SUBSET {"anon", "slot"}, until : Nat,
             res : Results, due : Nat]
WorkerType == [pc : {"idle", "pass", "run", "settle"}, at : 0..Horizon,
               todo : SUBSET Calls, of : SUBSET Calls, until : Nat,
               res : Results]

\* The tables and goroutines have their shapes; a job is tried a bounded
\* number of times.
TypeOK ==
    /\ now \in 0..Horizon
    /\ crashes \in 0..MaxCrashes
    /\ call \in [Calls -> CallType]
    /\ hold \in [Calls -> H!HoldType]
    /\ job \in [Calls -> JobType]
    /\ task \in [Calls -> TaskType]
    /\ worker \in WorkerType

\* What a call is recorded to cost is what the ledger took or will take for
\* it, whichever of settle, the sweeper and reconcile came first: a done call
\* paid its cost, a failed one nothing, and an unknown one its maximum, at
\* once or at the next sweep.
CallMatchesHold ==
    \A c \in Calls :
        LET k == call[c]  h == hold[c]
        IN  CASE k.state = "none" -> h.state = "none"
              [] k.state = "running" -> h.state \in {"held", "expired"}
              [] k.state = "done" -> h.state = "committed" /\ k.cost = h.used
              [] k.state = "failed" -> h.state = "refunded" /\ k.cost = 0
              [] k.state = "unknown" -> /\ k.cost = h.max
                                        /\ \/ h.state = "expired"
                                           \/ h.state = "held" /\ h.end <= now

\* A call whose outcome is recorded keeps it: a late answer, a job run again
\* after a crash, or a reconcile with an old clock changes nothing.
OutcomeForGood ==
    [][\A c \in Calls : call[c].state \in {"done", "failed", "unknown"}
                          => call'[c] = call[c]]_vars

\* finish: "the run must end, and settle, before the hold expires".  While an
\* upstream is asked for a call, the call is running, its units are held, and
\* at least the settlement margin is left.
RunsUnderHold ==
    \A c \in Calls : task[c].pc = "run" =>
        /\ call[c].state = "running"
        /\ hold[c].state = "held"
        /\ now + SettleMargin <= hold[c].end

\* An async call's job ends as the call does, whichever of the worker, the
\* sweeper, reconcile and a late goroutine comes first: the job of a done call
\* is done and that of a failed one failed, and a job that is done has its call
\* done, or unknown where the sweeper had charged it already.
JobMatchesCall ==
    \A c \in Calls : job[c].state # "none" =>
        /\ call[c].state = "done" => job[c].state = "done"
        /\ call[c].state = "failed" => job[c].state = "failed"
        /\ job[c].state = "done" => call[c].state \in {"done", "unknown"}

\* The goroutines of signed calls that are past the wait for a slot.
SignedIn == {c \in Signed : task[c].pc \in {"run", "schedule", "settle"}}

\* AnonymousRemoteSlots: "so signed calls always find a slot".  A signed call
\* finds one unless signed calls have all that is not set aside for unsigned
\* ones: whoever is past its slot has given it back, and an unsigned call is
\* never in one without its own.
SignedFindSlot ==
    Cardinality(SignedIn) < RemoteSlots - AnonymousRemoteSlots
      => Cardinality(Having("slot")) < RemoteSlots

\* Calls that are admitted get an outcome, their units are charged or given
\* back, and their jobs end and are not tried for ever, whatever stops in
\* between: after the last call nothing stays open.
CallsEnd == []<>(\A c \in Calls : /\ call[c].state # "running"
                                  /\ hold[c].state # "held"
                                  /\ job[c].state \notin {"scheduled", "running"})
=============================================================================
