------------------------- MODULE ServiceCallsProofs -------------------------
(***************************************************************************)
(* For any calls, durations and bounds: what a call is recorded to cost is *)
(* what the ledger takes for it, its outcome never changes, an upstream is *)
(* asked only while the call's units are held, an async call's job ends as *)
(* the call does, and signed calls find the slots that are theirs.         *)
(*                                                                         *)
(* The invariants need more than they say.  An overdue call may be marked  *)
(* unknown, and its hold charged, in either order, while its goroutine is  *)
(* still waiting, so a waiting goroutine's call is running with its units  *)
(* held, or past its end (CallInv); and a pass works with an instant that  *)
(* is not ahead of the clock, on jobs that exist (WorkerInv).  That jobs   *)
(* end as calls do rests on whose turn it is: a goroutine's call is not    *)
(* over, and a pass has no job twice (JobInv).  The slots count goroutines *)
(* (SlotInv): an unsigned call has its anonymous slot before it asks for a *)
(* remote one, and a goroutine has a remote one only past the wait for it. *)
(***************************************************************************)
EXTENDS ServiceCalls, FiniteSetTheorems, TLAPS

\* The row and the hold of a call agree.
Matches(k, h, n) ==
    CASE k.state = "none" -> h.state = "none"
      [] k.state = "running" -> h.state \in {"held", "expired"}
      [] k.state = "done" -> h.state = "committed" /\ k.cost = h.used
      [] k.state = "failed" -> h.state = "refunded" /\ k.cost = 0
      [] k.state = "unknown" -> /\ k.cost = h.max
                                /\ \/ h.state = "expired"
                                   \/ h.state = "held" /\ h.end <= n

\* A goroutine that waits or runs has its call's units, or is late.
OnTime(k, h, t, n) ==
    /\ t.pc \in {"anon", "slot", "run"} =>
         \/ k.state = "running" /\ h.state = "held"
         \/ k.end <= n
    /\ t.pc = "run" => t.until + SettleMargin <= k.end /\ n <= t.until

\* A call's row, hold, job and goroutine at instant n.
Sound(k, h, j, t, n) ==
    /\ Matches(k, h, n)
    /\ h.end = k.end
    /\ k.state = "none" => t.pc = "none" /\ j.state = "none"
    /\ OnTime(k, h, t, n)
    /\ j.state # "none" => t.pc = "none"

CallInv(c) == Sound(call[c], hold[c], job[c], task[c], now)

WorkerInv ==
    /\ worker.at <= now
    /\ worker.pc \in {"idle", "pass"} => worker.of = {}
    /\ \A c \in worker.todo : job[c].state # "none"
    /\ \A c \in worker.of : job[c].state = "running" /\ job[c].leased > worker.at

IInv == TypeOK /\ (\A c \in Calls : CallInv(c)) /\ WorkerInv

-----------------------------------------------------------------------------
LEMMA Constants ==
    /\ MaxDuration \in Nat /\ MaxDuration >= 1
    /\ SettleMargin \in Nat /\ SettleMargin >= 1
    /\ HoldGrace \in Nat /\ LeaseGrace \in Nat /\ TTL \in Nat
    /\ HoldGrace >= SettleMargin
    /\ SettleAttempts \in Nat /\ Horizon \in Nat /\ MaxCrashes \in Nat
    /\ MaxUnits \in Nat
BY ServiceCallsAssumption DEF SettleMargin, TTL

\* The invariant gives the properties.
LEMMA Implies == IInv => CallMatchesHold /\ RunsUnderHold
<1> SUFFICES ASSUME IInv PROVE CallMatchesHold /\ RunsUnderHold
  BY Zenon
<1>1. CallMatchesHold
  BY ZenonT(30) DEF IInv, CallInv, Sound, Matches, CallMatchesHold
<1>2. RunsUnderHold
  <2> SUFFICES ASSUME NEW c \in Calls, task[c].pc = "run"
               PROVE  /\ call[c].state = "running"
                      /\ hold[c].state = "held"
                      /\ now + SettleMargin <= hold[c].end
    BY Zenon DEF RunsUnderHold
  <2>1. OnTime(call[c], hold[c], task[c], now) /\ hold[c].end = call[c].end
    BY Zenon DEF IInv, CallInv, Sound
  <2>2. now \in Nat /\ call[c].end \in Nat /\ task[c].until \in Nat
    BY Constants DEF IInv, TypeOK, CallType, TaskType
  <2> QED
    BY <2>1, <2>2, Constants DEF OnTime
<1> QED
  BY Zenon, <1>1, <1>2

LEMMA Initially == Init => IInv
<1> SUFFICES ASSUME Init PROVE IInv
  BY Zenon
<1>1. TypeOK
  BY Constants DEF Init, TypeOK, NoCall, NoJob, NoTask, Task, Idle, Worker,
     Results, Failed, TaskPcs, CallType, JobType, TaskType, WorkerType,
     H!Init, H!NoHold, H!HoldType
<1>2. ASSUME NEW c \in Calls PROVE CallInv(c)
  BY ZenonT(30) DEF Init, NoCall, NoJob, NoTask, Task, CallInv, Sound, Matches, OnTime,
     H!Init, H!NoHold
<1>3. WorkerInv
  BY DEF Init, WorkerInv, Idle, Worker
<1> QED
  BY Zenon, <1>1, <1>2, <1>3 DEF IInv

-----------------------------------------------------------------------------
\* Failing is a result, and what a result costs is a number.
LEMMA ResultTypes ==
    /\ Failed \in Results
    /\ \A res \in Results : res.used \in Nat
<1>1. Failed \in Results
  BY Zenon DEF Results
<1>2. ASSUME NEW res \in Results PROVE res.used \in Nat
  <2>1. CASE res = Failed
    BY Zenon, <2>1 DEF Failed
  <2>2. CASE res \in [ok : {TRUE}, used : 0..(MaxUnits + 1)]
    BY <2>2, Constants
  <2> QED
    BY ZenonT(30), <2>1, <2>2 DEF Results
<1> QED
  BY Zenon, <1>1, <1>2

\* One goroutine's step keeps everything typed, its new state being typed.
LEMMA TaskTypes ==
    ASSUME NEW pc \in TaskPcs, NEW has \in SUBSET {"anon", "slot"},
           NEW until \in Nat, NEW res \in Results, NEW due \in Nat
    PROVE  Task(pc, has, until, res, due) \in TaskType
BY Zenon DEF Task, TaskType

\* A settlement changes the call it settles only, keeps its row and its hold
\* in agreement, and leaves an outcome that is there alone.
LEMMA SettleKeeps ==
    ASSUME TypeOK, NEW c \in Calls, CallInv(c), NEW res \in Results, settle(c, res)
    PROVE  /\ call' \in [Calls -> CallType]
           /\ hold' \in [Calls -> H!HoldType]
           /\ Matches(call'[c], hold'[c], now)
           /\ hold'[c].end = call'[c].end
           /\ (call'[c].state = "none") = (call[c].state = "none")
           /\ call[c].state \in {"done", "failed", "unknown"} => call'[c] = call[c]
           /\ \A d \in Calls \ {c} : call'[d] = call[d] /\ hold'[d] = hold[d]
<1>1. call \in [Calls -> CallType] /\ hold \in [Calls -> H!HoldType]
  BY Zenon DEF TypeOK
<1>2. res.used \in Nat
  BY Zenon, ResultTypes
<1>3. Matches(call[c], hold[c], now) /\ hold[c].end = call[c].end
  BY Zenon DEF CallInv, Sound
<1>4. CASE call[c].state # "running" /\ UNCHANGED <<call, hold>>
  BY ZenonT(30), <1>1, <1>3, <1>4 DEF Matches
<1>5. CASE /\ call[c].state = "running"
           /\ Good(c, res)
           /\ H!Commit(c, res.used)
           /\ call' = [call EXCEPT ![c] = Record(@, "done", res.used)]
  <2> DEFINE k == Record(call[c], "done", res.used)
             h == H!Ended(hold[c], "committed", res.used)
  <2>1. call' = [call EXCEPT ![c] = k] /\ hold' = [hold EXCEPT ![c] = h]
    BY Zenon, <1>5 DEF H!Commit
  <2>2. /\ k \in CallType /\ k.state = "done" /\ k.cost = res.used /\ k.end = call[c].end
    BY ZenonT(30), <1>1, <1>2 DEF Record, CallType
  <2>3. /\ h \in H!HoldType /\ h.state = "committed" /\ h.used = res.used
        /\ h.end = hold[c].end
    BY ZenonT(30), <1>1, <1>2 DEF H!Ended, H!HoldType
  <2> HIDE DEF k, h
  <2>4. Matches(k, h, now)
    BY Zenon, <2>2, <2>3 DEF Matches
  <2> QED
    BY Zenon, <1>1, <1>3, <1>5, <2>1, <2>2, <2>3, <2>4
<1>6. CASE /\ call[c].state = "running"
           /\ ~Good(c, res)
           /\ H!Refund(c)
           /\ call' = [call EXCEPT ![c] = Record(@, "failed", 0)]
  <2> DEFINE k == Record(call[c], "failed", 0)
             h == H!Ended(hold[c], "refunded", 0)
  <2>1. call' = [call EXCEPT ![c] = k] /\ hold' = [hold EXCEPT ![c] = h]
    BY Zenon, <1>6 DEF H!Refund
  <2>2. k \in CallType /\ k.state = "failed" /\ k.cost = 0 /\ k.end = call[c].end
    BY ZenonT(30), <1>1 DEF Record, CallType
  <2>3. h \in H!HoldType /\ h.state = "refunded" /\ h.end = hold[c].end
    BY ZenonT(30), <1>1 DEF H!Ended, H!HoldType
  <2> HIDE DEF k, h
  <2>4. Matches(k, h, now)
    BY Zenon, <2>2, <2>3 DEF Matches
  <2> QED
    BY Zenon, <1>1, <1>3, <1>6, <2>1, <2>2, <2>3, <2>4
<1>7. CASE /\ call[c].state = "running"
           /\ ~H!Held(c)
           /\ call' = [call EXCEPT ![c] = Record(@, "unknown", hold[c].max)]
           /\ UNCHANGED hold
  <2> DEFINE k == Record(call[c], "unknown", hold[c].max)
  <2>1. call' = [call EXCEPT ![c] = k] /\ hold' = hold
    BY Zenon, <1>7
  <2>2. /\ k \in CallType /\ k.state = "unknown" /\ k.cost = hold[c].max
        /\ k.end = call[c].end
    BY ZenonT(30), <1>1 DEF Record, CallType, H!HoldType
  <2>3. hold[c].state = "expired"
    BY Zenon, <1>3, <1>7 DEF Matches, H!Held
  <2> HIDE DEF k
  <2>4. Matches(k, hold[c], now)
    BY Zenon, <2>2, <2>3 DEF Matches
  <2> QED
    BY Zenon, <1>1, <1>3, <1>7, <2>1, <2>2, <2>4
<1> QED
  BY Zenon, <1>4, <1>5, <1>6, <1>7 DEF settle

-----------------------------------------------------------------------------
(* A step of a goroutine that touches no table.                            *)

LEMMA TaskStep ==
    ASSUME IInv, NEW c \in Calls, task[c].pc # "none", NEW t \in TaskType,
           task' = [task EXCEPT ![c] = t], OnTime(call[c], hold[c], t, now),
           UNCHANGED <<now, crashes, call, hold, job, worker>>
    PROVE  IInv'
<1>1. TypeOK'
  BY Zenon DEF IInv, TypeOK
<1>2. ASSUME NEW d \in Calls PROVE CallInv(d)'
  <2>1. CallInv(d) /\ CallInv(c)
    BY Zenon DEF IInv
  <2>2. CASE d = c
    BY ZenonT(30), <2>1, <2>2 DEF IInv, TypeOK, CallInv, Sound, Matches, OnTime
  <2>3. CASE d # c
    <3>1. task'[d] = task[d]
      BY Zenon, <2>3 DEF IInv, TypeOK
    <3> QED
      BY Zenon, <2>1, <3>1 DEF CallInv
  <2> QED
    BY Zenon, <2>2, <2>3
<1>3. WorkerInv'
  BY Zenon DEF IInv, WorkerInv
<1> QED
  BY Zenon, <1>1, <1>2, <1>3 DEF IInv

LEMMA GoroutineSteps ==
    ASSUME IInv, NEW c \in Calls,
           \/ TakeAnonSlot(c) \/ TakeSlot(c) \/ WaitOver(c) \/ RunLost(c)
           \/ \E res \in Results : RunEnds(c, res)
           \/ \E at \in 0..Horizon : RunSchedules(c, at)
    PROVE  IInv'
<1> DEFINE t == task'[c]
<1>1. /\ task \in [Calls -> TaskType] /\ now \in Nat
      /\ call[c].end \in Nat /\ call[c].end - now \in Int
  BY Constants DEF IInv, TypeOK, CallType
<1>2. OnTime(call[c], hold[c], task[c], now)
  BY Zenon DEF IInv, CallInv, Sound
<1>3. CASE TakeAnonSlot(c)
  <2>1. t \in TaskType /\ task' = [task EXCEPT ![c] = t]
    BY ZenonT(30), <1>1, <1>3 DEF TakeAnonSlot, TaskType, TaskPcs
  <2>2. OnTime(call[c], hold[c], t, now)
    BY Zenon, <1>1, <1>2, <1>3 DEF TakeAnonSlot, OnTime, TaskType
  <2> QED
    BY ZenonT(30), <1>3, <2>1, <2>2, TaskStep DEF TakeAnonSlot
<1>4. CASE TakeSlot(c)
  <2> DEFINE has == task[c].has \cup {"slot"}
  <2>1. task[c].has \in SUBSET {"anon", "slot"}
    BY Zenon, <1>1 DEF TaskType
  <2>2. CASE Left(c) < Greater(1, MaxDuration \div 4)
    <3>1. task' = [task EXCEPT ![c] = Task("settle", has, 0, Failed, 0)]
      BY Zenon, <1>4, <2>2 DEF TakeSlot
    <3>2. Task("settle", has, 0, Failed, 0) \in TaskType
      BY Zenon, <2>1, ResultTypes, TaskTypes DEF TaskPcs
    <3>3. OnTime(call[c], hold[c], Task("settle", has, 0, Failed, 0), now)
      BY Zenon DEF OnTime, Task
    <3> QED
      BY ZenonT(30), <1>4, <3>1, <3>2, <3>3, TaskStep DEF TakeSlot
  <2>3. CASE ~(Left(c) < Greater(1, MaxDuration \div 4))
    <3> DEFINE until == now + Lesser(MaxDuration, Left(c))
    <3>1. task' = [task EXCEPT ![c] = Task("run", has, until, Failed, 0)]
      BY Zenon, <1>4, <2>3 DEF TakeSlot
    <3>2. Left(c) \in Nat /\ Left(c) >= 1
      BY <1>1, <2>3, Constants DEF Left, Greater
    <3>3. /\ until \in Nat /\ now <= until
          /\ until + SettleMargin <= call[c].end /\ ~(call[c].end <= now)
      BY <1>1, <3>2, Constants DEF Left, Lesser
    <3>4. Task("run", has, until, Failed, 0) \in TaskType
      BY Zenon, <2>1, <3>3, ResultTypes, TaskTypes DEF TaskPcs
    <3>5. task[c].pc = "slot"
      BY Zenon, <1>4 DEF TakeSlot
    <3>6. OnTime(call[c], hold[c], Task("run", has, until, Failed, 0), now)
      BY Zenon, <1>2, <3>3, <3>5 DEF OnTime, Task
    <3> QED
      BY ZenonT(30), <1>4, <3>1, <3>4, <3>6, TaskStep DEF TakeSlot
  <2> QED
    BY Zenon, <2>2, <2>3
<1>9. ASSUME NEW pc \in {"settle", "schedule"}, NEW res \in Results, NEW due \in Nat
      PROVE  /\ Task(pc, task[c].has, 0, res, due) \in TaskType
             /\ OnTime(call[c], hold[c], Task(pc, task[c].has, 0, res, due), now)
  <2>1. task[c].has \in SUBSET {"anon", "slot"} /\ pc \in TaskPcs
    BY Zenon, <1>1 DEF TaskType, TaskPcs
  <2> QED
    BY ZenonT(30), <2>1, TaskTypes DEF OnTime, Task
<1>5. CASE WaitOver(c)
  <2> DEFINE w == Task("settle", task[c].has, 0, Failed, 0)
  <2>1. w \in TaskType /\ OnTime(call[c], hold[c], w, now)
    BY Zenon, <1>9, ResultTypes
  <2>2. task' = [task EXCEPT ![c] = w]
    BY Zenon, <1>5 DEF WaitOver
  <2> QED
    BY ZenonT(30), <1>5, <2>1, <2>2, TaskStep DEF WaitOver
<1>6. CASE RunLost(c)
  <2>1. NoTask \in TaskType /\ OnTime(call[c], hold[c], NoTask, now)
    BY ZenonT(30), ResultTypes, TaskTypes DEF NoTask, TaskPcs, OnTime, Task
  <2> QED
    BY ZenonT(30), <1>6, <2>1, TaskStep DEF RunLost
<1>7. ASSUME NEW res \in Results, RunEnds(c, res) PROVE IInv'
  <2> DEFINE w == Task("settle", task[c].has, 0, res, 0)
  <2>1. w \in TaskType /\ OnTime(call[c], hold[c], w, now)
    BY Zenon, <1>9
  <2>2. task' = [task EXCEPT ![c] = w]
    BY Zenon, <1>7 DEF RunEnds
  <2> QED
    BY ZenonT(30), <1>7, <2>1, <2>2, TaskStep DEF RunEnds
<1>8. ASSUME NEW at \in 0..Horizon, RunSchedules(c, at) PROVE IInv'
  <2> DEFINE due == Greater(at, now)
             w == IF due >= call[c].end THEN Task("settle", task[c].has, 0, Failed, 0)
                                        ELSE Task("schedule", task[c].has, 0, Failed, due)
  <2>1. due \in Nat
    BY <1>1, <1>8, Constants DEF Greater
  <2>2. task' = [task EXCEPT ![c] = w]
    BY Zenon, <1>8 DEF RunSchedules
  <2>3. w \in TaskType /\ OnTime(call[c], hold[c], w, now)
    BY Zenon, <1>9, <2>1, ResultTypes
  <2> HIDE DEF w
  <2> QED
    BY ZenonT(30), <1>8, <2>2, <2>3, TaskStep DEF RunSchedules
<1> QED
  BY Zenon, <1>3, <1>4, <1>5, <1>6, <1>7, <1>8

-----------------------------------------------------------------------------
(* The steps that write the tables.                                        *)

LEMMA CallStep ==
    ASSUME IInv, NEW c \in Calls, NEW max \in 1..MaxUnits, Call(c, max)
    PROVE  IInv'
<1> DEFINE pc == IF c \in Signed THEN "slot" ELSE "anon"
           t == Task(pc, {}, now + MaxDuration, Failed, 0)
           k == [state |-> "running", cost |-> 0, end |-> now + TTL]
           h == [state |-> "held", max |-> max, used |-> 0, end |-> now + TTL]
<1>1. now \in Nat /\ max \in Nat /\ now + TTL \in Nat /\ now + MaxDuration \in Nat
  BY Constants DEF IInv, TypeOK
<1>2. /\ call' = [call EXCEPT ![c] = k] /\ hold' = [hold EXCEPT ![c] = h]
      /\ task' = [task EXCEPT ![c] = t] /\ UNCHANGED <<now, crashes, job, worker>>
  BY Zenon DEF Call, H!Reserve
<1>3. k \in CallType /\ h \in H!HoldType /\ t \in TaskType
  BY Zenon, <1>1, ResultTypes, TaskTypes DEF CallType, H!HoldType, TaskPcs
<1>4. TypeOK'
  BY Zenon, <1>2, <1>3 DEF IInv, TypeOK
<1>5. ASSUME NEW d \in Calls PROVE CallInv(d)'
  <2>1. CallInv(d)
    BY Zenon DEF IInv
  <2>2. CASE d = c
    <3>1. job[c].state = "none"
      BY Zenon, <2>1, <2>2 DEF Call, CallInv, Sound
    <3>2. call'[c] = k /\ hold'[c] = h /\ task'[c] = t
      BY Zenon, <1>2 DEF IInv, TypeOK
    <3>3. Sound(k, h, job[c], t, now)
      BY Zenon, <3>1 DEF Sound, Matches, OnTime, Task
    <3> QED
      BY Zenon, <1>2, <2>2, <3>2, <3>3 DEF CallInv
  <2>3. CASE d # c
    <3>1. call'[d] = call[d] /\ hold'[d] = hold[d] /\ task'[d] = task[d]
      BY Zenon, <1>2, <2>3 DEF IInv, TypeOK
    <3> QED
      BY Zenon, <1>2, <2>1, <3>1 DEF CallInv
  <2> QED
    BY Zenon, <2>2, <2>3
<1>6. WorkerInv'
  BY Zenon, <1>2 DEF IInv, WorkerInv
<1> QED
  BY Zenon, <1>4, <1>5, <1>6 DEF IInv

LEMMA ScheduleStep ==
    ASSUME IInv, NEW c \in Calls, Schedule(c)
    PROVE  IInv'
<1> DEFINE j == [state |-> "scheduled", due |-> task[c].due,
                 attempts |-> 0, leased |-> 0]
<1>1. /\ job' = [job EXCEPT ![c] = j] /\ task' = [task EXCEPT ![c] = NoTask]
      /\ UNCHANGED <<now, crashes, call, hold, worker>>
  BY Zenon DEF Schedule
<1>2. j \in JobType /\ NoTask \in TaskType
  <2>1. task[c].due \in Nat
    BY Zenon DEF IInv, TypeOK, TaskType
  <2>2. j \in JobType
    BY <2>1, Constants DEF JobType
  <2>3. NoTask \in TaskType
    BY Zenon, ResultTypes, TaskTypes DEF NoTask, TaskPcs
  <2> QED
    BY Zenon, <2>2, <2>3
<1>3. TypeOK'
  BY Zenon, <1>1, <1>2 DEF IInv, TypeOK
<1>4. CallInv(c) /\ job[c].state = "none" /\ call[c].state # "none"
  BY Zenon DEF IInv, CallInv, Sound, Schedule
<1>5. ASSUME NEW d \in Calls PROVE CallInv(d)'
  <2>1. CallInv(d)
    BY Zenon DEF IInv
  <2>2. CASE d = c
    <3>1. job'[c] = j /\ task'[c] = NoTask
      BY Zenon, <1>1 DEF IInv, TypeOK
    <3>2. Sound(call[c], hold[c], j, NoTask, now)
      BY Zenon, <1>4 DEF CallInv, Sound, OnTime, NoTask, Task
    <3> QED
      BY Zenon, <1>1, <2>2, <3>1, <3>2 DEF CallInv
  <2>3. CASE d # c
    <3>1. job'[d] = job[d] /\ task'[d] = task[d]
      BY Zenon, <1>1, <2>3 DEF IInv, TypeOK
    <3> QED
      BY Zenon, <1>1, <2>1, <3>1 DEF CallInv
  <2> QED
    BY Zenon, <2>2, <2>3
<1>6. WorkerInv'
  BY <1>1, <1>4 DEF IInv, TypeOK, WorkerInv
<1> QED
  BY Zenon, <1>3, <1>5, <1>6 DEF IInv

LEMMA SettleStep ==
    ASSUME IInv, NEW c \in Calls, Settle(c)
    PROVE  IInv'
<1>1. /\ settle(c, task[c].res) /\ task' = [task EXCEPT ![c] = NoTask]
      /\ UNCHANGED <<now, crashes, job, worker>>
  BY Zenon DEF Settle
<1>2. task[c].res \in Results /\ NoTask \in TaskType
  BY ZenonT(30), ResultTypes, TaskTypes DEF IInv, TypeOK, TaskType, NoTask, TaskPcs
<1>3. /\ TypeOK /\ CallInv(c) /\ call[c].state # "none"
  BY Zenon DEF IInv, CallInv, Sound, Settle
<1>4. /\ call' \in [Calls -> CallType]
      /\ hold' \in [Calls -> H!HoldType]
      /\ Matches(call'[c], hold'[c], now)
      /\ hold'[c].end = call'[c].end
      /\ call'[c].state # "none"
      /\ \A d \in Calls \ {c} : call'[d] = call[d] /\ hold'[d] = hold[d]
  BY Zenon, <1>1, <1>2, <1>3, SettleKeeps
<1>5. TypeOK'
  BY ZenonT(30), <1>1, <1>2, <1>4 DEF IInv, TypeOK
<1>6. ASSUME NEW d \in Calls PROVE CallInv(d)'
  <2>1. CallInv(d)
    BY Zenon DEF IInv
  <2>2. CASE d = c
    <3>1. task'[c] = NoTask
      BY Zenon, <1>1 DEF IInv, TypeOK
    <3>2. Sound(call'[c], hold'[c], job[c], NoTask, now)
      BY Zenon, <1>4 DEF Sound, OnTime, NoTask, Task
    <3> QED
      BY Zenon, <1>1, <2>2, <3>1, <3>2 DEF CallInv
  <2>3. CASE d # c
    <3>1. task'[d] = task[d] /\ call'[d] = call[d] /\ hold'[d] = hold[d]
      BY Zenon, <1>1, <1>4, <2>3 DEF IInv, TypeOK
    <3> QED
      BY Zenon, <1>1, <2>1, <3>1 DEF CallInv
  <2> QED
    BY Zenon, <2>2, <2>3
<1>7. WorkerInv'
  BY Zenon, <1>1 DEF IInv, WorkerInv
<1> QED
  BY Zenon, <1>5, <1>6, <1>7 DEF IInv

-----------------------------------------------------------------------------
(* The worker.  A pass writes jobs that exist, until it settles one.       *)

LEMMA PassStep ==
    ASSUME IInv, UNCHANGED <<now, crashes, call, hold, task>>,
           job' \in [Calls -> JobType],
           \A d \in Calls : (job'[d].state = "none") = (job[d].state = "none"),
           worker' \in WorkerType, WorkerInv'
    PROVE  IInv'
<1>1. TypeOK'
  BY Zenon DEF IInv, TypeOK
<1>2. ASSUME NEW d \in Calls PROVE CallInv(d)'
  BY Zenon DEF IInv, CallInv, Sound
<1> QED
  BY Zenon, <1>1, <1>2 DEF IInv

\* What the pass writes of one job's row.
LEMMA JobWritten ==
    ASSUME IInv, NEW c \in Calls, NEW j \in JobType, job' = [job EXCEPT ![c] = j],
           job[c].state # "none", j.state # "none"
    PROVE  /\ job' \in [Calls -> JobType]
           /\ \A d \in Calls : (job'[d].state = "none") = (job[d].state = "none")
           /\ job'[c] = j
           /\ \A d \in Calls \ {c} : job'[d] = job[d]
BY Zenon DEF IInv, TypeOK

\* A pass that has skipped a job it has written is as sound as before.
LEMMA SkipStep ==
    ASSUME IInv, NEW c \in Calls, IsNext(c), NEW j \in JobType,
           job' = [job EXCEPT ![c] = j], j.state # "none",
           worker' = Skipped(c), UNCHANGED <<now, crashes, call, hold, task>>
    PROVE  IInv'
<1>1. /\ worker.pc = "pass" /\ worker.of = {} /\ job[c].state # "none"
      /\ worker \in WorkerType /\ worker.at <= now
  BY Zenon DEF IInv, TypeOK, WorkerInv, IsNext
<1>2. /\ job' \in [Calls -> JobType]
      /\ \A d \in Calls : (job'[d].state = "none") = (job[d].state = "none")
  BY ZenonT(30), <1>1, JobWritten
<1>3. /\ worker' \in WorkerType /\ worker'.of = {} /\ worker'.at = worker.at
      /\ worker'.todo \subseteq worker.todo
  BY Zenon, <1>1 DEF Skipped, WorkerType
<1>4. WorkerInv'
  BY Zenon, <1>1, <1>2, <1>3 DEF IInv, TypeOK, WorkerType, WorkerInv
<1> QED
  BY Zenon, <1>2, <1>3, <1>4, PassStep

LEMMA OverTypes == \A state \in {"done", "failed"} : /\ Over(state) \in JobType
                                                     /\ Over(state).state = state
                                                     /\ Over(state).state # "none"
BY Constants DEF Over, NoJob, JobType

LEMMA WorkSteps ==
    ASSUME IInv,
           \/ Work \/ JobLost
           \/ \E res \in Results : JobEnds(res)
           \/ \E c \in Calls : DropJob(c) \/ GiveUpJob(c) \/ LeaseJob(c)
    PROVE  IInv'
<1>1. /\ worker \in WorkerType /\ job \in [Calls -> JobType] /\ now \in 0..Horizon
      /\ now \in Nat /\ worker.at \in Nat /\ worker.at <= now
  BY Constants DEF IInv, TypeOK, WorkerType, WorkerInv
<1>2. CASE Work
  <2> DEFINE todo == {c \in Calls : Due(c, now)}
  <2>1. worker' = Worker("pass", now, todo, {}, 0, Failed)
    BY Zenon, <1>2 DEF Work
  <2>2. \A c \in todo : job[c].state # "none"
    BY Zenon DEF Due
  <2>3. todo \subseteq Calls
    BY Zenon
  <2> HIDE DEF todo
  <2>4. worker' \in WorkerType
    BY Zenon, <1>1, <2>1, <2>3, ResultTypes DEF Worker, WorkerType
  <2>5. WorkerInv'
    BY <1>1, <1>2, <2>1, <2>2 DEF Worker, WorkerInv, Work
  <2> QED
    BY Zenon, <1>1, <1>2, <2>4, <2>5, PassStep DEF Work
<1>3. CASE JobLost
  <2>1. worker' \in WorkerType /\ WorkerInv'
    BY ZenonT(30), <1>1, <1>3, ResultTypes DEF IInv, WorkerInv, JobLost, Worker, WorkerType
  <2> QED
    BY Zenon, <1>1, <1>3, <2>1, PassStep DEF JobLost
<1>4. ASSUME NEW res \in Results, JobEnds(res) PROVE IInv'
  <2>1. worker' \in WorkerType /\ WorkerInv'
    BY ZenonT(30), <1>1, <1>4 DEF IInv, WorkerInv, JobEnds, WorkerType
  <2> QED
    BY ZenonT(30), <1>1, <1>4, <2>1, PassStep DEF JobEnds
<1>5. ASSUME NEW c \in Calls, DropJob(c) PROVE IInv'
  <2> DEFINE j == Over("failed")
  <2>1. j \in JobType /\ j.state # "none" /\ job' = [job EXCEPT ![c] = j]
    BY Zenon, <1>5, OverTypes DEF DropJob
  <2> QED
    BY ZenonT(30), <1>5, <2>1, SkipStep DEF DropJob
<1>6. ASSUME NEW c \in Calls, GiveUpJob(c) PROVE IInv'
  <2> DEFINE j == Over("failed")
  <2>1. j \in JobType /\ j.state # "none" /\ job' = [job EXCEPT ![c] = j]
    BY Zenon, <1>6, OverTypes DEF GiveUpJob
  <2> QED
    BY ZenonT(30), <1>6, <2>1, SkipStep DEF GiveUpJob
<1>7. ASSUME NEW c \in Calls, LeaseJob(c) PROVE IInv'
  <2> DEFINE leased == worker.at + MaxDuration + LeaseGrace
             until == now + MaxDuration
             j == [job[c] EXCEPT !.state = "running", !.attempts = @ + 1,
                                 !.leased = leased]
  <2>1. leased \in Nat /\ leased > worker.at /\ until \in Nat
    BY SMTT(30), <1>1, Constants
  <2>2. job[c].attempts + 1 \in 0..SettleAttempts
    <3>1. job[c].attempts \in 0..SettleAttempts
      BY Zenon, <1>1 DEF JobType
    <3>2. job[c].attempts < SettleAttempts
      BY ZenonT(30), <1>7 DEF LeaseJob
    <3> QED
      BY <3>1, <3>2, Constants
  <2>3. /\ job' = [job EXCEPT ![c] = j]
        /\ worker' = Worker("run", worker.at, worker.todo \ {c}, {c}, until, Failed)
    BY ZenonT(30), <1>1, <1>7 DEF LeaseJob
  <2> HIDE DEF leased, until
  <2>4. j \in JobType /\ j.state = "running" /\ j.leased = leased
    BY ZenonT(30), <1>1, <2>1, <2>2 DEF JobType
  <2> HIDE DEF j
  <2>5. job[c].state # "none" /\ worker.at \in 0..Horizon /\ worker.todo \subseteq Calls
    BY ZenonT(30), <1>1, <1>7 DEF IInv, WorkerInv, WorkerType, LeaseJob, IsNext
  <2>6. /\ job' \in [Calls -> JobType] /\ job'[c] = j
        /\ \A d \in Calls : (job'[d].state = "none") = (job[d].state = "none")
    BY ZenonT(30), <2>3, <2>4, <2>5, JobWritten
  <2>7. worker' \in WorkerType
    BY Zenon, <2>1, <2>3, <2>5, ResultTypes DEF Worker, WorkerType
  <2>8. WorkerInv'
    <3>1. /\ worker'.at = worker.at /\ worker'.todo = worker.todo \ {c}
          /\ worker'.of = {c} /\ worker'.pc = "run"
      BY Zenon, <2>3 DEF Worker
    <3>2. worker'.at <= now'
      BY ZenonT(30), <1>1, <1>7, <3>1 DEF LeaseJob
    <3>3. \A d \in worker'.todo : job'[d].state # "none"
      BY Zenon, <2>5, <2>6, <3>1 DEF IInv, WorkerInv
    <3>4. \A d \in worker'.of : job'[d].state = "running" /\ job'[d].leased > worker'.at
      BY Zenon, <2>1, <2>4, <2>6, <3>1
    <3> QED
      BY Zenon, <3>1, <3>2, <3>3, <3>4 DEF WorkerInv
  <2> QED
    BY ZenonT(30), <1>7, <2>6, <2>7, <2>8, PassStep DEF LeaseJob
<1> QED
  BY Zenon, <1>2, <1>3, <1>4, <1>5, <1>6, <1>7
LEMMA SettleJobStep ==
    ASSUME IInv, NEW c \in Calls, SettleJob(c)
    PROVE  IInv'
<1> DEFINE state == IF Good(c, worker.res) THEN "done" ELSE "failed"
           j == IF call[c].state = "running" THEN Over(state) ELSE job[c]
<1>1. /\ worker \in WorkerType /\ worker.res \in Results /\ job \in [Calls -> JobType]
      /\ TypeOK /\ CallInv(c)
  BY Zenon DEF IInv, TypeOK, WorkerType
<1>2. job[c].state = "running"
  BY Zenon DEF IInv, WorkerInv, SettleJob
<1>3. task[c].pc = "none" /\ call[c].state # "none"
  BY Zenon, <1>1, <1>2 DEF CallInv, Sound
<1>4. /\ settle(c, worker.res) /\ job' = [job EXCEPT ![c] = j]
      /\ worker' = Worker("pass", worker.at, worker.todo, {}, 0, Failed)
      /\ UNCHANGED <<now, crashes, task>>
  BY Zenon DEF SettleJob
<1>5. /\ call' \in [Calls -> CallType]
      /\ hold' \in [Calls -> H!HoldType]
      /\ Matches(call'[c], hold'[c], now)
      /\ hold'[c].end = call'[c].end
      /\ call'[c].state # "none"
      /\ \A d \in Calls \ {c} : call'[d] = call[d] /\ hold'[d] = hold[d]
  BY Zenon, <1>1, <1>3, <1>4, SettleKeeps
<1>6. j \in JobType /\ j.state # "none"
  <2>1. state \in {"done", "failed"}
    BY Zenon
  <2> HIDE DEF state
  <2> QED
    BY ZenonT(30), <1>1, <1>2, <2>1, OverTypes
<1> HIDE DEF j
<1>7. /\ job' \in [Calls -> JobType] /\ job'[c] = j
      /\ \A d \in Calls : (job'[d].state = "none") = (job[d].state = "none")
      /\ \A d \in Calls \ {c} : job'[d] = job[d]
  BY ZenonT(30), <1>2, <1>4, <1>6, JobWritten
<1>8. /\ worker' \in WorkerType /\ worker'.of = {}
      /\ worker'.at = worker.at /\ worker'.todo = worker.todo
  BY ZenonT(30), <1>1, <1>4, ResultTypes DEF Worker, WorkerType
<1>9. TypeOK'
  BY Zenon, <1>4, <1>5, <1>7, <1>8 DEF IInv, TypeOK
<1>10. ASSUME NEW d \in Calls PROVE CallInv(d)'
  <2>1. CallInv(d)
    BY Zenon DEF IInv
  <2>2. CASE d = c
    <3>1. Sound(call'[c], hold'[c], j, task[c], now)
      BY Zenon, <1>3, <1>5 DEF Sound, OnTime
    <3> QED
      BY Zenon, <1>4, <1>7, <2>2, <3>1 DEF CallInv
  <2>3. CASE d # c
    <3>1. call'[d] = call[d] /\ hold'[d] = hold[d] /\ job'[d] = job[d]
      BY Zenon, <1>5, <1>7, <2>3
    <3> QED
      BY Zenon, <1>4, <2>1, <3>1 DEF CallInv
  <2> QED
    BY Zenon, <2>2, <2>3
<1>11. WorkerInv'
  <2>1. worker.todo \subseteq Calls
    BY Zenon, <1>1 DEF WorkerType
  <2> QED
    BY Zenon, <1>4, <1>7, <1>8, <2>1 DEF IInv, WorkerInv
<1> QED
  BY Zenon, <1>9, <1>10, <1>11 DEF IInv

LEMMA IdleSound == Idle \in WorkerType /\ Idle.at = 0 /\ Idle.todo = {} /\ Idle.of = {}
BY Constants, ResultTypes DEF Idle, Worker, WorkerType

LEMMA ReconcileStep ==
    ASSUME IInv, reconcile
    PROVE  IInv'
<1> DEFINE marked(d) == IF d \in Overdue THEN Record(call[d], "unknown", hold[d].max)
                                         ELSE call[d]
           closed(d) == IF d \in Overdue /\ job[d].state \in {"scheduled", "running"}
                        THEN Over("failed") ELSE job[d]
<1>1. /\ call' = [d \in Calls |-> marked(d)] /\ job' = [d \in Calls |-> closed(d)]
      /\ worker' = Idle /\ UNCHANGED <<now, crashes, hold, task>>
  BY Zenon DEF reconcile
<1>2. now \in Nat /\ worker.at \in Nat /\ worker.at <= now
  BY SMTT(30), Constants DEF IInv, TypeOK, WorkerType, WorkerInv
<1>3. ASSUME NEW d \in Calls
      PROVE  /\ marked(d) \in CallType /\ closed(d) \in JobType
             /\ Sound(marked(d), hold[d], closed(d), task[d], now)
  <2>1. /\ call[d] \in CallType /\ hold[d] \in H!HoldType /\ job[d] \in JobType
        /\ call[d].end \in Nat /\ hold[d].max \in Nat
    BY Zenon DEF IInv, TypeOK, CallType, H!HoldType
  <2>2. Sound(call[d], hold[d], job[d], task[d], now)
    BY Zenon DEF IInv, CallInv
  <2>3. closed(d) \in JobType /\ (closed(d).state = "none") = (job[d].state = "none")
    BY ZenonT(30), <2>1, OverTypes
  <2>4. CASE d \in Overdue
    <3>1. call[d].state = "running" /\ call[d].end <= now
      BY <1>2, <2>1, <2>4 DEF Overdue, Running
    <3>2. /\ marked(d) \in CallType /\ marked(d).state = "unknown"
          /\ marked(d).cost = hold[d].max /\ marked(d).end = call[d].end
      BY ZenonT(30), <2>1, <2>4 DEF Record, CallType
    <3> HIDE DEF marked, closed
    <3>3. Matches(marked(d), hold[d], now)
      BY Zenon, <2>2, <3>1, <3>2 DEF Sound, Matches
    <3>4. OnTime(marked(d), hold[d], task[d], now)
      BY Zenon, <2>2, <3>1, <3>2 DEF Sound, OnTime
    <3> QED
      BY Zenon, <2>2, <2>3, <3>2, <3>3, <3>4 DEF Sound
  <2>5. CASE d \notin Overdue
    <3>1. marked(d) = call[d]
      BY Zenon, <2>5
    <3> HIDE DEF marked, closed
    <3> QED
      BY Zenon, <2>1, <2>2, <2>3, <3>1 DEF Sound
  <2> QED
    BY Zenon, <2>4, <2>5
<1> HIDE DEF marked, closed
<1>4. TypeOK'
  BY Zenon, <1>1, <1>3, IdleSound DEF IInv, TypeOK
<1>5. ASSUME NEW d \in Calls PROVE CallInv(d)'
  BY Zenon, <1>1, <1>3 DEF CallInv
<1>6. WorkerInv'
  BY <1>1, <1>2, IdleSound DEF WorkerInv
<1> QED
  BY Zenon, <1>4, <1>5, <1>6 DEF IInv

-----------------------------------------------------------------------------
(* The sweeper, the process and the clock.                                 *)

LEMMA SweepStep ==
    ASSUME IInv, Sweep
    PROVE  IInv'
<1> DEFINE lapsed(d) == IF d \in H!Due THEN H!Ended(hold[d], "expired", hold[d].max)
                                       ELSE hold[d]
<1>1. /\ hold' = [d \in Calls |-> lapsed(d)]
      /\ UNCHANGED <<now, crashes, call, job, task, worker>>
  BY Zenon DEF Sweep, H!Lapse
<1>2. ASSUME NEW d \in Calls
      PROVE  /\ lapsed(d) \in H!HoldType
             /\ Sound(call[d], lapsed(d), job[d], task[d], now)
  <2>1. hold[d] \in H!HoldType /\ call[d] \in CallType
    BY Zenon DEF IInv, TypeOK
  <2>2. Sound(call[d], hold[d], job[d], task[d], now)
    BY Zenon DEF IInv, CallInv
  <2>3. CASE d \in H!Due
    <3>1. /\ lapsed(d) \in H!HoldType /\ lapsed(d).state = "expired"
          /\ lapsed(d).max = hold[d].max /\ lapsed(d).end = hold[d].end
      BY ZenonT(30), <2>1, <2>3 DEF H!Ended, H!HoldType
    <3>2. hold[d].state = "held" /\ hold[d].end <= now
      BY Zenon, <2>3 DEF H!Due, H!Held
    <3> HIDE DEF lapsed
    <3>3. Matches(call[d], lapsed(d), now)
      BY ZenonT(30), <2>1, <2>2, <3>1, <3>2 DEF Sound, Matches, CallType
    <3>4. OnTime(call[d], lapsed(d), task[d], now)
      BY Zenon, <2>2, <3>1, <3>2 DEF Sound, OnTime
    <3> QED
      BY Zenon, <2>2, <3>1, <3>3, <3>4 DEF Sound
  <2>4. CASE d \notin H!Due
    BY Zenon, <2>1, <2>2, <2>4
  <2> QED
    BY Zenon, <2>3, <2>4
<1> HIDE DEF lapsed
<1>3. TypeOK'
  BY Zenon, <1>1, <1>2 DEF IInv, TypeOK
<1>4. ASSUME NEW d \in Calls PROVE CallInv(d)'
  BY Zenon, <1>1, <1>2 DEF CallInv
<1>5. WorkerInv'
  BY Zenon, <1>1 DEF IInv, WorkerInv
<1> QED
  BY Zenon, <1>3, <1>4, <1>5 DEF IInv

LEMMA CrashStep ==
    ASSUME IInv, Crash
    PROVE  IInv'
<1>1. /\ task' = [d \in Calls |-> NoTask] /\ worker' = Idle
      /\ UNCHANGED <<now, call, hold, job>>
  BY Zenon DEF Crash
<1>2. NoTask \in TaskType /\ NoTask.pc = "none"
  BY Zenon, ResultTypes, TaskTypes DEF NoTask, TaskPcs, Task
<1>3. crashes' \in 0..MaxCrashes
  BY SMTT(30), Constants DEF IInv, TypeOK, Crash
<1>4. TypeOK'
  BY Zenon, <1>1, <1>2, <1>3, IdleSound DEF IInv, TypeOK
<1>5. ASSUME NEW d \in Calls PROVE CallInv(d)'
  <2>1. Sound(call[d], hold[d], job[d], NoTask, now)
    BY Zenon, <1>2 DEF IInv, CallInv, Sound, OnTime
  <2> QED
    BY Zenon, <1>1, <2>1 DEF CallInv
<1>6. WorkerInv'
  BY <1>1, IdleSound, Constants DEF IInv, TypeOK, WorkerInv
<1> QED
  BY Zenon, <1>4, <1>5, <1>6 DEF IInv

LEMMA TickStep ==
    ASSUME IInv, Tick
    PROVE  IInv'
<1>1. /\ now \in Nat /\ now < Horizon /\ now' = now + 1
      /\ UNCHANGED <<crashes, call, hold, job, task, worker>>
  BY Constants DEF IInv, TypeOK, Tick
<1>2. TypeOK'
  <2>1. now' \in 0..Horizon
    BY <1>1, Constants
  <2> QED
    BY Zenon, <1>1, <2>1 DEF IInv, TypeOK
<1>3. ASSUME NEW d \in Calls PROVE CallInv(d)'
  <2>1. call[d].end \in Nat /\ hold[d].end \in Nat /\ task[d].until \in Nat
    BY Zenon DEF IInv, TypeOK, CallType, H!HoldType, TaskType
  <2>2. Sound(call[d], hold[d], job[d], task[d], now)
    BY Zenon DEF IInv, CallInv
  <2>3. task[d].pc = "run" => now < task[d].until
    BY Zenon DEF Tick
  <2>4. Matches(call[d], hold[d], now + 1)
    <3>1. call[d].state \in {"none", "running", "done", "failed", "unknown"}
      BY Zenon DEF IInv, TypeOK, CallType
    <3>2. hold[d].end <= now => hold[d].end <= now + 1
      BY <1>1, <2>1
    <3>3. Matches(call[d], hold[d], now)
      BY Zenon, <2>2 DEF Sound
    <3> QED
      BY ZenonT(30), <3>1, <3>2, <3>3 DEF Matches
  <2>5. OnTime(call[d], hold[d], task[d], now + 1)
    BY SMTT(30), <1>1, <2>1, <2>2, <2>3 DEF Sound, OnTime
  <2>6. Sound(call[d], hold[d], job[d], task[d], now + 1)
    BY Zenon, <2>2, <2>4, <2>5 DEF Sound
  <2> QED
    BY Zenon, <1>1, <2>6 DEF CallInv
<1>4. WorkerInv'
  <2>1. worker.at \in Nat /\ worker.at <= now
    BY Constants DEF IInv, TypeOK, WorkerType, WorkerInv
  <2>2. worker.at <= now + 1
    BY <1>1, <2>1
  <2> QED
    BY Zenon, <1>1, <2>2 DEF IInv, WorkerInv
<1> QED
  BY Zenon, <1>2, <1>3, <1>4 DEF IInv

-----------------------------------------------------------------------------
\* No step of the engine, the worker, the sweeper, the process or the clock
\* breaks the invariant.
LEMMA Inductive == IInv /\ [Next]_vars => IInv'
<1> SUFFICES ASSUME IInv, [Next]_vars PROVE IInv'
  BY Zenon
<1>1. ASSUME NEW c \in Calls, NEW max \in 1..MaxUnits, Call(c, max) PROVE IInv'
  BY Zenon, <1>1, CallStep
<1>2. ASSUME NEW c \in Calls, Finish(c) PROVE IInv'
  BY Zenon, <1>2, GoroutineSteps, ScheduleStep, SettleStep DEF Finish
<1>3. CASE WorkStep
  BY Zenon, <1>3, WorkSteps, SettleJobStep, ReconcileStep DEF WorkStep
<1>4. CASE UNCHANGED vars
  BY Zenon, <1>4 DEF vars, IInv, TypeOK, CallInv, WorkerInv
<1> QED
  BY Zenon, <1>1, <1>2, <1>3, <1>4, SweepStep, CrashStep, TickStep DEF Next

THEOREM Invariant == Spec => []IInv
BY Initially, Inductive, PTL DEF Spec

\* The tables and goroutines keep their shapes, and no job is tried more than
\* SettleAttempts times (workJob's attempts check), however often a run is
\* lost or the process stops.
THEOREM TypeCorrect == Spec => []TypeOK
<1>1. IInv => TypeOK
  BY Zenon DEF IInv
<1> QED
  BY <1>1, Invariant, PTL

\* settle, the sweeper and reconcile agree on what a call costs, whichever
\* comes first.
THEOREM CostsWhatIsTaken == Spec => []CallMatchesHold
BY Implies, Invariant, PTL

\* finish asks no upstream for a call without its units held and the
\* settlement margin left.
THEOREM AskedUnderHold == Spec => []RunsUnderHold
BY Implies, Invariant, PTL

-----------------------------------------------------------------------------
\* A call with a job and the job end alike; a goroutine's call is running, or
\* reconcile has marked it; and what a pass has still to do is not over.
Agree(k, j) ==
    j.state # "none" =>
        /\ k.state = "done" => j.state = "done"
        /\ k.state = "failed" => j.state = "failed"
        /\ j.state = "done" => k.state \in {"done", "unknown"}

JobInv ==
    /\ \A c \in Calls : Agree(call[c], job[c])
    /\ \A c \in Calls : task[c].pc # "none" => call[c].state \in {"running", "unknown"}
    /\ \A c \in worker.todo : job[c].state \in {"scheduled", "running"} /\ c \notin worker.of

\* A step that leaves rows and jobs alone keeps this, as long as it starts no
\* goroutine and gives the pass nothing new to do.
LEMMA JobKept ==
    ASSUME JobInv, UNCHANGED <<call, job>>,
           \A c \in Calls : task'[c].pc # "none" => task[c].pc # "none",
           worker'.todo \subseteq worker.todo, worker'.of \subseteq worker.of
    PROVE  JobInv'
BY Zenon DEF JobInv

\* The steps of a goroutine that neither schedule nor settle.
LEMMA JobAside ==
    ASSUME IInv, JobInv, NEW c \in Calls, NEW t, task[c].pc # "none",
           task' = [task EXCEPT ![c] = t], UNCHANGED <<call, job, worker>>
    PROVE  JobInv'
<1>1. \A d \in Calls : task'[d].pc # "none" => task[d].pc # "none"
  BY Zenon DEF IInv, TypeOK
<1> QED
  BY Zenon, <1>1, JobKept

LEMMA JobFinish ==
    ASSUME IInv, JobInv, NEW c \in Calls, Finish(c)
    PROVE  JobInv'
<1>1. CASE TakeAnonSlot(c)
  <2>1. \A d \in Calls : task'[d].pc # "none" => task[d].pc # "none"
    BY Zenon, <1>1 DEF TakeAnonSlot, IInv, TypeOK
  <2> QED
    BY Zenon, <1>1, <2>1, JobKept DEF TakeAnonSlot
<1>2. CASE TakeSlot(c)
  BY Zenon, <1>2, JobAside DEF TakeSlot
<1>3. CASE WaitOver(c)
  BY Zenon, <1>3, JobAside DEF WaitOver
<1>4. CASE \E res \in Results : RunEnds(c, res)
  BY Zenon, <1>4, JobAside DEF RunEnds
<1>5. CASE \E at \in 0..Horizon : RunSchedules(c, at)
  BY Zenon, <1>5, JobAside DEF RunSchedules
<1>6. CASE RunLost(c)
  BY Zenon, <1>6, JobAside DEF RunLost
<1>7. CASE Schedule(c)
  <2> DEFINE j == [state |-> "scheduled", due |-> task[c].due,
                   attempts |-> 0, leased |-> 0]
  <2>1. /\ task[c].pc = "schedule" /\ job' = [job EXCEPT ![c] = j]
        /\ task' = [task EXCEPT ![c] = NoTask] /\ UNCHANGED <<call, worker>>
    BY Zenon, <1>7 DEF Schedule
  <2>2. /\ job'[c].state = "scheduled" /\ task'[c].pc = "none"
        /\ \A d \in Calls \ {c} : job'[d] = job[d] /\ task'[d] = task[d]
    BY Zenon, <2>1 DEF IInv, TypeOK, NoTask, Task
  <2>3. call[c].state \in {"running", "unknown"}
    BY Zenon, <2>1 DEF JobInv
  <2>4. Agree(call'[c], job'[c])
    BY Zenon, <2>1, <2>2, <2>3 DEF Agree
  <2>5. \A d \in worker.todo : d \in Calls
    BY Zenon DEF IInv, TypeOK, WorkerType
  <2> HIDE DEF j
  <2> QED
    BY Zenon, <2>1, <2>2, <2>4, <2>5 DEF JobInv
<1>8. CASE Settle(c)
  <2>1. /\ task[c].pc = "settle" /\ settle(c, task[c].res) /\ UNCHANGED <<job, worker>>
        /\ task' = [task EXCEPT ![c] = NoTask] /\ task[c].res \in Results
    BY Zenon, <1>8 DEF Settle, IInv, TypeOK, TaskType
  <2>2. job[c].state = "none"
    BY Zenon, <2>1 DEF IInv, CallInv, Sound
  <2>3. /\ task'[c].pc = "none" /\ \A d \in Calls \ {c} : task'[d] = task[d]
    BY Zenon, <2>1 DEF IInv, TypeOK, NoTask, Task
  <2>4. \A d \in Calls \ {c} : call'[d] = call[d]
    BY Zenon, <2>1, SettleKeeps DEF IInv
  <2>5. Agree(call'[c], job'[c])
    BY Zenon, <2>1, <2>2 DEF Agree
  <2> QED
    BY Zenon, <2>1, <2>3, <2>4, <2>5 DEF JobInv
<1> QED
  BY Zenon, <1>1, <1>2, <1>3, <1>4, <1>5, <1>6, <1>7, <1>8 DEF Finish

\* What the next job of a pass is written as agrees with its call, and the
\* pass goes on without it.
LEMMA JobSkipped ==
    ASSUME IInv, JobInv, NEW c \in worker.todo, NEW j,
           Agree(call[c], j), job' = [job EXCEPT ![c] = j], UNCHANGED <<call, task>>,
           worker'.todo = worker.todo \ {c}, worker'.of \subseteq {c}
    PROVE  JobInv'
<1>1. c \in Calls /\ worker.todo \subseteq Calls
  BY Zenon DEF IInv, TypeOK, WorkerType
<1>2. job'[c] = j /\ \A d \in Calls \ {c} : job'[d] = job[d]
  BY Zenon, <1>1 DEF IInv, TypeOK
<1> QED
  BY Zenon, <1>1, <1>2 DEF JobInv

LEMMA JobWorked ==
    ASSUME IInv, JobInv, NEW c \in Calls, DropJob(c) \/ GiveUpJob(c) \/ LeaseJob(c)
    PROVE  JobInv'
<1>1. /\ c \in worker.todo /\ worker.pc = "pass" /\ worker.of = {}
      /\ job[c].state \in {"scheduled", "running"}
      /\ worker \in WorkerType
  BY Zenon DEF DropJob, GiveUpJob, LeaseJob, IsNext, JobInv, IInv, WorkerInv, TypeOK
<1>2. Skipped(c).todo = worker.todo \ {c} /\ Skipped(c).of = {}
  BY <1>1 DEF Skipped, WorkerType
<1>3. call[c].state \notin {"done", "failed"}
  BY Zenon, <1>1 DEF JobInv, Agree
<1>4. CASE DropJob(c) \/ GiveUpJob(c)
  <2>1. Agree(call[c], Over("failed"))
    BY ZenonT(30), <1>3, OverTypes DEF Agree
  <2>2. /\ job' = [job EXCEPT ![c] = Over("failed")] /\ UNCHANGED <<call, task>>
        /\ worker' = Skipped(c)
    BY Zenon, <1>4 DEF DropJob, GiveUpJob
  <2>3. worker'.of \subseteq {c}
    BY Zenon, <1>2, <2>2
  <2> QED
    BY Zenon, <1>1, <1>2, <2>1, <2>2, <2>3, JobSkipped
<1>5. CASE LeaseJob(c)
  <2> DEFINE j == [job[c] EXCEPT !.state = "running", !.attempts = @ + 1,
                                 !.leased = worker.at + MaxDuration + LeaseGrace]
  <2>1. j.state = "running"
    BY DEF IInv, TypeOK, JobType
  <2>2. /\ job' = [job EXCEPT ![c] = j] /\ UNCHANGED <<call, task>>
    BY <1>5 DEF LeaseJob
  <2>3. worker'.todo = worker.todo \ {c} /\ worker'.of = {c}
    BY Zenon, <1>5 DEF LeaseJob, Worker
  <2> HIDE DEF j
  <2>4. Agree(call[c], j)
    BY Zenon, <1>3, <2>1 DEF Agree
  <2> QED
    BY Zenon, <1>1, <2>2, <2>3, <2>4, JobSkipped
<1> QED
  BY Zenon, <1>4, <1>5

\* settle ends a running call as it was to: done or failed, or unknown where
\* the ledger refuses.
LEMMA SettleEnds ==
    ASSUME IInv, NEW c \in Calls, NEW res, settle(c, res), call[c].state = "running"
    PROVE  IF Good(c, res) THEN call'[c].state \in {"done", "unknown"}
                           ELSE call'[c].state \in {"failed", "unknown"}
<1>1. call \in [Calls -> CallType] /\ call[c] \in CallType
  BY Zenon DEF IInv, TypeOK
<1>2. \A state, cost : Record(call[c], state, cost).state = state
  BY <1>1 DEF Record, CallType
<1> HIDE DEF Record
<1>3. CASE Good(c, res) /\ call' = [call EXCEPT ![c] = Record(@, "done", res.used)]
  BY Zenon, <1>1, <1>2, <1>3
<1>4. CASE ~Good(c, res) /\ call' = [call EXCEPT ![c] = Record(@, "failed", 0)]
  BY Zenon, <1>1, <1>2, <1>4
<1>5. CASE call' = [call EXCEPT ![c] = Record(@, "unknown", hold[c].max)]
  BY Zenon, <1>1, <1>2, <1>5
<1> QED
  BY Zenon, <1>3, <1>4, <1>5 DEF settle

LEMMA JobSettled ==
    ASSUME IInv, JobInv, NEW c \in Calls, SettleJob(c)
    PROVE  JobInv'
<1> DEFINE j == IF call[c].state = "running"
                THEN Over(IF Good(c, worker.res) THEN "done" ELSE "failed")
                ELSE job[c]
<1>1. /\ worker.of = {c} /\ settle(c, worker.res) /\ worker.res \in Results
      /\ job' = [job EXCEPT ![c] = j] /\ UNCHANGED task
      /\ worker' = Worker("pass", worker.at, worker.todo, {}, 0, Failed)
  BY Zenon DEF SettleJob, IInv, TypeOK, WorkerType
<1>2. worker'.todo = worker.todo /\ worker'.of = {} /\ worker.todo \subseteq Calls
  BY Zenon, <1>1 DEF Worker, IInv, TypeOK, WorkerType
<1>3. job[c].state = "running"
  BY Zenon, <1>1 DEF IInv, WorkerInv
<1>4. task[c].pc = "none"
  BY Zenon, <1>3 DEF IInv, CallInv, Sound
<1>5. \A d \in Calls \ {c} : call'[d] = call[d] /\ job'[d] = job[d]
  <2>1. \A d \in Calls \ {c} : call'[d] = call[d]
    BY Zenon, <1>1, SettleKeeps DEF IInv
  <2> QED
    BY Zenon, <1>1, <2>1 DEF IInv, TypeOK
<1>6. Agree(call'[c], job'[c])
  <2>1. job'[c] = j
    BY Zenon, <1>1 DEF IInv, TypeOK
  <2>2. CASE call[c].state # "running"
    <3>1. call' = call /\ j = job[c]
      BY Zenon, <1>1, <2>2 DEF settle
    <3> QED
      BY Zenon, <2>1, <3>1 DEF JobInv
  <2>3. CASE call[c].state = "running" /\ Good(c, worker.res)
    <3>1. j.state = "done" /\ call'[c].state \in {"done", "unknown"}
      BY Zenon, <1>1, <2>3, SettleEnds, OverTypes
    <3> QED
      BY Zenon, <2>1, <3>1 DEF Agree
  <2>4. CASE call[c].state = "running" /\ ~Good(c, worker.res)
    <3>1. j.state = "failed" /\ call'[c].state \in {"failed", "unknown"}
      BY Zenon, <1>1, <2>4, SettleEnds, OverTypes
    <3> QED
      BY Zenon, <2>1, <3>1 DEF Agree
  <2> QED
    BY Zenon, <2>2, <2>3, <2>4
<1> HIDE DEF j
<1> QED
  BY Zenon, <1>1, <1>2, <1>4, <1>5, <1>6 DEF JobInv

LEMMA JobReconciled ==
    ASSUME IInv, JobInv, reconcile
    PROVE  JobInv'
<1>1. worker' = Idle /\ UNCHANGED task
  BY Zenon DEF reconcile
<1>2. ASSUME NEW c \in Calls
      PROVE  /\ Agree(call'[c], job'[c])
             /\ task'[c].pc # "none" => call'[c].state \in {"running", "unknown"}
  <2>1. CASE c \in Overdue
    <3>1. call[c].state = "running" /\ call[c] \in CallType
      BY Zenon, <2>1 DEF Overdue, Running, IInv, TypeOK
    <3>2. call'[c].state = "unknown"
      <4>1. call'[c] = Record(call[c], "unknown", hold[c].max)
        BY Zenon, <2>1 DEF reconcile
      <4> QED
        BY <3>1, <4>1 DEF Record, CallType
    <3> QED
      BY Zenon, <3>2 DEF Agree
  <2>2. CASE c \notin Overdue
    <3>1. call'[c] = call[c] /\ job'[c] = job[c]
      BY Zenon, <2>2 DEF reconcile
    <3> QED
      BY Zenon, <1>1, <3>1 DEF JobInv
  <2> QED
    BY Zenon, <2>1, <2>2
<1> QED
  BY Zenon, <1>1, <1>2, IdleSound DEF JobInv

LEMMA JobCalled ==
    ASSUME IInv, JobInv, NEW c \in Calls, NEW max, Call(c, max)
    PROVE  JobInv'
<1>1. job[c].state = "none" /\ UNCHANGED <<job, worker>>
  BY Zenon DEF Call, IInv, CallInv, Sound
<1>2. /\ call'[c].state = "running"
      /\ \A d \in Calls \ {c} : call'[d] = call[d] /\ task'[d] = task[d]
  BY Zenon DEF Call, IInv, TypeOK
<1> QED
  BY Zenon, <1>1, <1>2 DEF JobInv, Agree

LEMMA JobStep == IInv /\ JobInv /\ [Next]_vars => JobInv'
<1> SUFFICES ASSUME IInv, JobInv, [Next]_vars PROVE JobInv'
  BY Zenon
<1>1. CASE \E c \in Calls : \E max \in 1..MaxUnits : Call(c, max)
  BY Zenon, <1>1, JobCalled
<1>2. CASE \E c \in Calls : Finish(c)
  BY Zenon, <1>2, JobFinish
<1>3. CASE Work
  <2>1. /\ worker'.todo = {c \in Calls : Due(c, now)} /\ worker'.of = {}
        /\ UNCHANGED <<call, job, task>>
    BY Zenon, <1>3 DEF Work, Worker
  <2> QED
    BY Zenon, <2>1 DEF JobInv, Due
<1>4. CASE \E c \in Calls : DropJob(c) \/ GiveUpJob(c) \/ LeaseJob(c)
  BY Zenon, <1>4, JobWorked
<1>5. CASE \E c \in Calls : SettleJob(c)
  BY Zenon, <1>5, JobSettled
<1>6. CASE \E res \in Results : JobEnds(res)
  <2>1. UNCHANGED <<call, job, task>>
    BY Zenon, <1>6 DEF JobEnds
  <2>2. worker'.todo = worker.todo /\ worker'.of = worker.of
    BY <1>6 DEF JobEnds, IInv, TypeOK, WorkerType
  <2> QED
    BY Zenon, <2>1, <2>2, JobKept
<1>7. CASE JobLost
  <2>1. UNCHANGED <<call, job, task>> /\ worker'.todo = worker.todo /\ worker'.of = {}
    BY Zenon, <1>7 DEF JobLost, Worker
  <2> QED
    BY Zenon, <2>1, JobKept
<1>8. CASE reconcile
  BY Zenon, <1>8, JobReconciled
<1>9. CASE Crash
  <2>1. /\ UNCHANGED <<call, job>> /\ worker'.todo = {} /\ worker'.of = {}
        /\ \A c \in Calls : task'[c].pc = "none"
    BY Zenon, <1>9, IdleSound DEF Crash, NoTask, Task
  <2> QED
    BY Zenon, <2>1, JobKept
<1>10. CASE Sweep \/ Tick \/ UNCHANGED vars
  <2>1. UNCHANGED <<call, job, task, worker>>
    BY Zenon, <1>10 DEF Sweep, Tick, vars
  <2> QED
    BY Zenon, <2>1, JobKept
<1> QED
  BY Zenon, <1>1, <1>2, <1>3, <1>4, <1>5, <1>6, <1>7, <1>8, <1>9, <1>10 DEF Next, WorkStep

\* For any number of calls: an async call's job ends as the call does,
\* whichever of settle, the sweeper, reconcile, a crash and the worker comes
\* first, because a goroutine is through before its call has a job, a pass
\* comes to a job once, and settle and reconcile end both rows.
THEOREM JobsEndAsCalls == Spec => []JobMatchesCall
<1>1. Init => JobInv
  <2> SUFFICES ASSUME Init PROVE JobInv
    BY Zenon
  <2>1. \A c \in Calls : job[c].state = "none" /\ task[c].pc = "none"
    BY Zenon DEF Init, NoJob, NoTask, Task
  <2>2. worker.todo = {}
    BY Zenon, IdleSound DEF Init
  <2> QED
    BY Zenon, <2>1, <2>2 DEF JobInv, Agree
<1>2. JobInv => JobMatchesCall
  BY Zenon DEF JobInv, Agree, JobMatchesCall
<1> QED
  BY <1>1, <1>2, JobStep, Invariant, PTL DEF Spec

-----------------------------------------------------------------------------
\* No step rewrites an outcome.
LEMMA StepKeepsOutcomes ==
    ASSUME IInv, [Next]_vars, NEW c \in Calls,
           call[c].state \in {"done", "failed", "unknown"}
    PROVE  call'[c] = call[c]
<1>1. TypeOK /\ \A d \in Calls : CallInv(d)
  BY Zenon DEF IInv
<1>2. ASSUME NEW d \in Calls, NEW res \in Results, settle(d, res)
      PROVE  call'[c] = call[c]
  BY Zenon, <1>1, <1>2, SettleKeeps
<1>3. ASSUME NEW d \in Calls, NEW max \in 1..MaxUnits, Call(d, max)
      PROVE  call'[c] = call[c]
  BY Zenon, <1>1, <1>3 DEF Call, TypeOK
<1>4. ASSUME NEW d \in Calls, Finish(d) PROVE call'[c] = call[c]
  <2>1. task[d].res \in Results
    BY Zenon, <1>1 DEF TypeOK, TaskType
  <2> QED
    BY ZenonT(30), <1>2, <1>4, <2>1 DEF Finish, TakeAnonSlot, TakeSlot, WaitOver, RunEnds,
       RunSchedules, RunLost, Schedule, Settle
<1>5. CASE WorkStep
  <2>1. worker.res \in Results
    BY Zenon, <1>1 DEF TypeOK, WorkerType
  <2>2. CASE reconcile
    BY Zenon, <2>2 DEF reconcile, Overdue, Running
  <2>3. ASSUME NEW d \in Calls, SettleJob(d) PROVE call'[c] = call[c]
    BY Zenon, <1>2, <2>1, <2>3 DEF SettleJob
  <2> QED
    BY ZenonT(30), <1>5, <2>2, <2>3 DEF WorkStep, Work, DropJob, GiveUpJob, LeaseJob,
       JobEnds, JobLost
<1> QED
  BY Zenon, <1>3, <1>4, <1>5 DEF Next, vars, Sweep, Crash, Tick

\* The outcome recorded for a call is final: neither settle, for a late answer
\* or a job run again, nor reconcile writes over it.
THEOREM OutcomesStay == Spec => OutcomeForGood
<1>1. IInv /\ [Next]_vars =>
        [\A c \in Calls : call[c].state \in {"done", "failed", "unknown"}
                            => call'[c] = call[c]]_vars
  BY Zenon, StepKeepsOutcomes
<1> QED
  BY <1>1, Invariant, PTL DEF Spec, OutcomeForGood

-----------------------------------------------------------------------------
\* A goroutine asks for a slot, and has one, for an unsigned call only with an
\* unsigned call's slot in hand; and it has one only from when it asks the
\* upstream to when it is through.
Paced(c, t) ==
    /\ c \notin Signed /\ (t.pc = "slot" \/ "slot" \in t.has) => "anon" \in t.has
    /\ "slot" \in t.has => t.pc \in {"run", "schedule", "settle"}

\* The slots taken are counted, and never more than there are.
Fits(S, n) == IsFiniteSet(S) /\ Cardinality(S) <= n

SlotInv == /\ Fits(Having("slot"), RemoteSlots)
           /\ Fits(Having("anon"), AnonymousRemoteSlots)
           /\ \A c \in Calls : Paced(c, task[c])

LEMMA FewerFit ==
    ASSUME NEW n \in Nat, NEW S, Fits(S, n), NEW T, T \subseteq S
    PROVE  Fits(T, n)
BY FS_Subset, FS_CardinalityType DEF Fits

LEMMA OneMoreFits ==
    ASSUME NEW n \in Nat, NEW S, Fits(S, n), Cardinality(S) < n, NEW x,
           NEW T, T \subseteq S \cup {x}
    PROVE  Fits(T, n)
<1>1. IsFiniteSet(S \cup {x}) /\ Cardinality(S \cup {x}) <= n
  <2>1. IsFiniteSet(S) /\ Cardinality(S) \in Nat
    BY Zenon, FS_CardinalityType DEF Fits
  <2>2. /\ IsFiniteSet(S \cup {x})
        /\ Cardinality(S \cup {x}) = IF x \in S THEN Cardinality(S) ELSE Cardinality(S) + 1
    BY Zenon, <2>1, FS_AddElement
  <2> QED
    BY <2>1, <2>2
<1> QED
  BY Zenon, <1>1, FewerFit DEF Fits

LEMMA SlotNumbers == RemoteSlots \in Nat /\ AnonymousRemoteSlots \in Nat
BY Zenon, ServiceCallsAssumption

\* A goroutine that takes no slot takes no other's.
LEMMA SlotKept ==
    ASSUME TypeOK, SlotInv, NEW c \in Calls, NEW t,
           task' = [task EXCEPT ![c] = t],
           t.has \subseteq task[c].has, Paced(c, t)
    PROVE  SlotInv'
<1>1. ASSUME NEW d \in Calls PROVE task'[d] = IF d = c THEN t ELSE task[d]
  BY Zenon DEF TypeOK
<1>2. Having("slot")' \subseteq Having("slot") /\ Having("anon")' \subseteq Having("anon")
  BY Zenon, <1>1 DEF Having
<1>3. Fits(Having("slot")', RemoteSlots) /\ Fits(Having("anon")', AnonymousRemoteSlots)
  BY Zenon, <1>2, FewerFit, SlotNumbers DEF SlotInv
<1>4. ASSUME NEW d \in Calls PROVE Paced(d, task'[d])
  BY Zenon, <1>1 DEF SlotInv
<1> QED
  BY Zenon, <1>3, <1>4 DEF SlotInv, Fits

\* The steps that take one find it free.
LEMMA SlotTaken ==
    ASSUME TypeOK, SlotInv, NEW c \in Calls, TakeAnonSlot(c) \/ TakeSlot(c)
    PROVE  SlotInv'
<1>1. PICK t : /\ task' = [task EXCEPT ![c] = t]
               /\ \/ /\ t.has = {"anon"}
                     /\ Cardinality(Having("anon")) < AnonymousRemoteSlots
                  \/ /\ t.has = task[c].has \cup {"slot"}
                     /\ task[c].pc = "slot"
                     /\ t.pc \in {"run", "settle"}
                     /\ Cardinality(Having("slot")) < RemoteSlots
  <2>1. CASE TakeAnonSlot(c)
    <3>1. task[c] \in TaskType
      BY Zenon DEF TypeOK
    <3>2. [task[c] EXCEPT !.pc = "slot", !.has = {"anon"}].has = {"anon"}
      BY Zenon, <3>1 DEF TaskType
    <3> QED
      BY Zenon, <2>1, <3>2 DEF TakeAnonSlot
  <2>2. CASE TakeSlot(c)
    <3> DEFINE has == task[c].has \cup {"slot"}
               t == IF Left(c) < Greater(1, MaxDuration \div 4)
                    THEN Task("settle", has, 0, Failed, 0)
                    ELSE Task("run", has, now + Lesser(MaxDuration, Left(c)), Failed, 0)
    <3>1. t.has = has /\ t.pc \in {"run", "settle"}
      BY Zenon DEF Task
    <3>2. /\ task' = [task EXCEPT ![c] = t] /\ task[c].pc = "slot"
          /\ Cardinality(Having("slot")) < RemoteSlots
      BY Zenon, <2>2 DEF TakeSlot
    <3> HIDE DEF t
    <3> QED
      BY Zenon, <3>1, <3>2
  <2> QED
    BY Zenon, <2>1, <2>2
<1>2. ASSUME NEW d \in Calls PROVE task'[d] = IF d = c THEN t ELSE task[d]
  BY Zenon, <1>1 DEF TypeOK
<1>3. CASE t.has = {"anon"} /\ Cardinality(Having("anon")) < AnonymousRemoteSlots
  <2>1. Having("slot")' \subseteq Having("slot")
    <3>1. SUFFICES ASSUME NEW d \in Calls, "slot" \in task'[d].has
                   PROVE  "slot" \in task[d].has
      BY Zenon DEF Having
    <3>2. d # c
      BY <1>2, <1>3, <3>1
    <3> QED
      BY Zenon, <1>2, <3>1, <3>2
  <2>2. Having("anon")' \subseteq Having("anon") \cup {c}
    BY Zenon, <1>2 DEF Having
  <2>3. Fits(Having("slot")', RemoteSlots)
    BY Zenon, <2>1, FewerFit, SlotNumbers DEF SlotInv
  <2>4. Fits(Having("anon")', AnonymousRemoteSlots)
    BY Zenon, <1>3, <2>2, OneMoreFits, SlotNumbers DEF SlotInv
  <2>5. ASSUME NEW d \in Calls PROVE Paced(d, task'[d])
    <3>1. "slot" \notin t.has /\ "anon" \in t.has
      BY <1>3
    <3> QED
      BY Zenon, <1>2, <3>1 DEF SlotInv, Paced
  <2> QED
    BY Zenon, <2>3, <2>4, <2>5 DEF SlotInv, Fits
<1>4. CASE /\ t.has = task[c].has \cup {"slot"} /\ task[c].pc = "slot"
           /\ t.pc \in {"run", "settle"} /\ Cardinality(Having("slot")) < RemoteSlots
  <2>1. Having("slot")' \subseteq Having("slot") \cup {c}
    BY Zenon, <1>2 DEF Having
  <2>2. Having("anon")' \subseteq Having("anon")
    <3>1. SUFFICES ASSUME NEW d \in Calls, "anon" \in task'[d].has
                   PROVE  "anon" \in task[d].has
      BY Zenon DEF Having
    <3> QED
      BY <1>2, <1>4, <3>1
  <2>3. Fits(Having("anon")', AnonymousRemoteSlots)
    BY Zenon, <2>2, FewerFit, SlotNumbers DEF SlotInv
  <2>4. Fits(Having("slot")', RemoteSlots)
    BY Zenon, <1>4, <2>1, OneMoreFits, SlotNumbers DEF SlotInv
  <2>5. ASSUME NEW d \in Calls PROVE Paced(d, task'[d])
    BY Zenon, <1>2, <1>4 DEF SlotInv, Paced
  <2> QED
    BY Zenon, <2>3, <2>4, <2>5 DEF SlotInv, Fits
<1> QED
  BY Zenon, <1>1, <1>3, <1>4

\* Every other step of a goroutine keeps its slots or leaves with none.
LEMMA SlotStep ==
    ASSUME TypeOK, SlotInv, [Next]_vars
    PROVE  SlotInv'
<1>0. ASSUME UNCHANGED task PROVE SlotInv'
  BY Zenon, <1>0 DEF SlotInv, Having
<1>1. ASSUME NEW c \in Calls PROVE task[c] \in TaskType /\ Paced(c, task[c])
  BY Zenon DEF TypeOK, SlotInv
<1>2. ASSUME NEW c \in Calls, task' = [task EXCEPT ![c] = NoTask]
      PROVE  SlotInv'
  <2>1. NoTask.has = {} /\ NoTask.pc = "none"
    BY Zenon DEF NoTask, Task
  <2> QED
    BY Zenon, <1>2, <2>1, SlotKept DEF Paced
<1>3. ASSUME NEW c \in Calls, NEW max \in 1..MaxUnits, Call(c, max)
      PROVE  SlotInv'
  <2> DEFINE t == Task(IF c \in Signed THEN "slot" ELSE "anon",
                       {}, now + MaxDuration, Failed, 0)
  <2>1. t.has = {} /\ (c \notin Signed => t.pc = "anon")
    BY Zenon DEF Task
  <2>2. Paced(c, t)
    BY Zenon, <2>1 DEF Paced
  <2>3. task' = [task EXCEPT ![c] = t]
    BY Zenon, <1>3 DEF Call
  <2> QED
    BY Zenon, <2>1, <2>2, <2>3, SlotKept
<1>4. ASSUME NEW c \in Calls, Finish(c) PROVE SlotInv'
  <2>1. CASE TakeAnonSlot(c) \/ TakeSlot(c)
    BY Zenon, <2>1, SlotTaken
  <2>2. CASE Schedule(c) \/ Settle(c) \/ RunLost(c)
    BY Zenon, <1>2, <2>2 DEF Schedule, Settle, RunLost
  <2>3. ASSUME NEW t, task' = [task EXCEPT ![c] = t],
               t.pc \in {"settle", "schedule"}, t.has = task[c].has
        PROVE  SlotInv'
    BY Zenon, <1>1, <2>3, SlotKept DEF Paced
  <2>4. ASSUME NEW pc \in {"settle", "schedule"}, NEW res, NEW due,
               task' = [task EXCEPT ![c] = Task(pc, task[c].has, 0, res, due)]
        PROVE  SlotInv'
    <3>1. /\ Task(pc, task[c].has, 0, res, due).pc = pc
          /\ Task(pc, task[c].has, 0, res, due).has = task[c].has
      BY Zenon DEF Task
    <3> QED
      BY ZenonT(30), <2>3, <2>4, <3>1
  <2>5. CASE WaitOver(c) \/ \E res \in Results : RunEnds(c, res)
    BY ZenonT(30), <2>4, <2>5 DEF WaitOver, RunEnds
  <2>6. ASSUME NEW at \in 0..Horizon, RunSchedules(c, at) PROVE SlotInv'
    BY ZenonT(30), <2>4, <2>6 DEF RunSchedules
  <2> QED
    BY ZenonT(30), <1>4, <2>1, <2>2, <2>4, <2>5, <2>6 DEF Finish
<1>5. CASE Crash
  <2>1. Having("slot")' = {} /\ Having("anon")' = {}
    BY Zenon, <1>5 DEF Crash, Having, NoTask, Task
  <2>2. ASSUME NEW c \in Calls PROVE Paced(c, task'[c])
    BY Zenon, <1>5 DEF Crash, NoTask, Task, Paced
  <2> QED
    BY <2>1, <2>2, FS_EmptySet, SlotNumbers DEF SlotInv, Fits
<1>6. CASE WorkStep
  BY ZenonT(30), <1>0, <1>6 DEF WorkStep, Work, DropJob, GiveUpJob, LeaseJob, SettleJob,
     JobEnds, JobLost, reconcile
<1> QED
  BY ZenonT(30), <1>0, <1>3, <1>4, <1>5, <1>6 DEF Next, vars, Sweep, Tick

\* For any number of calls and slots: a signed call finds a slot unless signed
\* calls have all that AnonymousRemoteSlots leaves, because an unsigned call
\* has the second semaphore before and as long as it has the first, and a
\* goroutine gives both back as it ends.
THEOREM SignedCallsFindSlots == Spec => []SignedFindSlot
<1>1. Init => SlotInv
  <2> SUFFICES ASSUME Init PROVE SlotInv
    BY Zenon
  <2>1. Having("slot") = {} /\ Having("anon") = {}
    BY Zenon DEF Init, Having, NoTask, Task
  <2>2. ASSUME NEW c \in Calls PROVE Paced(c, task[c])
    BY Zenon DEF Init, NoTask, Task, Paced
  <2> QED
    BY <2>1, <2>2, FS_EmptySet, SlotNumbers DEF SlotInv, Fits
<1>2. SlotInv => SignedFindSlot
  <2> SUFFICES ASSUME SlotInv, Cardinality(SignedIn) < RemoteSlots - AnonymousRemoteSlots
               PROVE  Cardinality(Having("slot")) < RemoteSlots
    BY Zenon DEF SignedFindSlot
  <2> DEFINE S == Having("slot") \cap Signed
             U == Having("slot") \ Signed
  <2>1. S \subseteq SignedIn /\ U \subseteq Having("anon") /\ Having("slot") = S \cup U
    BY Zenon, ServiceCallsAssumption DEF SlotInv, Having, Paced, SignedIn
  <2>2. IsFiniteSet(SignedIn)
    <3>1. SignedIn \subseteq Calls /\ IsFiniteSet(Calls)
      BY Zenon, ServiceCallsAssumption DEF SignedIn
    <3> QED
      BY Zenon, <3>1, FS_Subset
  <2>3. IsFiniteSet(S) /\ Cardinality(S) <= Cardinality(SignedIn)
    BY Zenon, <2>1, <2>2, FS_Subset
  <2>4. IsFiniteSet(U) /\ Cardinality(U) <= AnonymousRemoteSlots
    BY Zenon, <2>1, FewerFit, SlotNumbers DEF SlotInv, Fits
  <2>5. /\ Cardinality(S) \in Nat /\ Cardinality(U) \in Nat
        /\ Cardinality(SignedIn) \in Nat /\ Cardinality(S \cap U) \in Nat
    <3>1. S \cap U = {}
      BY Zenon
    <3> QED
      BY <2>2, <2>3, <2>4, <3>1, FS_CardinalityType, FS_EmptySet
  <2>6. Cardinality(S \cup U) = Cardinality(S) + Cardinality(U) - Cardinality(S \cap U)
    BY Zenon, <2>3, <2>4, FS_Union
  <2> HIDE DEF S, U
  <2> QED
    BY <2>1, <2>3, <2>4, <2>5, <2>6, SlotNumbers
<1>3. IInv => TypeOK
  BY Zenon DEF IInv
<1> QED
  BY <1>1, <1>2, <1>3, SlotStep, Invariant, PTL DEF Spec
=============================================================================
