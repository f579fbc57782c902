------------------------------ MODULE DayPools ------------------------------
(***************************************************************************)
(* The water of one resource's days (internal/ledger: pools.go, and the    *)
(* parts of spend.go and holds.go that draw it and give it back).  Every   *)
(* ledger operation is one transaction on the store's single connection,   *)
(* so each action below is atomic; what interleaves are the operations     *)
(* themselves, the operator's parameter versions and levers, the clock,    *)
(* and holds that settle on a later day than the one they drew from.       *)
(*                                                                         *)
(* Lots and accounts are in module Ledger.  Here a spend is the free units *)
(* it takes, by the origin of their lots, and the granted or earned units  *)
(* it takes, which drew their water when they were minted.  A spend plan   *)
(* has at most two free lots; a refused operation is rolled back by its    *)
(* command and is no step.                                                 *)
(***************************************************************************)
EXTENDS ShareRule

CONSTANTS Params,    \* parameter versions the operator may publish
          Levers,    \* lever settings
          Horizon,   \* the model's last instant
          Instants,  \* the instants at which something happens
          MaxUnits,  \* the most units of one part
          MaxMinted  \* the most granted or earned units of the model

ASSUME PoolsAssumption == /\ Params \subseteq ParamType
                          /\ Levers \subseteq LeverType
                          /\ Horizon \in Nat
                          /\ Instants \subseteq 0..Horizon
                          /\ MaxUnits \in Nat
                          /\ MaxMinted \in Nat

VARIABLES now,     \* the clock
          rp,      \* the parameter version in force
          lv,      \* the levers in force
          opened,  \* the days that have opened
          days,    \* day -> its row and its slices
          held,    \* day -> origin -> free units its open holds drew
          used,    \* day -> origin -> free units drawn and spent for good
          minted,  \* day -> [held, used] of its granted and earned units
          purse    \* granted and earned units not yet spent or held

vars == <<now, rp, lv, opened, days, held, used, minted, purse>>

Days == 0..(Horizon \div DayLen)
today == now \div DayLen
tod == now % DayLen

NoDay == [be |-> 0, size |-> [s \in Slices |-> 0],
          claimed |-> [s \in Slices |-> 0], lent |-> [s \in Slices |-> 0],
          borrowed |-> [s \in Slices |-> 0], anon |-> 0, spent |-> 0]

Init == /\ now = 0
        /\ rp \in Params
        /\ lv \in Levers
        /\ opened = {}
        /\ days = [d \in Days |-> NoDay]
        /\ held = [d \in Days |-> [o \in Origins |-> 0]]
        /\ used = [d \in Days |-> [o \in Origins |-> 0]]
        /\ minted = [d \in Days |-> [held |-> 0, used |-> 0]]
        /\ purse = 0

-----------------------------------------------------------------------------
\* The prelude of every write: open the day if it has not, then adjust it.
open == adjust(IF today \in opened THEN days[today] ELSE computeOpen(rp, lv),
               rp, lv)

\* A plan: at most two free lots, in the order the plan takes them (an unused
\* part is Empty), and g granted or earned units.
Empty == [origin |-> "floor", units |-> 0]
Parts == [origin : Origins, units : 1..MaxUnits] \cup {Empty}

Take(acc, p, q) ==
    [o \in Origins |-> acc[o] + (IF o = p.origin THEN p.units ELSE 0)
                              + (IF o = q.origin THEN q.units ELSE 0)]

\* planSpend on the opened day and its charge, shared by debit and hold.
Charge(p, q, g) ==
    LET d0 == open
        d1 == draw(d0, rp, p.origin, p.units, tod)
        d2 == draw(d1, rp, q.origin, q.units, tod)
    IN  /\ p.units <= PlanRoom(d0, rp, lv, p.origin, tod)
        /\ q.units <= PlanRoom(d1, rp, lv, q.origin, tod)
        /\ g <= purse
        /\ d0.spent + p.units + q.units + g <= rp.ceiling
        /\ opened' = opened \cup {today}
        /\ days' = [days EXCEPT ![today] =
                      [d2 EXCEPT !.spent = @ + p.units + q.units + g]]
        /\ purse' = purse - g
        /\ UNCHANGED <<now, rp, lv>>

\* Spend: debit takes the units for good.
Spend(p, q, g) ==
    /\ Charge(p, q, g)
    /\ used' = [used EXCEPT ![today] = Take(@, p, q)]
    /\ minted' = [minted EXCEPT ![today].used = @ + g]
    /\ UNCHANGED held

\* Reserve: a hold's free units are drawn when it is made.
Reserve(p, q, g) ==
    /\ p.units + q.units + g > 0
    /\ Charge(p, q, g)
    /\ held' = [held EXCEPT ![today] = Take(@, p, q)]
    /\ minted' = [minted EXCEPT ![today].held = @ + g]
    /\ UNCHANGED used

\* What a settle moves besides the row of the hold's day.
Settled(d, h, back, g, b) ==
    /\ held' = [held EXCEPT ![d] = [o \in Origins |-> @[o] - h[o]]]
    /\ used' = [used EXCEPT ![d] = [o \in Origins |-> @[o] + h[o] - back[o]]]
    /\ minted' = [minted EXCEPT ![d] = [held |-> @.held - g,
                                        used |-> @.used + g - b]]
    /\ purse' = purse + b
    /\ UNCHANGED <<now, rp, lv, opened>>

\* Mutant: the refund goes to the row of the day it is made on.
SettleIntoToday(d, h, back, g, b) ==
    /\ h["floor"] + h["standing"] + h["anonymous"] + g > 0
    /\ today \in opened
    /\ LET e == undraw(undraw(undraw(days[today], "floor", back["floor"]),
                              "standing", back["standing"]),
                       "anonymous", back["anonymous"])
       IN  days' = [days EXCEPT ![today] = [e EXCEPT !.spent = @ - back["floor"]
                       - back["standing"] - back["anonymous"] - b]]
    /\ Settled(d, h, back, g, b)

\* Mutant: granted and earned units that come back stay in the day's spend.
SettleMintedSpent(d, h, back, g, b) ==
    /\ h["floor"] + h["standing"] + h["anonymous"] + g > 0
    /\ LET e == undraw(undraw(undraw(days[d], "floor", back["floor"]),
                              "standing", back["standing"]),
                       "anonymous", back["anonymous"])
       IN  days' = [days EXCEPT ![d] = [e EXCEPT !.spent = @ - back["floor"]
                       - back["standing"] - back["anonymous"]]]
    /\ Settled(d, h, back, g, b)

\* settle: a hold made on day d, of h free units by origin and g minted ones,
\* ends; back[o] and b of them were not used.  They leave the spend of the
\* day the hold was made, and the free ones return to that day's slices.
Settle(d, h, back, g, b) ==
    /\ h["floor"] + h["standing"] + h["anonymous"] + g > 0
    /\ LET e == undraw(undraw(undraw(days[d], "floor", back["floor"]),
                              "standing", back["standing"]),
                       "anonymous", back["anonymous"])
       IN  days' = [days EXCEPT ![d] = [e EXCEPT !.spent = @ - back["floor"]
                       - back["standing"] - back["anonymous"] - b]]
    /\ Settled(d, h, back, g, b)

\* mint of granted or earned units: they draw the grant slice.
Mint(n) ==
    /\ n <= avail(open, "grant")
    /\ opened' = opened \cup {today}
    /\ days' = [days EXCEPT ![today] = [open EXCEPT !.claimed["grant"] = @ + n]]
    /\ purse' = purse + n
    /\ UNCHANGED <<now, rp, lv, held, used, minted>>

\* The operator publishes parameters or pulls a lever; the day follows at
\* its next operation.
SetParams(p) == /\ p # rp
                /\ rp' = p
                /\ UNCHANGED <<now, lv, opened, days, held, used, minted, purse>>
PullLever(l) == /\ l # lv
                /\ lv' = l
                /\ UNCHANGED <<now, rp, opened, days, held, used, minted, purse>>

Tick == \E t \in Instants :
          /\ t > now
          /\ now' = t
          /\ UNCHANGED <<rp, lv, opened, days, held, used, minted, purse>>

\* The free units of a vector by origin.
Vector(f, s, a) == [o \in Origins |-> CASE o = "floor" -> f
                                        [] o = "standing" -> s
                                        [] o = "anonymous" -> a]

\* What a settle may release of a day: the content of one of its holds, and
\* which part of it comes back.
SomeSettle ==
    \E d \in opened :
        \E f \in 0..held[d]["floor"], s \in 0..held[d]["standing"],
           a \in 0..held[d]["anonymous"], g \in 0..minted[d].held :
            \E bf \in 0..f, bs \in 0..s, ba \in 0..a, b \in 0..g :
                Settle(d, Vector(f, s, a), Vector(bf, bs, ba), g, b)

Next == \/ \E p, q \in Parts, g \in 0..MaxMinted : Spend(p, q, g) \/ Reserve(p, q, g)
        \/ SomeSettle
        \/ \E n \in 1..MaxMinted : Mint(n)
        \/ \E p \in Params : SetParams(p)
        \/ \E l \in Levers : PullLever(l)
        \/ Tick

Spec == Init /\ [][Next]_vars

-----------------------------------------------------------------------------
\* Every variable has its type; the columns of a day are natural numbers,
\* so no undraw ever takes a column below zero.
TypeOK ==
    /\ now \in 0..Horizon
    /\ rp \in Params
    /\ lv \in Levers
    /\ opened \subseteq Days
    /\ days \in [Days -> [be : Nat, size : [Slices -> Nat],
                          claimed : [Slices -> Nat], lent : [Slices -> Nat],
                          borrowed : [Slices -> Nat], anon : Nat, spent : Nat]]
    /\ held \in [Days -> [Origins -> Nat]]
    /\ used \in [Days -> [Origins -> Nat]]
    /\ minted \in [Days -> [held : Nat, used : Nat]]
    /\ purse \in Nat

\* What one slice's spends borrowed is what the other slice lent, however
\* draws, refunds and adjustments interleave (draw, undraw).
LendingBalanced ==
    \A d \in Days : /\ days[d].borrowed["floor"] = days[d].lent["standing"]
                    /\ days[d].borrowed["standing"] = days[d].lent["floor"]
                    /\ days[d].lent["grant"] = 0
                    /\ days[d].borrowed["grant"] = 0

\* The slices' columns say exactly what the free units held and spent on the
\* day drew: no refund is lost, and none returns more than was drawn.
DrawsAccounted ==
    \A d \in Days :
        LET out(o) == held[d][o] + used[d][o]
        IN  /\ days[d].claimed["floor"] + days[d].borrowed["floor"]
                 = out("floor") + out("anonymous")
            /\ days[d].claimed["standing"] + days[d].borrowed["standing"]
                 = out("standing")
            /\ days[d].anon = out("anonymous")

\* What the spend ceiling is compared with is what the day's lots gave, open
\* holds included: a settle, on whatever day, takes what comes back, free,
\* granted or earned, out of the spend of the day of the hold, and only once.
SpendAccounted ==
    \A d \in Days :
        days[d].spent = held[d]["floor"] + held[d]["standing"]
                      + held[d]["anonymous"] + used[d]["floor"]
                      + used[d]["standing"] + used[d]["anonymous"]
                      + minted[d].held + minted[d].used

\* No slice gives more water than it holds, though levers shrink it while
\* units are drawn and holds are open.
NoSliceOverdrawn == \A d \in Days, s \in Slices : avail(days[d], s) >= 0

Drawn(d) == Sum3(d.claimed) + Sum3(d.lent)

\* A step that draws water, by a spend, a hold or a grant, leaves the day's
\* draws within the effective budget then in force: water a refund puts back
\* after a budget cut is not handed out again.
DrawsStayWithinBudget ==
    [][\A d \in Days : Drawn(days'[d]) > Drawn(days[d])
                         => Drawn(days'[d]) <= effectiveBudget(rp, lv)]_vars

\* Anonymous lots never draw past what the day has released to them so far.
AnonymousPaced ==
    [][\A d \in Days : days'[d].anon > days[d].anon
         => d = today /\ days'[d].anon <= AnonCeiling(days'[d], rp, lv, tod)]_vars
=============================================================================
