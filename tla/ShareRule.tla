----------------------------- MODULE ShareRule -----------------------------
(***************************************************************************)
(* The pure part of the daily share rule (internal/ledger/pools.go): how a *)
(* day's budget is cut into the grant, floor and standing slices, how the  *)
(* slices follow a budget change or a lever, and how a spend of free units *)
(* draws water from its own slice and borrows from the other one.          *)
(*                                                                         *)
(* A day is a record: its effective budget, the four columns of each       *)
(* slice, what anonymous lots drew and what the day spent outside paid     *)
(* credit.  Time of day is counted in units of which a day has DayLen and  *)
(* an hour HourLen (86400 and 3600 in the code); shares are in Ppm-ths     *)
(* (1000000 in the code).                                                  *)
(***************************************************************************)
EXTENDS Integers

CONSTANTS Ppm, DayLen, HourLen

ASSUME ScaleAssumption == /\ Ppm \in Nat \ {0}
                          /\ DayLen \in Nat \ {0}
                          /\ HourLen \in Nat \ {0}

\* The parameters of one resource and the levers, as far as the rule uses them.
ParamType == [budget : Nat, ceiling : Nat, grantShare : 0..Ppm,
              floorSlice : 0..Ppm, anonShare : 0..Ppm,
              spillStart : 0..(DayLen - 1), spillInterval : 1..DayLen]
LeverType == [cut : Int, anonShare : Int, anonOff : BOOLEAN]

Slices == {"grant", "floor", "standing"}

\* Origins of free lots; minted lots draw when they are minted, never when
\* they are spent.
Origins == {"floor", "standing", "anonymous"}

Lesser(a, b) == IF a <= b THEN a ELSE b
Greater(a, b) == IF a >= b THEN a ELSE b
clamp(v, lo, hi) == Greater(lo, Lesser(v, hi))

mulDiv(a, b, c) == IF a <= 0 \/ b <= 0 \/ c <= 0 THEN 0 ELSE (a * b) \div c
mulDivCeil(a, b, c) ==
    IF a <= 0 \/ b <= 0 \/ c <= 0 THEN 0 ELSE (a * b + c - 1) \div c

sliceOf(o) == IF o = "standing" THEN "standing" ELSE "floor"
other(s) == IF s = "floor" THEN "standing" ELSE "floor"

\* A column of the three slices, and its total.
Sized(g, f, t) == [s \in Slices |-> IF s = "grant" THEN g
                                   ELSE IF s = "floor" THEN f ELSE t]
Sum3(f) == f["grant"] + f["floor"] + f["standing"]

avail(d, s) == d.size[s] - d.claimed[s] - d.lent[s]
allocated(d) == Sum3(d.size)

-----------------------------------------------------------------------------
(***************************************************************************)
(* Sizes.  A lever record lv has the cut-budget lever (cut), the           *)
(* anonymous-shrink lever (anonShare, Ppm when it is not pulled) and       *)
(* whether a lever shuts anonymous subjects out (anonOff).                 *)
(***************************************************************************)

effectiveBudget(rp, lv) ==
    rp.budget - mulDiv(rp.budget, clamp(lv.cut, 0, Ppm), Ppm)

sliceSizes(be, rp) ==
    LET grant == Lesser(be, mulDiv(be, rp.grantShare, Ppm))
        floor == mulDiv(be - grant, rp.floorSlice, Ppm)
    IN  Sized(grant, floor, be - grant - floor)

computeOpen(rp, lv) ==
    LET be == effectiveBudget(rp, lv)
    IN  [be |-> be, size |-> sliceSizes(be, rp),
         claimed |-> Sized(0, 0, 0), lent |-> Sized(0, 0, 0),
         borrowed |-> Sized(0, 0, 0), anon |-> 0, spent |-> 0]

\* adjust goes through the slices three times.  First every slice whose size
\* is over its limit is brought down to it, but only from unspent water, ...
Trimmed(d, lim, s) ==
    d.size[s] - Lesser(Greater(0, d.size[s] - lim[s]), Greater(0, avail(d, s)))

Unspent(d, s, size) == Greater(0, size - d.claimed[s] - d.lent[s])

\* ... then the total is brought within the effective budget, from standing,
\* floor and grant in this order, ...
Shrunk(d, lim, be) ==
    LET g == Trimmed(d, lim, "grant")
        f == Trimmed(d, lim, "floor")
        t == Trimmed(d, lim, "standing")
        need == Greater(0, g + f + t - be)
        x == Lesser(need, Unspent(d, "standing", t))
        y == Lesser(need - x, Unspent(d, "floor", f))
        z == Lesser(need - x - y, Unspent(d, "grant", g))
    IN  Sized(g - z, f - y, t - x)

\* Mutant: the refill forgets that the sizes together must stay in the budget.
RefilledPastBudget(size, lim, be) ==
    Sized(Greater(size["grant"], lim["grant"]), Greater(size["floor"], lim["floor"]),
          Greater(size["standing"], lim["standing"]))

\* ... and what room is left refills grant, floor and standing to their limits.
Refilled(size, lim, be) ==
    LET room == Greater(0, be - Sum3(size))
        x == Lesser(room, Greater(0, lim["grant"] - size["grant"]))
        y == Lesser(room - x, Greater(0, lim["floor"] - size["floor"]))
        z == Lesser(room - x - y, Greater(0, lim["standing"] - size["standing"]))
    IN  Sized(size["grant"] + x, size["floor"] + y, size["standing"] + z)

\* Mutant: the sizes are recomputed whatever was drawn of them.
AdjustRecomputed(d, rp, lv) ==
    LET be == effectiveBudget(rp, lv)
    IN  [d EXCEPT !.be = be, !.size = sliceSizes(be, rp)]

adjust(d, rp, lv) ==
    LET be == effectiveBudget(rp, lv)
        lim == sliceSizes(be, rp)
    IN  [d EXCEPT !.be = be, !.size = Refilled(Shrunk(d, lim, be), lim, be)]

-----------------------------------------------------------------------------
(***************************************************************************)
(* Draws.  tod is the time since the day began.                            *)
(***************************************************************************)

spillPPM(rp, tod) ==
    LET t == Lesser(tod, DayLen - 1)
        k == rp.spillStart
               + ((t - rp.spillStart) \div rp.spillInterval) * rp.spillInterval
    IN  IF t < rp.spillStart THEN 0 ELSE (k * Ppm) \div DayLen

lendable(d, rp, s, tod) ==
    LET keep == mulDivCeil(Greater(0, d.size[s] - d.claimed[s]),
                           Ppm - spillPPM(rp, tod), Ppm)
    IN  Greater(0, avail(d, s) - keep)

drawable(d, rp, o, tod) ==
    LET s == sliceOf(o)
    IN  Greater(0, avail(d, s)) + lendable(d, rp, other(s), tod)

draw(d, rp, o, want, tod) ==
    LET s == sliceOf(o)
        u == other(s)
        own == Lesser(want, Greater(0, avail(d, s)))
        lent == Lesser(want - own, lendable(d, rp, u, tod))
    IN  IF want <= 0 THEN d
        ELSE [d EXCEPT !.claimed[s] = @ + own,
                       !.lent[u] = @ + lent,
                       !.borrowed[s] = @ + lent,
                       !.anon = IF o = "anonymous" THEN @ + own + lent ELSE @]

\* own units of slice s and back units of what s borrowed from u return.
Returned(d, s, u, own, back, anon) ==
    [d EXCEPT !.claimed[s] = @ - own,
              !.lent[u] = @ - back,
              !.borrowed[s] = @ - back,
              !.anon = @ - anon]

undraw(d, o, x) ==
    LET s == sliceOf(o)
        u == other(s)
        back == Lesser(x, Lesser(d.borrowed[s], d.lent[u]))
        own == Lesser(x - back, d.claimed[s])
    IN  Returned(d, s, u, own, back,
                 IF o = "anonymous" THEN Lesser(back + own, d.anon) ELSE 0)

-----------------------------------------------------------------------------
(***************************************************************************)
(* The anonymous share: a capped share is released over the day, a sixth   *)
(* of it at the start and a 24th each hour.                                *)
(***************************************************************************)

anonReleaseStart == 4

anonReleased(rp, lim, tod) ==
    IF rp.anonShare >= Ppm THEN lim
    ELSE Lesser(lim, mulDiv(lim, anonReleaseStart
                                   + clamp(tod \div HourLen, 0, 24), 24))

\* What anonymous lots may have drawn of the day by tod.
AnonCeiling(d, rp, lv, tod) ==
    IF lv.anonOff THEN 0
    ELSE anonReleased(rp, mulDiv(d.be, Lesser(rp.anonShare,
                                              clamp(lv.anonShare, 0, Ppm)), Ppm), tod)

anonRoom(d, rp, lv, tod) == Greater(0, AnonCeiling(d, rp, lv, tod) - d.anon)

\* Mutant: the release to anonymous lots is not checked.
PlanRoomUnpaced(d, rp, lv, o, tod) == drawable(d, rp, o, tod)

\* What planSpend takes at most of a free lot of origin o.
PlanRoom(d, rp, lv, o, tod) ==
    IF o = "anonymous"
    THEN Lesser(drawable(d, rp, o, tod), anonRoom(d, rp, lv, tod))
    ELSE drawable(d, rp, o, tod)
=============================================================================
