--------------------------- MODULE DayPoolsProofs ---------------------------
(***************************************************************************)
(* First what the share rule computes, for every parameter version, lever  *)
(* setting, time of day and day row: sizes within the budget, draws that   *)
(* take exactly what the plan counted on, refunds that return exactly what *)
(* was drawn.  Then the inductive invariant of DayPools, the safety        *)
(* theorems, and what a step may draw.                                     *)
(***************************************************************************)
EXTENDS DayPools, TLAPS

-----------------------------------------------------------------------------
(***************************************************************************)
(* The arithmetic of the share rule.                                       *)
(***************************************************************************)

\* mulDiv by a share of at most the whole is a natural number no larger than
\* what it is a share of.
LEMMA MulDivShare ==
    ASSUME NEW a \in Nat, NEW b \in Int, NEW c \in Nat \ {0}, b <= c
    PROVE  mulDiv(a, b, c) \in 0..a
<1>1. CASE a <= 0 \/ b <= 0
  BY <1>1 DEF mulDiv
<1>2. CASE a > 0 /\ b > 0
  <2>1. a * b \in Nat /\ a * b <= a * c
    BY <1>2
  <2>2. (a * b) \div c \in Nat
    BY <1>2, <2>1
  <2>3. (a * b) \div c <= a
    <3>1. c * ((a * b) \div c) <= a * b
      BY <1>2, <2>1
    <3>2. SUFFICES ASSUME (a * b) \div c >= a + 1 PROVE FALSE
      BY <2>2
    <3>3. c * ((a * b) \div c) >= c * (a + 1)
      BY <2>2, <3>2
    <3>4. c * (a + 1) = a * c + c
      OBVIOUS
    <3> QED BY <2>1, <3>1, <3>3, <3>4
  <2> QED BY <1>2, <2>2, <2>3 DEF mulDiv
<1> QED BY <1>1, <1>2

\* mulDivCeil is a natural number.
LEMMA MulDivCeilType ==
    ASSUME NEW a \in Int, NEW b \in Int, NEW c \in Nat \ {0}
    PROVE  mulDivCeil(a, b, c) \in Nat
<1>1. CASE a <= 0 \/ b <= 0
  BY Zenon, <1>1 DEF mulDivCeil
<1>2. CASE a > 0 /\ b > 0
  <2>1. a * b \in Nat /\ a * b + c - 1 \in Nat
    BY <1>2
  <2> QED BY <1>2, <2>1 DEF mulDivCeil
<1> QED BY <1>1, <1>2

\* Facts about a parameter version and a lever setting, and nothing else of
\* them, are what the lemmas on days use.
LEMMA BudgetType ==
    ASSUME NEW p \in ParamType, NEW l \in LeverType
    PROVE  effectiveBudget(p, l) \in Nat
<1>1. p.budget \in Nat /\ l.cut \in Int
  BY Zenon DEF ParamType, LeverType
<1>2. clamp(l.cut, 0, Ppm) \in Int /\ clamp(l.cut, 0, Ppm) <= Ppm
  BY <1>1, ScaleAssumption DEF clamp, Greater, Lesser
<1>3. mulDiv(p.budget, clamp(l.cut, 0, Ppm), Ppm) \in 0..p.budget
  BY Zenon, <1>1, <1>2, MulDivShare, ScaleAssumption
<1> QED BY <1>1, <1>3 DEF effectiveBudget

\* The columns of a triple of slices.
LEMMA SizedType ==
    ASSUME NEW g, NEW f, NEW t
    PROVE  /\ Sized(g, f, t)["grant"] = g
           /\ Sized(g, f, t)["floor"] = f
           /\ Sized(g, f, t)["standing"] = t
           /\ g \in Nat /\ f \in Nat /\ t \in Nat => Sized(g, f, t) \in [Slices -> Nat]
BY Zenon DEF Sized, Slices

\* The three slices are natural numbers and add up to the effective budget.
LEMMA SliceSizes ==
    ASSUME NEW p \in ParamType, NEW be \in Nat
    PROVE  /\ sliceSizes(be, p) \in [Slices -> Nat]
           /\ Sum3(sliceSizes(be, p)) = be
<1> DEFINE g == Lesser(be, mulDiv(be, p.grantShare, Ppm))
           f == mulDiv(be - g, p.floorSlice, Ppm)
<1>1. p.grantShare \in Int /\ p.grantShare <= Ppm /\ p.floorSlice \in Int /\ p.floorSlice <= Ppm
  BY ScaleAssumption DEF ParamType
<1>2. g \in 0..be
  BY <1>1, MulDivShare, ScaleAssumption DEF Lesser
<1>3. be - g \in Nat
  BY <1>2
<1>4. f \in 0..(be - g)
  <2> HIDE DEF g
  <2> QED BY Zenon, <1>1, <1>3, MulDivShare, ScaleAssumption
<1>5. sliceSizes(be, p) = Sized(g, f, be - g - f)
  BY Zenon DEF sliceSizes
<1> HIDE DEF g, f
<1>6. g \in Nat /\ f \in Nat /\ be - g - f \in Nat
  BY <1>2, <1>4
<1>7. Sum3(Sized(g, f, be - g - f)) = be
  BY <1>6, SizedType DEF Sum3
<1> QED BY <1>5, <1>6, <1>7, SizedType

-----------------------------------------------------------------------------
(***************************************************************************)
(* One day: what adjust, draw and undraw keep of it.                       *)
(***************************************************************************)

DayType == [be : Nat, size : [Slices -> Nat], claimed : [Slices -> Nat],
            lent : [Slices -> Nat], borrowed : [Slices -> Nat],
            anon : Nat, spent : Nat]

Balanced(d) == /\ d.borrowed["floor"] = d.lent["standing"]
               /\ d.borrowed["standing"] = d.lent["floor"]
               /\ d.lent["grant"] = 0
               /\ d.borrowed["grant"] = 0

Sound(d) == /\ d \in DayType
            /\ Balanced(d)
            /\ \A s \in Slices : avail(d, s) >= 0

\* adjust moves no water that was drawn, never shrinks a slice below what was
\* drawn of it, and leaves the sizes within the effective budget unless every
\* slice is dry.
LEMMA AdjustSound ==
    ASSUME NEW d, Sound(d), NEW p \in ParamType, NEW l \in LeverType
    PROVE  LET e == adjust(d, p, l)
           IN  /\ Sound(e)
               /\ e.be = effectiveBudget(p, l)
               /\ e.claimed = d.claimed /\ e.lent = d.lent
               /\ e.borrowed = d.borrowed
               /\ e.anon = d.anon /\ e.spent = d.spent
               /\ allocated(e) <= e.be \/ \A s \in Slices : avail(e, s) = 0
<1> DEFINE be == effectiveBudget(p, l)
           lim == sliceSizes(be, p)
           mid == Shrunk(d, lim, be)
           fin == Refilled(mid, lim, be)
           e == adjust(d, p, l)
<1>1. be \in Nat /\ lim \in [Slices -> Nat] /\ Sum3(lim) = be
  BY Zenon, BudgetType, SliceSizes
<1>2. e = [d EXCEPT !.be = be, !.size = fin]
  BY Zenon DEF adjust
<1> HIDE DEF be, lim
<1>3. /\ lim["grant"] \in Nat /\ lim["floor"] \in Nat /\ lim["standing"] \in Nat
      /\ lim["grant"] + lim["floor"] + lim["standing"] = be
  BY Zenon, <1>1 DEF Sum3, Slices
<1>4. \A s \in Slices : /\ d.size[s] \in Nat /\ d.claimed[s] \in Nat /\ d.lent[s] \in Nat
                        /\ d.size[s] - d.claimed[s] - d.lent[s] >= 0
  BY Zenon DEF Sound, DayType, avail
<1>5. \A s \in Slices :
        /\ Trimmed(d, lim, s) \in Nat
        /\ Trimmed(d, lim, s) >= d.claimed[s] + d.lent[s]
        /\ Trimmed(d, lim, s) > lim[s] => Trimmed(d, lim, s) = d.claimed[s] + d.lent[s]
  <2> SUFFICES ASSUME NEW s \in Slices
               PROVE  /\ Trimmed(d, lim, s) \in Nat
                      /\ Trimmed(d, lim, s) >= d.claimed[s] + d.lent[s]
                      /\ Trimmed(d, lim, s) > lim[s]
                           => Trimmed(d, lim, s) = d.claimed[s] + d.lent[s]
    BY Zenon
  <2> DEFINE z == d.size[s]
             y == d.claimed[s] + d.lent[s]
             m == lim[s]
  <2>1. z \in Nat /\ y \in Nat /\ m \in Nat /\ z >= y /\ avail(d, s) = z - y
    BY <1>1, <1>4 DEF avail
  <2>2. Trimmed(d, lim, s) = z - Lesser(Greater(0, z - m), Greater(0, z - y))
    BY Zenon, <2>1 DEF Trimmed
  <2> HIDE DEF z, y, m
  <2>3. /\ Trimmed(d, lim, s) \in Nat /\ Trimmed(d, lim, s) >= y
        /\ Trimmed(d, lim, s) > m => Trimmed(d, lim, s) = y
    BY <2>1, <2>2 DEF Greater, Lesser
  <2> QED BY Zenon, <2>3 DEF y, m
<1>6. /\ mid \in [Slices -> Nat]
      /\ \A s \in Slices : mid[s] >= d.claimed[s] + d.lent[s]
      /\ \/ Sum3(mid) <= be
         \/ \A s \in Slices : mid[s] = d.claimed[s] + d.lent[s]
  <2> DEFINE g == Trimmed(d, lim, "grant")
             f == Trimmed(d, lim, "floor")
             t == Trimmed(d, lim, "standing")
             need == Greater(0, g + f + t - be)
             x == Lesser(need, Unspent(d, "standing", t))
             y == Lesser(need - x, Unspent(d, "floor", f))
             z == Lesser(need - x - y, Unspent(d, "grant", g))
  <2>1. mid = Sized(g - z, f - y, t - x)
    BY Zenon DEF Shrunk
  <2>2. /\ g \in Nat /\ g >= d.claimed["grant"] + d.lent["grant"]
        /\ f \in Nat /\ f >= d.claimed["floor"] + d.lent["floor"]
        /\ t \in Nat /\ t >= d.claimed["standing"] + d.lent["standing"]
    BY Zenon, <1>5 DEF Slices
  <2>3. /\ d.claimed["grant"] \in Nat /\ d.lent["grant"] \in Nat
        /\ d.claimed["floor"] \in Nat /\ d.lent["floor"] \in Nat
        /\ d.claimed["standing"] \in Nat /\ d.lent["standing"] \in Nat
    BY Zenon, <1>4 DEF Slices
  <2> HIDE DEF g, f, t
  <2>4. need \in Nat /\ need >= g + f + t - be /\ (need > 0 => need = g + f + t - be)
    BY <1>1, <2>2 DEF Greater
  <2> HIDE DEF need
  <2>5. /\ x \in Nat /\ x <= need
        /\ x <= t - d.claimed["standing"] - d.lent["standing"]
        /\ x = need \/ x = t - d.claimed["standing"] - d.lent["standing"]
    BY <2>2, <2>3, <2>4 DEF Lesser, Unspent, Greater
  <2> HIDE DEF x
  <2>6. /\ y \in Nat /\ y <= need - x
        /\ y <= f - d.claimed["floor"] - d.lent["floor"]
        /\ y = need - x \/ y = f - d.claimed["floor"] - d.lent["floor"]
    BY <2>2, <2>3, <2>4, <2>5 DEF Lesser, Unspent, Greater
  <2> HIDE DEF y
  <2>7. /\ z \in Nat /\ z <= need - x - y
        /\ z <= g - d.claimed["grant"] - d.lent["grant"]
        /\ z = need - x - y \/ z = g - d.claimed["grant"] - d.lent["grant"]
    BY <2>2, <2>3, <2>4, <2>5, <2>6 DEF Lesser, Unspent, Greater
  <2> HIDE DEF z
  <2>8. /\ g - z \in Nat /\ g - z >= d.claimed["grant"] + d.lent["grant"]
        /\ f - y \in Nat /\ f - y >= d.claimed["floor"] + d.lent["floor"]
        /\ t - x \in Nat /\ t - x >= d.claimed["standing"] + d.lent["standing"]
    BY <2>2, <2>3, <2>5, <2>6, <2>7
  <2>9. \/ (g - z) + (f - y) + (t - x) <= be
        \/ /\ g - z = d.claimed["grant"] + d.lent["grant"]
           /\ f - y = d.claimed["floor"] + d.lent["floor"]
           /\ t - x = d.claimed["standing"] + d.lent["standing"]
    BY <1>1, <2>2, <2>3, <2>4, <2>5, <2>6, <2>7
  <2>10. mid["grant"] = g - z /\ mid["floor"] = f - y /\ mid["standing"] = t - x
    BY <2>1, SizedType
  <2>11. mid \in [Slices -> Nat]
    BY <2>1, <2>8, SizedType
  <2> HIDE DEF mid
  <2> QED BY Zenon, <2>8, <2>9, <2>10, <2>11 DEF Sum3, Slices
<1> HIDE DEF mid
<1>7. /\ fin \in [Slices -> Nat]
      /\ \A s \in Slices : fin[s] >= mid[s]
      /\ Sum3(fin) <= be \/ \A s \in Slices : fin[s] = mid[s]
      /\ Sum3(mid) <= be => Sum3(fin) <= be
  <2> DEFINE room == Greater(0, be - Sum3(mid))
             x == Lesser(room, Greater(0, lim["grant"] - mid["grant"]))
             y == Lesser(room - x, Greater(0, lim["floor"] - mid["floor"]))
             z == Lesser(room - x - y, Greater(0, lim["standing"] - mid["standing"]))
  <2>1. fin = Sized(mid["grant"] + x, mid["floor"] + y, mid["standing"] + z)
    BY Zenon DEF Refilled
  <2>2. /\ mid["grant"] \in Nat /\ mid["floor"] \in Nat /\ mid["standing"] \in Nat
        /\ Sum3(mid) = mid["grant"] + mid["floor"] + mid["standing"]
    BY Zenon, <1>6 DEF Sum3, Slices
  <2>3. /\ room \in Nat
        /\ Sum3(mid) <= be => room = be - Sum3(mid)
        /\ Sum3(mid) > be => room = 0
    BY <1>1, <2>2 DEF Greater
  <2> HIDE DEF room
  <2>4. x \in Nat /\ x <= room
    BY <1>3, <2>2, <2>3 DEF Lesser, Greater
  <2> HIDE DEF x
  <2>5. y \in Nat /\ y <= room - x
    BY <1>3, <2>2, <2>3, <2>4 DEF Lesser, Greater
  <2> HIDE DEF y
  <2>6. z \in Nat /\ z <= room - x - y
    BY <1>3, <2>2, <2>3, <2>4, <2>5 DEF Lesser, Greater
  <2> HIDE DEF z
  <2>7. fin \in [Slices -> Nat]
    BY <2>1, <2>2, <2>4, <2>5, <2>6, SizedType
  <2>8. /\ fin["grant"] = mid["grant"] + x /\ fin["floor"] = mid["floor"] + y
        /\ fin["standing"] = mid["standing"] + z
    BY <2>1, SizedType
  <2> HIDE DEF fin
  <2>9. Sum3(fin) = Sum3(mid) + x + y + z
    BY <2>2, <2>4, <2>5, <2>6, <2>8 DEF Sum3
  <2> QED BY <1>1, <2>2, <2>3, <2>4, <2>5, <2>6, <2>7, <2>8, <2>9 DEF Slices
<1> HIDE DEF fin
<1>8. /\ e \in DayType /\ e.be = be /\ e.size = fin
      /\ e.claimed = d.claimed /\ e.lent = d.lent /\ e.borrowed = d.borrowed
      /\ e.anon = d.anon /\ e.spent = d.spent
  BY ZenonT(30), <1>1, <1>2, <1>7 DEF Sound, DayType
<1> HIDE DEF e
<1>9. \A s \in Slices : avail(e, s) >= 0
  BY <1>4, <1>6, <1>7, <1>8 DEF avail
<1>10. allocated(e) <= e.be \/ \A s \in Slices : avail(e, s) = 0
  BY <1>4, <1>6, <1>7, <1>8 DEF avail, allocated
<1>11. Balanced(e)
  BY Zenon, <1>8 DEF Sound, Balanced
<1> QED BY Zenon, <1>8, <1>9, <1>10, <1>11 DEF Sound, be, e

\* A day opens sound, with nothing drawn.
LEMMA OpenSound ==
    ASSUME NEW p \in ParamType, NEW l \in LeverType
    PROVE  LET d == computeOpen(p, l)
           IN  /\ Sound(d)
               /\ d.anon = 0 /\ d.spent = 0
               /\ \A s \in Slices : d.claimed[s] = 0 /\ d.lent[s] = 0 /\ d.borrowed[s] = 0
<1> DEFINE be == effectiveBudget(p, l)
           d == computeOpen(p, l)
           z == Sized(0, 0, 0)
<1>1. be \in Nat /\ sliceSizes(be, p) \in [Slices -> Nat]
  BY Zenon, BudgetType, SliceSizes
<1>2. z \in [Slices -> Nat] /\ \A s \in Slices : z[s] = 0
  BY SizedType DEF Slices
<1>3. d = [be |-> be, size |-> sliceSizes(be, p), claimed |-> z, lent |-> z,
           borrowed |-> z, anon |-> 0, spent |-> 0]
  BY Zenon DEF computeOpen
<1> HIDE DEF be, d, z
<1>4. /\ d \in DayType /\ d.size = sliceSizes(be, p) /\ d.claimed = z /\ d.lent = z
      /\ d.borrowed = z /\ d.anon = 0 /\ d.spent = 0
  BY Zenon, <1>1, <1>2, <1>3 DEF DayType
<1>5. Balanced(d)
  BY Zenon, <1>2, <1>4 DEF Balanced, Slices
<1>6. \A s \in Slices : avail(d, s) >= 0
  BY <1>1, <1>2, <1>4 DEF avail
<1> QED BY Zenon, <1>2, <1>4, <1>5, <1>6 DEF Sound, d

\* A slice lends no more than it has.
LEMMA LendableBound ==
    ASSUME NEW d, Sound(d), NEW p \in ParamType, NEW s \in Slices, NEW t \in Nat
    PROVE  lendable(d, p, s, t) \in 0..avail(d, s)
<1> DEFINE keep == mulDivCeil(Greater(0, d.size[s] - d.claimed[s]),
                              Ppm - spillPPM(p, t), Ppm)
<1>1. d.size[s] \in Nat /\ d.claimed[s] \in Nat /\ d.lent[s] \in Nat
  BY Zenon DEF Sound, DayType
<1>2. p.spillStart \in Nat /\ p.spillInterval \in Nat \ {0}
  BY ScaleAssumption DEF ParamType
<1>3. spillPPM(p, t) \in Int
  <2> DEFINE u == Lesser(t, DayLen - 1)
  <2>1. u \in Int
    BY ScaleAssumption DEF Lesser
  <2> HIDE DEF u
  <2>2. (u - p.spillStart) \div p.spillInterval \in Int
    BY <1>2, <2>1
  <2>3. ((u - p.spillStart) \div p.spillInterval) * p.spillInterval \in Int
    BY <1>2, <2>2
  <2>4. (p.spillStart + ((u - p.spillStart) \div p.spillInterval) * p.spillInterval) * Ppm \in Int
    BY <1>2, <2>3, ScaleAssumption
  <2>5. ((p.spillStart + ((u - p.spillStart) \div p.spillInterval) * p.spillInterval) * Ppm)
           \div DayLen \in Int
    BY <2>4, ScaleAssumption
  <2> QED BY <2>5 DEF spillPPM, u
<1>4. keep \in Nat
  <2>1. Greater(0, d.size[s] - d.claimed[s]) \in Int /\ Ppm - spillPPM(p, t) \in Int
    BY <1>1, <1>3, ScaleAssumption DEF Greater
  <2> QED BY Zenon, <2>1, MulDivCeilType, ScaleAssumption
<1>5. avail(d, s) \in Nat
  BY <1>1 DEF Sound, avail
<1>6. lendable(d, p, s, t) = Greater(0, avail(d, s) - keep)
  BY Zenon DEF lendable
<1> HIDE DEF keep
<1> QED BY <1>4, <1>5, <1>6 DEF Greater

\* What a draw within drawable takes is exactly what was wanted, from the
\* slice of the lot's origin and what the other slice lends.
LEMMA DrawExact ==
    ASSUME NEW d, Sound(d), NEW p \in ParamType, NEW o \in Origins,
           NEW want \in Nat, NEW t \in Nat, want <= drawable(d, p, o, t)
    PROVE  LET e == draw(d, p, o, want, t)
               s == sliceOf(o)
               u == other(s)
           IN  /\ Sound(e)
               /\ e.be = d.be /\ e.size = d.size /\ e.spent = d.spent
               /\ e.claimed["grant"] = d.claimed["grant"]
               /\ e.claimed[s] + e.borrowed[s] = d.claimed[s] + d.borrowed[s] + want
               /\ e.claimed[u] + e.borrowed[u] = d.claimed[u] + d.borrowed[u]
               /\ e.anon = d.anon + (IF o = "anonymous" THEN want ELSE 0)
<1> DEFINE s == sliceOf(o)
           u == other(s)
           own == Lesser(want, Greater(0, avail(d, s)))
           lent == Lesser(want - own, lendable(d, p, u, t))
           e == draw(d, p, o, want, t)
<1>1. CASE want = 0
  <2>1. e = d
    BY <1>1 DEF draw
  <2>2. /\ d.claimed[s] \in Nat /\ d.borrowed[s] \in Nat /\ d.anon \in Nat
    BY Zenon DEF Sound, DayType, sliceOf, Slices
  <2> QED BY <1>1, <2>1, <2>2
<1>2. CASE want > 0
  <2>1. /\ s \in Slices /\ u \in Slices /\ s # u /\ s # "grant" /\ u # "grant"
        /\ (s = "floor" /\ u = "standing") \/ (s = "standing" /\ u = "floor")
    BY Zenon DEF sliceOf, other, Slices
  <2>2. e = [d EXCEPT !.claimed[s] = @ + own, !.lent[u] = @ + lent,
                      !.borrowed[s] = @ + lent,
                      !.anon = IF o = "anonymous" THEN @ + own + lent ELSE @]
    BY <1>2 DEF draw
  <2>3. lendable(d, p, u, t) \in 0..avail(d, u)
    BY Zenon, <2>1, LendableBound
  <2>4. /\ d \in DayType /\ avail(d, s) >= 0 /\ avail(d, u) >= 0
        /\ d.claimed[s] \in Nat /\ d.lent[s] \in Nat /\ d.borrowed[s] \in Nat /\ d.size[s] \in Nat
        /\ d.claimed[u] \in Nat /\ d.lent[u] \in Nat /\ d.borrowed[u] \in Nat /\ d.size[u] \in Nat
        /\ d.anon \in Nat
    BY Zenon, <2>1 DEF Sound, DayType
  <2>5. avail(d, s) \in Nat /\ avail(d, u) \in Nat
    BY <2>4 DEF avail
  <2>6. want <= avail(d, s) + lendable(d, p, u, t)
    BY <2>3, <2>5 DEF drawable, Greater
  <2>7. /\ own \in Nat /\ lent \in Nat /\ own + lent = want
        /\ own <= avail(d, s) /\ lent <= avail(d, u)
    BY <2>3, <2>5, <2>6 DEF Lesser, Greater
  <2> HIDE DEF own, lent, s, u, e
  <2>8. /\ e \in DayType
        /\ e.be = d.be /\ e.size = d.size /\ e.spent = d.spent
        /\ e.claimed = [d.claimed EXCEPT ![s] = @ + own]
        /\ e.lent = [d.lent EXCEPT ![u] = @ + lent]
        /\ e.borrowed = [d.borrowed EXCEPT ![s] = @ + lent]
        /\ e.anon = IF o = "anonymous" THEN d.anon + own + lent ELSE d.anon
    <3> DEFINE an == IF o = "anonymous" THEN d.anon + own + lent ELSE d.anon
    <3>1. an \in Nat
      BY <2>4, <2>7
    <3>2. /\ [d.claimed EXCEPT ![s] = @ + own] \in [Slices -> Nat]
          /\ [d.lent EXCEPT ![u] = @ + lent] \in [Slices -> Nat]
          /\ [d.borrowed EXCEPT ![s] = @ + lent] \in [Slices -> Nat]
      BY <2>1, <2>4, <2>7 DEF DayType
    <3>3. e = [d EXCEPT !.claimed = [d.claimed EXCEPT ![s] = @ + own],
                        !.lent = [d.lent EXCEPT ![u] = @ + lent],
                        !.borrowed = [d.borrowed EXCEPT ![s] = @ + lent], !.anon = an]
      BY Zenon, <2>2, <2>4 DEF DayType
    <3> HIDE DEF an
    <3>4. /\ e \in DayType
          /\ e.be = d.be /\ e.size = d.size /\ e.spent = d.spent
          /\ e.claimed = [d.claimed EXCEPT ![s] = @ + own]
          /\ e.lent = [d.lent EXCEPT ![u] = @ + lent]
          /\ e.borrowed = [d.borrowed EXCEPT ![s] = @ + lent]
          /\ e.anon = an
      BY ZenonT(30), <2>4, <3>1, <3>2, <3>3 DEF DayType
    <3> QED BY Zenon, <3>4 DEF an
  <2>9. /\ e.claimed[s] = d.claimed[s] + own /\ e.claimed[u] = d.claimed[u]
        /\ e.claimed["grant"] = d.claimed["grant"]
        /\ e.lent[u] = d.lent[u] + lent /\ e.lent[s] = d.lent[s] /\ e.lent["grant"] = d.lent["grant"]
        /\ e.borrowed[s] = d.borrowed[s] + lent /\ e.borrowed[u] = d.borrowed[u]
        /\ e.borrowed["grant"] = d.borrowed["grant"]
    BY Zenon, <2>1, <2>4, <2>8 DEF DayType, Slices
  <2>10. Balanced(e)
    BY Zenon, <2>1, <2>9 DEF Sound, Balanced
  <2>11. avail(e, s) = avail(d, s) - own /\ avail(e, u) = avail(d, u) - lent
         /\ avail(e, "grant") = avail(d, "grant")
    BY <2>4, <2>7, <2>8, <2>9 DEF avail
  <2>12. \A x \in Slices : avail(e, x) >= 0
    BY <2>1, <2>5, <2>7, <2>11 DEF Sound, Slices
  <2>13. Sound(e)
    BY Zenon, <2>8, <2>10, <2>12 DEF Sound
  <2>14. e.anon = d.anon + (IF o = "anonymous" THEN want ELSE 0)
    BY SMTT(30), <2>4, <2>7, <2>8
  <2> QED BY <2>4, <2>7, <2>8, <2>9, <2>13, <2>14 DEF s, u, e
<1> QED BY <1>1, <1>2

\* An undraw of no more than was drawn returns exactly that much.
LEMMA UndrawExact ==
    ASSUME NEW d, Sound(d), NEW o \in Origins, NEW x \in Nat,
           x <= d.claimed[sliceOf(o)] + d.borrowed[sliceOf(o)],
           o = "anonymous" => x <= d.anon
    PROVE  LET e == undraw(d, o, x)
               s == sliceOf(o)
               u == other(s)
           IN  /\ Sound(e)
               /\ e.be = d.be /\ e.size = d.size /\ e.spent = d.spent
               /\ e.claimed["grant"] = d.claimed["grant"]
               /\ e.claimed[s] + e.borrowed[s] = d.claimed[s] + d.borrowed[s] - x
               /\ e.claimed[u] + e.borrowed[u] = d.claimed[u] + d.borrowed[u]
               /\ e.anon = d.anon - (IF o = "anonymous" THEN x ELSE 0)
<1> DEFINE s == sliceOf(o)
           u == other(s)
           back == Lesser(x, Lesser(d.borrowed[s], d.lent[u]))
           own == Lesser(x - back, d.claimed[s])
           anon == IF o = "anonymous" THEN Lesser(back + own, d.anon) ELSE 0
           e == undraw(d, o, x)
<1>1. /\ s \in Slices /\ u \in Slices /\ s # u /\ s # "grant" /\ u # "grant"
      /\ (s = "floor" /\ u = "standing") \/ (s = "standing" /\ u = "floor")
  BY Zenon DEF sliceOf, other, Slices
<1>2. /\ d \in DayType /\ avail(d, s) >= 0 /\ avail(d, u) >= 0
      /\ d.claimed[s] \in Nat /\ d.lent[s] \in Nat /\ d.borrowed[s] \in Nat /\ d.size[s] \in Nat
      /\ d.claimed[u] \in Nat /\ d.lent[u] \in Nat /\ d.borrowed[u] \in Nat /\ d.size[u] \in Nat
      /\ d.anon \in Nat
  BY Zenon, <1>1 DEF Sound, DayType
<1>3. e = Returned(d, s, u, own, back, anon)
  BY Zenon DEF undraw
<1>4. d.borrowed[s] = d.lent[u]
  BY Zenon, <1>1 DEF Sound, Balanced
<1>5. x <= d.claimed[s] + d.borrowed[s]
  BY Zenon
<1>6. /\ back \in Nat /\ own \in Nat /\ back + own = x
      /\ back <= d.lent[u] /\ back <= d.borrowed[s] /\ own <= d.claimed[s]
  BY <1>2, <1>4, <1>5 DEF Lesser
<1> HIDE DEF back, own, s, u, e
<1>7. anon = (IF o = "anonymous" THEN x ELSE 0) /\ d.anon - anon \in Nat
  BY <1>2, <1>6 DEF Lesser
<1>8. /\ [d.claimed EXCEPT ![s] = @ - own] \in [Slices -> Nat]
      /\ [d.lent EXCEPT ![u] = @ - back] \in [Slices -> Nat]
      /\ [d.borrowed EXCEPT ![s] = @ - back] \in [Slices -> Nat]
  BY <1>1, <1>2, <1>6 DEF DayType
<1>9. /\ e \in DayType
      /\ e.be = d.be /\ e.size = d.size /\ e.spent = d.spent
      /\ e.claimed = [d.claimed EXCEPT ![s] = @ - own]
      /\ e.lent = [d.lent EXCEPT ![u] = @ - back]
      /\ e.borrowed = [d.borrowed EXCEPT ![s] = @ - back]
      /\ e.anon = d.anon - anon
  <2>1. e = [d EXCEPT !.claimed = [d.claimed EXCEPT ![s] = @ - own],
                      !.lent = [d.lent EXCEPT ![u] = @ - back],
                      !.borrowed = [d.borrowed EXCEPT ![s] = @ - back], !.anon = @ - anon]
    BY Zenon, <1>2, <1>3 DEF DayType, Returned
  <2> HIDE DEF anon
  <2> QED BY ZenonT(30), <1>2, <1>7, <1>8, <2>1 DEF DayType
<1> HIDE DEF anon
<1>10. /\ e.claimed[s] = d.claimed[s] - own /\ e.claimed[u] = d.claimed[u]
       /\ e.claimed["grant"] = d.claimed["grant"]
       /\ e.lent[u] = d.lent[u] - back /\ e.lent[s] = d.lent[s] /\ e.lent["grant"] = d.lent["grant"]
       /\ e.borrowed[s] = d.borrowed[s] - back /\ e.borrowed[u] = d.borrowed[u]
       /\ e.borrowed["grant"] = d.borrowed["grant"]
  BY Zenon, <1>1, <1>2, <1>9 DEF DayType, Slices
<1>11. Balanced(e)
  BY Zenon, <1>1, <1>10 DEF Sound, Balanced
<1>12. avail(e, s) = avail(d, s) + own /\ avail(e, u) = avail(d, u) + back
       /\ avail(e, "grant") = avail(d, "grant")
  <2>1. /\ avail(e, s) = d.size[s] - (d.claimed[s] - own) - d.lent[s]
        /\ avail(e, u) = d.size[u] - d.claimed[u] - (d.lent[u] - back)
        /\ avail(e, "grant") = avail(d, "grant")
    BY Zenon, <1>9, <1>10 DEF avail
  <2>2. /\ avail(d, s) = d.size[s] - d.claimed[s] - d.lent[s]
        /\ avail(d, u) = d.size[u] - d.claimed[u] - d.lent[u]
    BY Zenon DEF avail
  <2> QED BY <1>2, <1>6, <2>1, <2>2
<1>13. avail(d, s) \in Int /\ avail(d, u) \in Int
  BY <1>2 DEF avail
<1>14. \A y \in Slices : avail(e, y) >= 0
  BY <1>1, <1>2, <1>6, <1>12, <1>13 DEF Sound, Slices
<1>15. Sound(e)
  BY Zenon, <1>9, <1>11, <1>14 DEF Sound
<1> QED BY <1>2, <1>6, <1>7, <1>9, <1>10, <1>15 DEF s, u, e

\* What the free units of a day's floor and standing slices come to: their
\* own draws and what they borrowed.
FloorDrawn(d) == d.claimed["floor"] + d.borrowed["floor"]
StandingDrawn(d) == d.claimed["standing"] + d.borrowed["standing"]

\* The part of n units of origin o that goes to the standing slice, to the
\* floor slice, and to the anonymous column.
OfStanding(o, n) == IF o = "standing" THEN n ELSE 0
OfFloor(o, n) == IF o = "standing" THEN 0 ELSE n
OfAnon(o, n) == IF o = "anonymous" THEN n ELSE 0

\* What anonymous lots may draw is a natural number, whatever the levers say.
LEMMA AnonCeilingType ==
    ASSUME NEW d, Sound(d), NEW p \in ParamType, NEW l \in LeverType, NEW t \in Nat
    PROVE  AnonCeiling(d, p, l, t) \in Nat /\ anonRoom(d, p, l, t) \in Nat
<1> DEFINE share == Lesser(p.anonShare, clamp(l.anonShare, 0, Ppm))
           lim == mulDiv(d.be, share, Ppm)
           num == anonReleaseStart + clamp(t \div HourLen, 0, 24)
<1>1. share \in Int /\ share <= Ppm /\ d.be \in Nat /\ d.anon \in Nat
  BY ScaleAssumption DEF ParamType, LeverType, clamp, Lesser, Greater, Sound, DayType
<1> HIDE DEF share
<1>2. lim \in Nat
  BY <1>1, MulDivShare, ScaleAssumption
<1>3. num \in Nat
  <2>1. t \div HourLen \in Int
    BY ScaleAssumption
  <2> QED BY <2>1 DEF clamp, Lesser, Greater, anonReleaseStart
<1> HIDE DEF lim, num
<1>4. mulDiv(lim, num, 24) \in Nat
  <2>1. lim * num \in Nat
    BY <1>2, <1>3
  <2> QED BY <1>2, <1>3, <2>1 DEF mulDiv
<1>5. anonReleased(p, lim, t) \in Nat
  BY Zenon, <1>2, <1>4 DEF anonReleased, num, Lesser
<1>6. AnonCeiling(d, p, l, t) \in Nat
  BY Zenon, <1>5 DEF AnonCeiling, lim, share
<1> QED BY <1>1, <1>6 DEF anonRoom, Greater

\* What an origin may draw is a natural number.
LEMMA DrawableType ==
    ASSUME NEW d, Sound(d), NEW p \in ParamType, NEW o \in Origins, NEW t \in Nat
    PROVE  drawable(d, p, o, t) \in Nat
<1>1. sliceOf(o) \in Slices /\ other(sliceOf(o)) \in Slices
  BY Zenon DEF sliceOf, other, Slices
<1>2. avail(d, sliceOf(o)) \in Int /\ avail(d, other(sliceOf(o))) \in Int
  BY <1>1 DEF Sound, DayType, avail
<1>3. lendable(d, p, other(sliceOf(o)), t) \in Nat
  BY <1>1, <1>2, LendableBound
<1> QED BY <1>2, <1>3 DEF drawable, Greater

\* A dry day has no room for any origin.
LEMMA DryRoom ==
    ASSUME NEW d, Sound(d), NEW p \in ParamType, NEW l \in LeverType, NEW o \in Origins,
           NEW t \in Nat, \A s \in Slices : avail(d, s) = 0
    PROVE  PlanRoom(d, p, l, o, t) \in Int /\ PlanRoom(d, p, l, o, t) <= 0
<1>1. sliceOf(o) \in Slices /\ other(sliceOf(o)) \in Slices
  BY Zenon DEF sliceOf, other, Slices
<1>2. avail(d, sliceOf(o)) = 0 /\ avail(d, other(sliceOf(o))) = 0
  BY Zenon, <1>1
<1>3. lendable(d, p, other(sliceOf(o)), t) = 0
  BY <1>1, <1>2, LendableBound
<1>4. drawable(d, p, o, t) = 0
  BY <1>2, <1>3 DEF drawable, Greater
<1>5. anonRoom(d, p, l, t) \in Nat
  BY Zenon, AnonCeilingType
<1> QED BY <1>4, <1>5 DEF PlanRoom, Lesser

\* A draw within the plan's room, in these terms.
LEMMA DrawTotals ==
    ASSUME NEW d, Sound(d), NEW p \in ParamType, NEW l \in LeverType,
           NEW o \in Origins, NEW want \in Nat, NEW t \in Nat,
           want <= PlanRoom(d, p, l, o, t)
    PROVE  LET e == draw(d, p, o, want, t)
           IN  /\ Sound(e)
               /\ e.be = d.be /\ e.size = d.size /\ e.spent = d.spent
               /\ e.claimed["grant"] = d.claimed["grant"]
               /\ FloorDrawn(e) = FloorDrawn(d) + OfFloor(o, want)
               /\ StandingDrawn(e) = StandingDrawn(d) + OfStanding(o, want)
               /\ e.anon = d.anon + OfAnon(o, want)
<1> DEFINE e == draw(d, p, o, want, t)
<1>1. want <= drawable(d, p, o, t)
  <2>4. drawable(d, p, o, t) \in Int
    BY DrawableType
  <2>5. CASE o # "anonymous"
    BY Zenon, <2>5 DEF PlanRoom
  <2>6. CASE o = "anonymous"
    <3>1. want <= Lesser(drawable(d, p, o, t), anonRoom(d, p, l, t))
      BY Zenon, <2>6 DEF PlanRoom
    <3>2. anonRoom(d, p, l, t) \in Nat
      BY Zenon, AnonCeilingType
    <3> QED BY <2>4, <3>1, <3>2 DEF Lesser
  <2> QED BY Zenon, <2>5, <2>6
<1>2. /\ Sound(e)
      /\ e.be = d.be /\ e.size = d.size /\ e.spent = d.spent
      /\ e.claimed["grant"] = d.claimed["grant"]
      /\ e.claimed[sliceOf(o)] + e.borrowed[sliceOf(o)]
            = d.claimed[sliceOf(o)] + d.borrowed[sliceOf(o)] + want
      /\ e.claimed[other(sliceOf(o))] + e.borrowed[other(sliceOf(o))]
            = d.claimed[other(sliceOf(o))] + d.borrowed[other(sliceOf(o))]
      /\ e.anon = d.anon + (IF o = "anonymous" THEN want ELSE 0)
  BY ZenonT(30), <1>1, DrawExact
<1>3. /\ FloorDrawn(d) \in Nat /\ StandingDrawn(d) \in Nat
  BY DEF Sound, DayType, Slices, FloorDrawn, StandingDrawn
<1> HIDE DEF e
<1>4. /\ FloorDrawn(e) = FloorDrawn(d) + OfFloor(o, want)
      /\ StandingDrawn(e) = StandingDrawn(d) + OfStanding(o, want)
      /\ e.anon = d.anon + OfAnon(o, want)
  BY <1>2, <1>3 DEF sliceOf, other, FloorDrawn, StandingDrawn, OfFloor, OfStanding, OfAnon
<1> QED BY Zenon, <1>2, <1>4 DEF e

\* An undraw of no more than was drawn, in the same terms.
LEMMA UndrawTotals ==
    ASSUME NEW d, Sound(d), NEW o \in Origins, NEW x \in Nat,
           OfFloor(o, x) <= FloorDrawn(d), OfStanding(o, x) <= StandingDrawn(d),
           OfAnon(o, x) <= d.anon
    PROVE  LET e == undraw(d, o, x)
           IN  /\ Sound(e)
               /\ e.be = d.be /\ e.size = d.size /\ e.spent = d.spent
               /\ e.claimed["grant"] = d.claimed["grant"]
               /\ FloorDrawn(e) = FloorDrawn(d) - OfFloor(o, x)
               /\ StandingDrawn(e) = StandingDrawn(d) - OfStanding(o, x)
               /\ e.anon = d.anon - OfAnon(o, x)
<1> DEFINE e == undraw(d, o, x)
<1>1. /\ x <= d.claimed[sliceOf(o)] + d.borrowed[sliceOf(o)]
      /\ o = "anonymous" => x <= d.anon
  BY Zenon DEF sliceOf, FloorDrawn, StandingDrawn, OfFloor, OfStanding, OfAnon
<1>2. /\ Sound(e)
      /\ e.be = d.be /\ e.size = d.size /\ e.spent = d.spent
      /\ e.claimed["grant"] = d.claimed["grant"]
      /\ e.claimed[sliceOf(o)] + e.borrowed[sliceOf(o)]
            = d.claimed[sliceOf(o)] + d.borrowed[sliceOf(o)] - x
      /\ e.claimed[other(sliceOf(o))] + e.borrowed[other(sliceOf(o))]
            = d.claimed[other(sliceOf(o))] + d.borrowed[other(sliceOf(o))]
      /\ e.anon = d.anon - (IF o = "anonymous" THEN x ELSE 0)
  BY Zenon, <1>1, UndrawExact
<1>3. /\ d.claimed["floor"] \in Nat /\ d.borrowed["floor"] \in Nat
      /\ d.claimed["standing"] \in Nat /\ d.borrowed["standing"] \in Nat
      /\ e.claimed["floor"] \in Nat /\ e.borrowed["floor"] \in Nat
      /\ e.claimed["standing"] \in Nat /\ e.borrowed["standing"] \in Nat
  BY Zenon, <1>2 DEF Sound, DayType, Slices
<1> HIDE DEF e
<1>4. /\ FloorDrawn(e) = FloorDrawn(d) - OfFloor(o, x)
      /\ StandingDrawn(e) = StandingDrawn(d) - OfStanding(o, x)
      /\ e.anon = d.anon - OfAnon(o, x)
  <2>1. e.anon = d.anon - OfAnon(o, x)
    BY Zenon, <1>2 DEF OfAnon
  <2>2. CASE o = "standing"
    BY <1>2, <1>3, <2>1, <2>2
       DEF sliceOf, other, FloorDrawn, StandingDrawn, OfFloor, OfStanding
  <2>3. CASE o # "standing"
    BY <1>2, <1>3, <2>1, <2>3
       DEF sliceOf, other, FloorDrawn, StandingDrawn, OfFloor, OfStanding
  <2> QED BY Zenon, <2>2, <2>3
<1> QED BY Zenon, <1>2, <1>4 DEF e

-----------------------------------------------------------------------------
(***************************************************************************)
(* The inductive invariant.  Besides the invariants of DayPools it says    *)
(* that a day that has not opened has an empty row, so opening it loses    *)
(* nothing that was drawn.                                                 *)
(***************************************************************************)

Inv == /\ TypeOK
       /\ LendingBalanced
       /\ DrawsAccounted
       /\ SpendAccounted
       /\ NoSliceOverdrawn
       /\ \A d \in Days \ opened : days[d] = NoDay

\* Division by a positive number is monotone.
LEMMA DivMonotone ==
    ASSUME NEW a \in Nat, NEW b \in Nat, NEW c \in Nat \ {0}, a <= b
    PROVE  a \div c \in 0..(b \div c)
<1>1. /\ a \div c \in Nat /\ b \div c \in Nat
      /\ c * (a \div c) <= a /\ b < c * (b \div c) + c
  OBVIOUS
<1>2. SUFFICES ASSUME a \div c >= (b \div c) + 1 PROVE FALSE
  BY <1>1
<1>3. c * (a \div c) >= c * ((b \div c) + 1)
  BY <1>1, <1>2
<1>4. c * ((b \div c) + 1) = c * (b \div c) + c
  BY <1>1
<1> QED BY <1>1, <1>3, <1>4

\* Today is a day of the model, and the parameters and levers are well formed.
LEMMA Today ==
    ASSUME TypeOK
    PROVE  today \in Days /\ tod \in Nat /\ rp \in ParamType /\ lv \in LeverType
<1>1. now \in Nat /\ now <= Horizon /\ Horizon \in Nat
  BY PoolsAssumption DEF TypeOK
<1>2. now \div DayLen \in 0..(Horizon \div DayLen)
  BY Zenon, <1>1, DivMonotone, ScaleAssumption
<1>3. now % DayLen \in Nat
  BY <1>1, ScaleAssumption
<1> QED BY Zenon, <1>2, <1>3, PoolsAssumption DEF TypeOK, today, tod, Days

\* The invariant of one day, in the terms of the lemmas above.
LEMMA InvDay ==
    ASSUME Inv, NEW d \in Days
    PROVE  Sound(days[d]) /\ (d \notin opened => days[d] = NoDay)
BY Zenon DEF Inv, TypeOK, LendingBalanced, NoSliceOverdrawn, Sound, Balanced, DayType

\* The same after a step.
LEMMA InvDayNext ==
    ASSUME Inv', NEW d \in Days
    PROVE  Sound(days'[d])
BY Zenon DEF Inv, TypeOK, LendingBalanced, NoSliceOverdrawn, Sound, Balanced, DayType, avail

\* The day every write works on: what was drawn of it is untouched, and its
\* sizes are within the effective budget unless it is dry.
LEMMA OpenDay ==
    ASSUME Inv
    PROVE  /\ Sound(open)
           /\ open.be = effectiveBudget(rp, lv)
           /\ open.claimed = days[today].claimed /\ open.lent = days[today].lent
           /\ open.borrowed = days[today].borrowed
           /\ open.anon = days[today].anon /\ open.spent = days[today].spent
           /\ allocated(open) <= open.be \/ \A s \in Slices : avail(open, s) = 0
<1> DEFINE d == IF today \in opened THEN days[today] ELSE computeOpen(rp, lv)
<1>1. today \in Days /\ rp \in ParamType /\ lv \in LeverType
  BY Zenon, Today DEF Inv
<1>2. /\ Sound(d)
      /\ d.claimed = days[today].claimed /\ d.lent = days[today].lent
      /\ d.borrowed = days[today].borrowed
      /\ d.anon = days[today].anon /\ d.spent = days[today].spent
  <2>1. CASE today \in opened
    BY Zenon, <1>1, <2>1, InvDay
  <2>2. CASE today \notin opened
    <3>1. days[today] = NoDay
      BY Zenon, <1>1, <2>2, InvDay
    <3>2. Sound(computeOpen(rp, lv))
      BY Zenon, <1>1, OpenSound
    <3>3. /\ NoDay.claimed = Sized(0, 0, 0) /\ NoDay.lent = Sized(0, 0, 0)
          /\ NoDay.borrowed = Sized(0, 0, 0) /\ NoDay.anon = 0 /\ NoDay.spent = 0
      BY Zenon DEF NoDay, Sized
    <3> QED BY Zenon, <2>2, <3>1, <3>2, <3>3 DEF computeOpen
  <2> QED BY Zenon, <2>1, <2>2
<1>3. open = adjust(d, rp, lv)
  BY Zenon DEF open
<1> HIDE DEF d
<1> QED BY Zenon, <1>1, <1>2, <1>3, AdjustSound

-----------------------------------------------------------------------------
(***************************************************************************)
(* Steps.  Every action that touches water changes one day; StepDay says   *)
(* what has to be shown of that day for the invariant to survive.          *)
(***************************************************************************)

\* The accounts of one day: its columns against the free units its holds have
\* (h) and spent (u), and against its minted units m.
Accounted(d, h, u, m) ==
    /\ FloorDrawn(d) = h["floor"] + u["floor"] + (h["anonymous"] + u["anonymous"])
    /\ StandingDrawn(d) = h["standing"] + u["standing"]
    /\ d.anon = h["anonymous"] + u["anonymous"]
    /\ d.spent = h["floor"] + h["standing"] + h["anonymous"]
                  + u["floor"] + u["standing"] + u["anonymous"] + m.held + m.used

\* The accounts of a day are what DrawsAccounted and SpendAccounted say of it.
LEMMA InvAccounts ==
    ASSUME Inv, NEW d \in Days
    PROVE  Accounted(days[d], held[d], used[d], minted[d])
<1>1. DrawsAccounted /\ SpendAccounted
  BY Zenon DEF Inv
<1> QED BY Zenon, <1>1 DEF DrawsAccounted, SpendAccounted, Accounted, FloorDrawn, StandingDrawn

\* A step that changes the row and the accounts of one opened day only keeps
\* the invariant if the day's new row is sound and agrees with its accounts.
LEMMA StepDay ==
    ASSUME Inv, NEW t \in Days, NEW d, NEW h, NEW u, NEW m,
           Sound(d), Accounted(d, h, u, m),
           h \in [Origins -> Nat], u \in [Origins -> Nat], m \in [held : Nat, used : Nat],
           days' = [days EXCEPT ![t] = d], held' = [held EXCEPT ![t] = h],
           used' = [used EXCEPT ![t] = u], minted' = [minted EXCEPT ![t] = m],
           purse' \in Nat, opened' = opened \cup {t}, UNCHANGED <<now, rp, lv>>
    PROVE  Inv'
<1>1. TypeOK
  BY Zenon DEF Inv
<1>2. /\ days'[t] = d /\ held'[t] = h /\ used'[t] = u /\ minted'[t] = m
      /\ \A x \in Days : x # t => /\ days'[x] = days[x] /\ held'[x] = held[x]
                                  /\ used'[x] = used[x] /\ minted'[x] = minted[x]
  BY Zenon, <1>1 DEF TypeOK
<1>3. \A x \in Days : Sound(days'[x]) /\ Accounted(days'[x], held'[x], used'[x], minted'[x])
  <2>1. \A x \in Days : Sound(days[x]) /\ Accounted(days[x], held[x], used[x], minted[x])
    BY Zenon, InvDay, InvAccounts
  <2> QED BY ZenonT(30), <1>2, <2>1
<1>4. TypeOK'
  <2>1. days' \in [Days -> DayType]
    BY Zenon, <1>1 DEF TypeOK, DayType, Sound
  <2>2. held' \in [Days -> [Origins -> Nat]] /\ used' \in [Days -> [Origins -> Nat]]
        /\ minted' \in [Days -> [held : Nat, used : Nat]]
    BY Zenon, <1>1 DEF TypeOK
  <2> QED BY Zenon, <1>1, <2>1, <2>2 DEF TypeOK, DayType
<1>5. LendingBalanced' /\ NoSliceOverdrawn'
  BY Zenon, <1>3 DEF LendingBalanced, NoSliceOverdrawn, Sound, Balanced
<1>6. DrawsAccounted' /\ SpendAccounted'
  BY Zenon, <1>3 DEF DrawsAccounted, SpendAccounted, Accounted, FloorDrawn, StandingDrawn
<1>7. (\A x \in Days \ opened : days[x] = NoDay)'
  <2>1. \A x \in Days \ opened : days[x] = NoDay
    BY Zenon DEF Inv
  <2> QED BY Zenon, <1>2, <2>1
<1> QED BY Zenon, <1>4, <1>5, <1>6, <1>7 DEF Inv

\* Parts of a plan have an origin and a natural number of units.
LEMMA PartsType ==
    ASSUME NEW p \in Parts
    PROVE  p.origin \in Origins /\ p.units \in Nat
BY PoolsAssumption DEF Parts, Empty, Origins

\* What the two parts of a plan come to, by slice and by column.
PlanFloor(p, q) == OfFloor(p.origin, p.units) + OfFloor(q.origin, q.units)
PlanStanding(p, q) == OfStanding(p.origin, p.units) + OfStanding(q.origin, q.units)
PlanAnon(p, q) == OfAnon(p.origin, p.units) + OfAnon(q.origin, q.units)
PlanUnits(p, q) == p.units + q.units

\* The columns of day d grew by a charge to those of e, and an account u of
\* free units to w.
Charged(d, e, p, q, g) ==
    /\ FloorDrawn(e) = FloorDrawn(d) + PlanFloor(p, q)
    /\ StandingDrawn(e) = StandingDrawn(d) + PlanStanding(p, q)
    /\ e.anon = d.anon + PlanAnon(p, q)
    /\ e.spent = d.spent + PlanUnits(p, q) + g
Grown(u, w, p, q) ==
    /\ w["floor"] + w["anonymous"] = u["floor"] + u["anonymous"] + PlanFloor(p, q)
    /\ w["standing"] = u["standing"] + PlanStanding(p, q)
    /\ w["anonymous"] = u["anonymous"] + PlanAnon(p, q)
    /\ w["floor"] + w["standing"] + w["anonymous"]
         = u["floor"] + u["standing"] + u["anonymous"] + PlanUnits(p, q)

\* These are natural numbers.
LEMMA PlanType ==
    ASSUME NEW p \in Parts, NEW q \in Parts
    PROVE  /\ PlanFloor(p, q) \in Nat /\ PlanStanding(p, q) \in Nat
           /\ PlanAnon(p, q) \in Nat /\ PlanUnits(p, q) \in Nat
           /\ OfFloor(p.origin, p.units) \in Nat /\ OfFloor(q.origin, q.units) \in Nat
           /\ OfStanding(p.origin, p.units) \in Nat /\ OfStanding(q.origin, q.units) \in Nat
           /\ OfAnon(p.origin, p.units) \in Nat /\ OfAnon(q.origin, q.units) \in Nat
BY SMTT(30), PartsType DEF PlanFloor, PlanStanding, PlanAnon, PlanUnits, OfFloor, OfStanding, OfAnon

\* What a charge does to the day: the free units of both parts are drawn, to
\* the last one, and the day's spend grows by them and by the minted units.
LEMMA ChargeDay ==
    ASSUME Inv, NEW p \in Parts, NEW q \in Parts, NEW g \in Nat, Charge(p, q, g)
    PROVE  \E d : /\ Sound(d)
                  /\ days' = [days EXCEPT ![today] = d]
                  /\ d.be = effectiveBudget(rp, lv)
                  /\ d.size = open.size
                  /\ d.claimed["grant"] = days[today].claimed["grant"]
                  /\ Charged(days[today], d, p, q, g)
                  /\ d.anon > days[today].anon => d.anon <= AnonCeiling(d, rp, lv, tod)
                  /\ (\A s \in Slices : avail(open, s) = 0) => PlanUnits(p, q) = 0
<1> DEFINE d0 == open
           d1 == draw(d0, rp, p.origin, p.units, tod)
           d2 == draw(d1, rp, q.origin, q.units, tod)
           d3 == [d2 EXCEPT !.spent = @ + p.units + q.units + g]
<1>1. tod \in Nat /\ rp \in ParamType /\ lv \in LeverType
  BY Zenon, Today DEF Inv
<1>2. /\ p.origin \in Origins /\ p.units \in Nat
      /\ q.origin \in Origins /\ q.units \in Nat
  BY Zenon, PartsType
<1>3. /\ p.units <= PlanRoom(d0, rp, lv, p.origin, tod)
      /\ q.units <= PlanRoom(d1, rp, lv, q.origin, tod)
      /\ days' = [days EXCEPT ![today] = d3]
  BY Zenon DEF Charge
<1>4. /\ Sound(d0) /\ d0.be = effectiveBudget(rp, lv)
      /\ d0.claimed = days[today].claimed /\ d0.borrowed = days[today].borrowed
      /\ d0.anon = days[today].anon /\ d0.spent = days[today].spent
  BY Zenon, OpenDay
<1> HIDE DEF d0
<1>5. /\ Sound(d1) /\ d1.be = d0.be /\ d1.size = d0.size /\ d1.spent = d0.spent
      /\ d1.claimed["grant"] = d0.claimed["grant"]
      /\ FloorDrawn(d1) = FloorDrawn(d0) + OfFloor(p.origin, p.units)
      /\ StandingDrawn(d1) = StandingDrawn(d0) + OfStanding(p.origin, p.units)
      /\ d1.anon = d0.anon + OfAnon(p.origin, p.units)
  BY <1>1, <1>2, <1>3, <1>4, DrawTotals
<1> HIDE DEF d1
<1>6. /\ Sound(d2) /\ d2.be = d1.be /\ d2.size = d1.size /\ d2.spent = d1.spent
      /\ d2.claimed["grant"] = d1.claimed["grant"]
      /\ FloorDrawn(d2) = FloorDrawn(d1) + OfFloor(q.origin, q.units)
      /\ StandingDrawn(d2) = StandingDrawn(d1) + OfStanding(q.origin, q.units)
      /\ d2.anon = d1.anon + OfAnon(q.origin, q.units)
  BY <1>1, <1>2, <1>3, <1>5, DrawTotals
<1> HIDE DEF d2
<1>7. /\ d3 \in DayType
      /\ d3.be = d2.be /\ d3.size = d2.size /\ d3.claimed = d2.claimed
      /\ d3.lent = d2.lent /\ d3.borrowed = d2.borrowed /\ d3.anon = d2.anon
      /\ d3.spent = d2.spent + p.units + q.units + g
  BY <1>2, <1>6 DEF Sound, DayType
<1> HIDE DEF d3
<1>8. Sound(d3)
  BY Zenon, <1>6, <1>7 DEF Sound, Balanced, avail
<1>9. FloorDrawn(d0) = FloorDrawn(days[today]) /\ StandingDrawn(d0) = StandingDrawn(days[today])
      /\ FloorDrawn(d3) = FloorDrawn(d2) /\ StandingDrawn(d3) = StandingDrawn(d2)
  BY Zenon, <1>4, <1>7 DEF FloorDrawn, StandingDrawn
<1>10. d3.size = open.size
  BY Zenon, <1>5, <1>6, <1>7 DEF d0
<1>11. /\ FloorDrawn(d0) \in Nat /\ StandingDrawn(d0) \in Nat
       /\ d0.anon \in Nat /\ d0.spent \in Nat
  BY SMTT(30), <1>4 DEF FloorDrawn, StandingDrawn, Sound, DayType, Slices
<1>12. Charged(days[today], d3, p, q, g)
  BY <1>2, <1>4, <1>5, <1>6, <1>7, <1>9, <1>11, PlanType
     DEF Charged, PlanFloor, PlanStanding, PlanAnon, PlanUnits
<1>14. d3.anon > days[today].anon => d3.anon <= AnonCeiling(d3, rp, lv, tod)
  <2> DEFINE c == AnonCeiling(d0, rp, lv, tod)
  <2>1. /\ AnonCeiling(d1, rp, lv, tod) = c /\ AnonCeiling(d3, rp, lv, tod) = c
    BY Zenon, <1>5, <1>6, <1>7 DEF AnonCeiling
  <2>2. c \in Nat
    BY Zenon, <1>1, <1>4, AnonCeilingType
  <2>3. /\ p.origin = "anonymous" => p.units <= anonRoom(d0, rp, lv, tod)
        /\ q.origin = "anonymous" => q.units <= anonRoom(d1, rp, lv, tod)
    <3>1. /\ anonRoom(d0, rp, lv, tod) \in Nat /\ anonRoom(d1, rp, lv, tod) \in Nat
      BY Zenon, <1>1, <1>4, <1>5, AnonCeilingType
    <3>2. \A x \in Int, n \in Nat, r \in Nat : n <= Lesser(x, r) => n <= r
      BY DEF Lesser
    <3>3. /\ drawable(d0, rp, p.origin, tod) \in Int /\ drawable(d1, rp, q.origin, tod) \in Int
      BY <1>1, <1>2, <1>4, <1>5, DrawableType
    <3> QED BY Zenon, <1>2, <1>3, <3>1, <3>2, <3>3 DEF PlanRoom
  <2> DEFINE x == OfAnon(p.origin, p.units)
             y == OfAnon(q.origin, q.units)
  <2>4. /\ x \in Nat /\ y \in Nat /\ d1.anon = d0.anon + x /\ d3.anon = d0.anon + x + y
    BY Zenon, <1>5, <1>6, <1>7, PlanType
  <2>5. /\ x > 0 => x <= Greater(0, c - d0.anon)
        /\ y > 0 => y <= Greater(0, c - (d0.anon + x))
    <3>1. /\ x > 0 => p.origin = "anonymous" /\ x = p.units
          /\ y > 0 => q.origin = "anonymous" /\ y = q.units
      BY DEF OfAnon
    <3> QED BY Zenon, <2>1, <2>3, <2>4, <3>1 DEF anonRoom
  <2> HIDE DEF x, y, c
  <2>6. d0.anon \in Nat /\ d0.anon = days[today].anon
    BY Zenon, <1>4, <1>11
  <2>7. d0.anon + x + y > d0.anon => d0.anon + x + y <= c
    BY <2>2, <2>4, <2>5, <2>6 DEF Greater
  <2> QED BY Zenon, <2>1, <2>4, <2>6, <2>7
<1>15. (\A s \in Slices : avail(open, s) = 0) => PlanUnits(p, q) = 0
  <2>1. SUFFICES ASSUME \A s \in Slices : avail(d0, s) = 0 PROVE PlanUnits(p, q) = 0
    BY Zenon DEF d0
  <2>2. \A o \in Origins : PlanRoom(d0, rp, lv, o, tod) <= 0
    BY Zenon, <1>1, <1>4, <2>1, DryRoom
  <2>3. PlanRoom(d0, rp, lv, p.origin, tod) \in Int /\ PlanRoom(d0, rp, lv, q.origin, tod) \in Int
    BY Zenon, <1>1, <1>2, <1>4, DryRoom, <2>1
  <2>4. p.units = 0
    BY <1>2, <1>3, <2>2, <2>3
  <2>5. d1 = d0
    BY <2>4 DEF d1, draw
  <2>6. q.units = 0
    BY <1>2, <1>3, <2>2, <2>3, <2>5
  <2> QED BY <2>4, <2>6 DEF PlanUnits
<1> QED
  <2> WITNESS d3
  <2> QED BY Zenon, <1>3, <1>4, <1>5, <1>6, <1>7, <1>8, <1>10, <1>12, <1>14, <1>15

\* Take adds the units of both parts to the origins they have.
LEMMA TakeAdds ==
    ASSUME NEW f \in [Origins -> Nat], NEW p \in Parts, NEW q \in Parts
    PROVE  Take(f, p, q) \in [Origins -> Nat] /\ Grown(f, Take(f, p, q), p, q)
<1>1. /\ p.origin \in Origins /\ p.units \in Nat
      /\ q.origin \in Origins /\ q.units \in Nat
  BY Zenon, PartsType
<1>2. f["floor"] \in Nat /\ f["standing"] \in Nat /\ f["anonymous"] \in Nat
  BY Zenon DEF Origins
<1> DEFINE a(o) == IF o = p.origin THEN p.units ELSE 0
           b(o) == IF o = q.origin THEN q.units ELSE 0
           e == Take(f, p, q)
<1>3. \A o \in Origins : a(o) \in Nat /\ b(o) \in Nat
  BY Zenon, <1>1
<1>4. \A o \in Origins : e[o] = f[o] + a(o) + b(o)
  BY Zenon DEF Take
<1>5. e \in [Origins -> Nat]
  <2>1. \A o \in Origins : f[o] + a(o) + b(o) \in Nat
    BY <1>3
  <2> QED BY Zenon, <2>1 DEF Take
<1>6. /\ e["floor"] = f["floor"] + a("floor") + b("floor")
      /\ e["standing"] = f["standing"] + a("standing") + b("standing")
      /\ e["anonymous"] = f["anonymous"] + a("anonymous") + b("anonymous")
  BY Zenon, <1>4 DEF Origins
<1>7. /\ a("floor") + a("anonymous") = OfFloor(p.origin, p.units)
      /\ a("standing") = OfStanding(p.origin, p.units)
      /\ a("anonymous") = OfAnon(p.origin, p.units)
      /\ a("floor") + a("standing") + a("anonymous") = p.units
  BY <1>1 DEF Origins, OfFloor, OfStanding, OfAnon
<1>8. /\ b("floor") + b("anonymous") = OfFloor(q.origin, q.units)
      /\ b("standing") = OfStanding(q.origin, q.units)
      /\ b("anonymous") = OfAnon(q.origin, q.units)
      /\ b("floor") + b("standing") + b("anonymous") = q.units
  BY <1>1 DEF Origins, OfFloor, OfStanding, OfAnon
<1>9. /\ a("floor") \in Nat /\ a("standing") \in Nat /\ a("anonymous") \in Nat
      /\ b("floor") \in Nat /\ b("standing") \in Nat /\ b("anonymous") \in Nat
  BY Zenon, <1>1
<1> HIDE DEF a, b, e
<1>10. e["floor"] + e["anonymous"] = f["floor"] + f["anonymous"] + PlanFloor(p, q)
  BY <1>2, <1>6, <1>7, <1>8, <1>9 DEF PlanFloor
<1>11. e["floor"] + e["standing"] + e["anonymous"]
         = f["floor"] + f["standing"] + f["anonymous"] + PlanUnits(p, q)
  BY <1>1, <1>2, <1>6, <1>7, <1>8, <1>9 DEF PlanUnits
<1>12. /\ e["standing"] = f["standing"] + PlanStanding(p, q)
       /\ e["anonymous"] = f["anonymous"] + PlanAnon(p, q)
  BY <1>2, <1>6, <1>7, <1>8, <1>9 DEF PlanStanding, PlanAnon
<1> QED BY Zenon, <1>5, <1>10, <1>11, <1>12 DEF e, Grown

\* A day whose columns grow by what one of its two accounts grows by stays
\* accounted.
LEMMA AccountsGrow ==
    ASSUME NEW d, NEW e, NEW h \in [Origins -> Nat], NEW u \in [Origins -> Nat],
           NEW w \in [Origins -> Nat], NEW p \in Parts, NEW q \in Parts, NEW g \in Nat,
           NEW m \in [held : Nat, used : Nat], NEW k \in [held : Nat, used : Nat],
           k.held + k.used = m.held + m.used + g,
           Accounted(d, h, u, m), Charged(d, e, p, q, g)
    PROVE  /\ Grown(u, w, p, q) => Accounted(e, h, w, k)
           /\ Grown(h, w, p, q) => Accounted(e, w, u, k)
<1> DEFINE hf == h["floor"]
           hs == h["standing"]
           ha == h["anonymous"]
           uf == u["floor"]
           us == u["standing"]
           ua == u["anonymous"]
           wf == w["floor"]
           ws == w["standing"]
           wa == w["anonymous"]
           mm == m.held + m.used
           kk == k.held + k.used
           x == PlanFloor(p, q)
           y == PlanStanding(p, q)
           z == PlanAnon(p, q)
           n == PlanUnits(p, q)
<1>1. /\ hf \in Nat /\ hs \in Nat /\ ha \in Nat /\ uf \in Nat /\ us \in Nat /\ ua \in Nat
      /\ wf \in Nat /\ ws \in Nat /\ wa \in Nat
      /\ mm \in Nat /\ kk \in Nat /\ kk = mm + g
      /\ m.held \in Nat /\ m.used \in Nat /\ k.held \in Nat /\ k.used \in Nat
  BY DEF Origins
<1>2. x \in Nat /\ y \in Nat /\ z \in Nat /\ n \in Nat
  BY Zenon, PlanType
<1>3. /\ FloorDrawn(e) = hf + uf + (ha + ua) + x
      /\ StandingDrawn(e) = hs + us + y
      /\ e.anon = ha + ua + z
      /\ e.spent = hf + hs + ha + uf + us + ua + mm + n + g
  <2>1. d.spent = hf + hs + ha + uf + us + ua + mm
    BY <1>1 DEF Accounted
  <2> QED BY Zenon, <2>1 DEF Accounted, Charged
<1>4. Grown(u, w, p, q) => /\ wf + wa = uf + ua + x /\ ws = us + y /\ wa = ua + z
                           /\ wf + ws + wa = uf + us + ua + n
  BY Zenon DEF Grown
<1>5. Grown(h, w, p, q) => /\ wf + wa = hf + ha + x /\ ws = hs + y /\ wa = ha + z
                           /\ wf + ws + wa = hf + hs + ha + n
  BY Zenon DEF Grown
<1>6. /\ FloorDrawn(e) = hf + wf + (ha + wa) /\ StandingDrawn(e) = hs + ws
      /\ e.anon = ha + wa /\ e.spent = hf + hs + ha + wf + ws + wa + kk
      => Accounted(e, h, w, k)
  BY <1>1 DEF Accounted
<1>7. /\ FloorDrawn(e) = wf + uf + (wa + ua) /\ StandingDrawn(e) = ws + us
      /\ e.anon = wa + ua /\ e.spent = wf + ws + wa + uf + us + ua + kk
      => Accounted(e, w, u, k)
  BY <1>1 DEF Accounted
<1> HIDE DEF hf, hs, ha, uf, us, ua, wf, ws, wa, mm, kk, x, y, z, n
<1>8. Grown(u, w, p, q) => Accounted(e, h, w, k)
  BY <1>1, <1>2, <1>3, <1>4, <1>6
<1>9. Grown(h, w, p, q) => Accounted(e, w, u, k)
  BY <1>1, <1>2, <1>3, <1>5, <1>7
<1> QED BY Zenon, <1>8, <1>9

\* Spend keeps the invariant: what it draws is used.
LEMMA SpendStep ==
    ASSUME Inv, NEW p \in Parts, NEW q \in Parts, NEW g \in Nat, Spend(p, q, g)
    PROVE  Inv'
<1> DEFINE u == Take(used[today], p, q)
           m == [minted[today] EXCEPT !.used = @ + g]
<1>1. today \in Days
  BY Zenon, Today DEF Inv
<1>2. /\ Charge(p, q, g) /\ held' = held
      /\ used' = [used EXCEPT ![today] = u]
      /\ minted' = [minted EXCEPT ![today] = m]
  BY Zenon DEF Spend
<1>3. PICK d : /\ Sound(d) /\ days' = [days EXCEPT ![today] = d]
               /\ Charged(days[today], d, p, q, g)
  BY Zenon, <1>2, ChargeDay
<1>4. /\ held[today] \in [Origins -> Nat] /\ used[today] \in [Origins -> Nat]
      /\ minted[today] \in [held : Nat, used : Nat] /\ purse \in Nat
      /\ held \in [Days -> [Origins -> Nat]]
  BY Zenon, <1>1 DEF Inv, TypeOK
<1>5. u \in [Origins -> Nat] /\ Grown(used[today], u, p, q)
  BY Zenon, <1>4, TakeAdds
<1>6. /\ m \in [held : Nat, used : Nat] /\ m.held = minted[today].held
      /\ m.used = minted[today].used + g
  BY <1>4
<1> HIDE DEF u, m
<1>7. Accounted(days[today], held[today], used[today], minted[today])
  BY Zenon, <1>1, InvAccounts
<1>8. Accounted(d, held[today], u, m)
  <2>1. m.held + m.used = minted[today].held + minted[today].used + g
    BY <1>4, <1>6
  <2> QED BY Zenon, <1>3, <1>4, <1>5, <1>6, <1>7, <2>1, AccountsGrow
<1>9. /\ purse' \in Nat /\ opened' = opened \cup {today} /\ UNCHANGED <<now, rp, lv>>
       /\ held' = [held EXCEPT ![today] = held[today]]
  BY <1>1, <1>2, <1>4 DEF Charge, Inv, TypeOK
<1> QED BY ZenonT(30), <1>1, <1>2, <1>3, <1>4, <1>5, <1>6, <1>8, <1>9, StepDay

\* Reserve keeps the invariant: what it draws is held.
LEMMA ReserveStep ==
    ASSUME Inv, NEW p \in Parts, NEW q \in Parts, NEW g \in Nat, Reserve(p, q, g)
    PROVE  Inv'
<1> DEFINE h == Take(held[today], p, q)
           m == [minted[today] EXCEPT !.held = @ + g]
<1>1. today \in Days
  BY Zenon, Today DEF Inv
<1>2. /\ Charge(p, q, g) /\ used' = used
      /\ held' = [held EXCEPT ![today] = h]
      /\ minted' = [minted EXCEPT ![today] = m]
  BY Zenon DEF Reserve
<1>3. PICK d : /\ Sound(d) /\ days' = [days EXCEPT ![today] = d]
               /\ Charged(days[today], d, p, q, g)
  BY Zenon, <1>2, ChargeDay
<1>4. /\ held[today] \in [Origins -> Nat] /\ used[today] \in [Origins -> Nat]
      /\ minted[today] \in [held : Nat, used : Nat] /\ purse \in Nat
      /\ used \in [Days -> [Origins -> Nat]]
  BY Zenon, <1>1 DEF Inv, TypeOK
<1>5. h \in [Origins -> Nat] /\ Grown(held[today], h, p, q)
  BY Zenon, <1>4, TakeAdds
<1>6. /\ m \in [held : Nat, used : Nat] /\ m.used = minted[today].used
      /\ m.held = minted[today].held + g
  BY <1>4
<1> HIDE DEF h, m
<1>7. Accounted(days[today], held[today], used[today], minted[today])
  BY Zenon, <1>1, InvAccounts
<1>8. Accounted(d, h, used[today], m)
  <2>1. m.held + m.used = minted[today].held + minted[today].used + g
    BY <1>4, <1>6
  <2> QED BY ZenonT(30), <1>3, <1>4, <1>5, <1>6, <1>7, <2>1, AccountsGrow
<1>9. /\ purse' \in Nat /\ opened' = opened \cup {today} /\ UNCHANGED <<now, rp, lv>>
      /\ used' = [used EXCEPT ![today] = used[today]]
  BY <1>1, <1>2, <1>4 DEF Charge, Inv, TypeOK
<1> QED BY ZenonT(30), <1>1, <1>2, <1>3, <1>4, <1>5, <1>6, <1>8, <1>9, StepDay

\* Minted units draw the grant slice and nothing else of the day.
LEMMA MintStep ==
    ASSUME Inv, NEW n \in Nat, Mint(n)
    PROVE  Inv'
<1> DEFINE d0 == open
           d == [d0 EXCEPT !.claimed = [d0.claimed EXCEPT !["grant"] = @ + n]]
<1>1. today \in Days
  BY Zenon, Today DEF Inv
<1>2. /\ n <= avail(d0, "grant")
      /\ days' = [days EXCEPT ![today] = [d0 EXCEPT !.claimed["grant"] = @ + n]]
  BY Zenon DEF Mint
<1>3. /\ Sound(d0)
      /\ d0.claimed = days[today].claimed /\ d0.borrowed = days[today].borrowed
      /\ d0.anon = days[today].anon /\ d0.spent = days[today].spent
  BY Zenon, OpenDay
<1> HIDE DEF d0
<1>4. days' = [days EXCEPT ![today] = d]
  BY Zenon, <1>2, <1>3 DEF Sound, DayType
<1>5. /\ d0 \in DayType /\ d0.claimed \in [Slices -> Nat]
      /\ "grant" \in Slices /\ "floor" \in Slices /\ "standing" \in Slices
      /\ d0.claimed["grant"] \in Nat /\ d0.lent["grant"] \in Nat /\ d0.size["grant"] \in Nat
  BY Zenon, <1>3 DEF Sound, DayType, Slices
<1>6. [d0.claimed EXCEPT !["grant"] = @ + n] \in [Slices -> Nat]
  BY <1>5
<1>7. /\ d \in DayType /\ d.size = d0.size /\ d.lent = d0.lent /\ d.borrowed = d0.borrowed
      /\ d.anon = d0.anon /\ d.spent = d0.spent
      /\ d.claimed = [d0.claimed EXCEPT !["grant"] = @ + n]
  BY Zenon, <1>5, <1>6 DEF DayType
<1> HIDE DEF d
<1>8. /\ d.claimed["grant"] = d0.claimed["grant"] + n
      /\ d.claimed["floor"] = d0.claimed["floor"]
      /\ d.claimed["standing"] = d0.claimed["standing"]
  BY Zenon, <1>5, <1>7
<1>9. Sound(d)
  <2>1. avail(d, "grant") >= 0
    BY <1>2, <1>5, <1>7, <1>8 DEF avail
  <2>2. avail(d, "floor") >= 0 /\ avail(d, "standing") >= 0
    BY Zenon, <1>3, <1>7, <1>8 DEF Sound, avail, Slices
  <2> QED BY Zenon, <1>3, <1>7, <2>1, <2>2 DEF Sound, Balanced, Slices
<1>10. Accounted(d, held[today], used[today], minted[today])
  <2>1. Accounted(days[today], held[today], used[today], minted[today])
    BY Zenon, <1>1, InvAccounts
  <2> QED BY Zenon, <2>1, <1>3, <1>7, <1>8 DEF Accounted, FloorDrawn, StandingDrawn
<1>11. /\ held[today] \in [Origins -> Nat] /\ used[today] \in [Origins -> Nat]
       /\ minted[today] \in [held : Nat, used : Nat] /\ purse \in Nat
       /\ held = [held EXCEPT ![today] = held[today]]
       /\ used = [used EXCEPT ![today] = used[today]]
       /\ minted = [minted EXCEPT ![today] = minted[today]]
  BY Zenon, <1>1 DEF Inv, TypeOK
<1>12. /\ purse' \in Nat /\ opened' = opened \cup {today}
       /\ UNCHANGED <<now, rp, lv, held, used, minted>>
  BY <1>11 DEF Mint
<1> QED BY ZenonT(30), <1>1, <1>4, <1>9, <1>10, <1>11, <1>12, StepDay

\* What a settle returns to the day of its hold was drawn from it, so the three
\* undraws return all of it.
LEMMA SettleDay ==
    ASSUME NEW d, Sound(d), NEW bf \in Nat, NEW bs \in Nat, NEW ba \in Nat, NEW b \in Nat,
           bf + ba <= FloorDrawn(d), bs <= StandingDrawn(d), ba <= d.anon,
           bf + bs + ba + b <= d.spent
    PROVE  LET e == undraw(undraw(undraw(d, "floor", bf), "standing", bs), "anonymous", ba)
               z == [e EXCEPT !.spent = @ - bf - bs - ba - b]
           IN  /\ Sound(z)
               /\ FloorDrawn(z) = FloorDrawn(d) - bf - ba
               /\ StandingDrawn(z) = StandingDrawn(d) - bs
               /\ z.anon = d.anon - ba
               /\ z.spent = d.spent - bf - bs - ba - b
               /\ z.claimed["grant"] = d.claimed["grant"]
<1> DEFINE e1 == undraw(d, "floor", bf)
           e2 == undraw(e1, "standing", bs)
           e == undraw(e2, "anonymous", ba)
           z == [e EXCEPT !.spent = @ - bf - bs - ba - b]
<1>1. /\ FloorDrawn(d) \in Nat /\ StandingDrawn(d) \in Nat /\ d.anon \in Nat /\ d.spent \in Nat
  BY DEF Sound, DayType, Slices, FloorDrawn, StandingDrawn
<1>2. "floor" \in Origins /\ "standing" \in Origins /\ "anonymous" \in Origins
  BY Zenon DEF Origins
<1>3. \A x : /\ OfFloor("floor", x) = x /\ OfStanding("floor", x) = 0 /\ OfAnon("floor", x) = 0
            /\ OfFloor("standing", x) = 0 /\ OfStanding("standing", x) = x
            /\ OfAnon("standing", x) = 0
            /\ OfFloor("anonymous", x) = x /\ OfStanding("anonymous", x) = 0
            /\ OfAnon("anonymous", x) = x
  BY Zenon DEF OfFloor, OfStanding, OfAnon
<1>4. /\ e1.claimed["grant"] = d.claimed["grant"]
      /\ Sound(e1) /\ e1.spent = d.spent /\ FloorDrawn(e1) = FloorDrawn(d) - bf
      /\ StandingDrawn(e1) = StandingDrawn(d) /\ e1.anon = d.anon
  <2>1. /\ OfFloor("floor", bf) <= FloorDrawn(d) /\ OfStanding("floor", bf) <= StandingDrawn(d)
        /\ OfAnon("floor", bf) <= d.anon
    BY <1>1, <1>3
  <2>2. /\ Sound(e1) /\ e1.spent = d.spent /\ e1.claimed["grant"] = d.claimed["grant"]
        /\ FloorDrawn(e1) = FloorDrawn(d) - OfFloor("floor", bf)
        /\ StandingDrawn(e1) = StandingDrawn(d) - OfStanding("floor", bf)
        /\ e1.anon = d.anon - OfAnon("floor", bf)
    BY Zenon, <1>2, <2>1, UndrawTotals
  <2> QED BY <1>1, <1>3, <2>2
<1> HIDE DEF e1
<1>5. /\ e2.claimed["grant"] = d.claimed["grant"]
      /\ Sound(e2) /\ e2.spent = d.spent /\ FloorDrawn(e2) = FloorDrawn(d) - bf
      /\ StandingDrawn(e2) = StandingDrawn(d) - bs /\ e2.anon = d.anon
  <2>1. /\ OfFloor("standing", bs) <= FloorDrawn(e1)
        /\ OfStanding("standing", bs) <= StandingDrawn(e1)
        /\ OfAnon("standing", bs) <= e1.anon
    BY <1>1, <1>3, <1>4
  <2>2. /\ Sound(e2) /\ e2.spent = e1.spent /\ e2.claimed["grant"] = e1.claimed["grant"]
        /\ FloorDrawn(e2) = FloorDrawn(e1) - OfFloor("standing", bs)
        /\ StandingDrawn(e2) = StandingDrawn(e1) - OfStanding("standing", bs)
        /\ e2.anon = e1.anon - OfAnon("standing", bs)
    BY ZenonT(30), <1>2, <1>4, <2>1, UndrawTotals
  <2> QED BY <1>1, <1>3, <1>4, <2>2
<1> HIDE DEF e2
<1>6. /\ e.claimed["grant"] = d.claimed["grant"]
      /\ Sound(e) /\ e.spent = d.spent /\ FloorDrawn(e) = FloorDrawn(d) - bf - ba
      /\ StandingDrawn(e) = StandingDrawn(d) - bs /\ e.anon = d.anon - ba
  <2>1. /\ OfFloor("anonymous", ba) <= FloorDrawn(e2)
        /\ OfStanding("anonymous", ba) <= StandingDrawn(e2)
        /\ OfAnon("anonymous", ba) <= e2.anon
    BY <1>1, <1>3, <1>5
  <2>2. /\ Sound(e) /\ e.spent = e2.spent /\ e.claimed["grant"] = e2.claimed["grant"]
        /\ FloorDrawn(e) = FloorDrawn(e2) - OfFloor("anonymous", ba)
        /\ StandingDrawn(e) = StandingDrawn(e2) - OfStanding("anonymous", ba)
        /\ e.anon = e2.anon - OfAnon("anonymous", ba)
    BY ZenonT(30), <1>2, <1>5, <2>1, UndrawTotals
  <2> QED BY <1>1, <1>3, <1>5, <2>2
<1> HIDE DEF e
<1>7. d.spent - bf - bs - ba - b \in Nat
  BY <1>1
<1>8. /\ z \in DayType /\ z.size = e.size /\ z.claimed = e.claimed /\ z.lent = e.lent
      /\ z.borrowed = e.borrowed /\ z.anon = e.anon /\ z.spent = d.spent - bf - bs - ba - b
  BY Zenon, <1>6, <1>7 DEF Sound, DayType
<1> HIDE DEF z
<1>9. Sound(z)
  BY Zenon, <1>6, <1>8 DEF Sound, Balanced, avail
<1>10. FloorDrawn(z) = FloorDrawn(e) /\ StandingDrawn(z) = StandingDrawn(e)
  BY Zenon, <1>8 DEF FloorDrawn, StandingDrawn
<1>11. /\ Sound(z) /\ FloorDrawn(z) = FloorDrawn(d) - bf - ba
       /\ StandingDrawn(z) = StandingDrawn(d) - bs /\ z.anon = d.anon - ba
       /\ z.spent = d.spent - bf - bs - ba - b /\ z.claimed["grant"] = d.claimed["grant"]
  BY Zenon, <1>6, <1>8, <1>9, <1>10
<1> QED BY Zenon, <1>11 DEF z, e, e2, e1

\* All that was drawn of a sound day, and that it is within the sizes.
LEMMA DrawnIs ==
    ASSUME NEW d, Sound(d)
    PROVE  /\ Drawn(d) = FloorDrawn(d) + StandingDrawn(d) + d.claimed["grant"]
           /\ Drawn(d) \in Nat /\ d.claimed["grant"] \in Nat
           /\ FloorDrawn(d) \in Nat /\ StandingDrawn(d) \in Nat
           /\ Drawn(d) <= allocated(d) /\ allocated(d) \in Nat
<1>1. \A s \in Slices : /\ d.size[s] \in Nat /\ d.claimed[s] \in Nat /\ d.lent[s] \in Nat
                        /\ d.borrowed[s] \in Nat
                        /\ d.size[s] >= d.claimed[s] + d.lent[s]
  BY DEF Sound, DayType, avail
<1>2. Balanced(d)
  BY Zenon DEF Sound
<1> QED BY <1>1, <1>2
        DEF Balanced, Slices, Drawn, Sum3, FloorDrawn, StandingDrawn, allocated

\* The settle of a hold keeps the invariant, on whatever day it settles, and
\* never draws.
LEMMA SettleStep ==
    ASSUME Inv, NEW d \in opened,
           NEW f \in 0..held[d]["floor"], NEW s \in 0..held[d]["standing"],
           NEW a \in 0..held[d]["anonymous"], NEW g \in 0..minted[d].held,
           NEW bf \in 0..f, NEW bs \in 0..s, NEW ba \in 0..a, NEW b \in 0..g,
           Settle(d, Vector(f, s, a), Vector(bf, bs, ba), g, b)
    PROVE  /\ Inv'
           /\ \A x \in Days : /\ Drawn(days'[x]) <= Drawn(days[x])
                             /\ days'[x].spent <= days[x].spent
                             /\ days'[x].anon <= days[x].anon
<1> DEFINE hd == held[d]
           ud == used[d]
           md == minted[d]
           h == [o \in Origins |-> hd[o] - Vector(f, s, a)[o]]
           u == [o \in Origins |-> ud[o] + Vector(f, s, a)[o] - Vector(bf, bs, ba)[o]]
           m == [held |-> md.held - g, used |-> md.used + g - b]
           e == undraw(undraw(undraw(days[d], "floor", bf), "standing", bs), "anonymous", ba)
           z == [e EXCEPT !.spent = @ - bf - bs - ba - b]
<1>1. /\ d \in Days /\ hd \in [Origins -> Nat] /\ ud \in [Origins -> Nat]
      /\ md \in [held : Nat, used : Nat] /\ purse \in Nat
      /\ opened = opened \cup {d} /\ held \in [Days -> [Origins -> Nat]]
      /\ used \in [Days -> [Origins -> Nat]] /\ minted \in [Days -> [held : Nat, used : Nat]]
  BY Zenon DEF Inv, TypeOK
<1>2. \A x, y, w : /\ Vector(x, y, w)["floor"] = x /\ Vector(x, y, w)["standing"] = y
                  /\ Vector(x, y, w)["anonymous"] = w
  BY Zenon DEF Vector, Origins
<1>3. /\ days' = [days EXCEPT ![d] = z] /\ held' = [held EXCEPT ![d] = h]
      /\ used' = [used EXCEPT ![d] = u] /\ minted' = [minted EXCEPT ![d] = m]
      /\ purse' = purse + b /\ UNCHANGED <<now, rp, lv, opened>>
  <2> DEFINE v == Vector(bf, bs, ba)
  <2>1. /\ held' = [held EXCEPT ![d] = h] /\ used' = [used EXCEPT ![d] = u]
        /\ minted' = [minted EXCEPT ![d] = m]
        /\ purse' = purse + b /\ UNCHANGED <<now, rp, lv, opened>>
    BY Zenon DEF Settle, Settled
  <2>2. days' = [days EXCEPT ![d] =
                   [undraw(undraw(undraw(days[d], "floor", v["floor"]), "standing", v["standing"]),
                           "anonymous", v["anonymous"])
                      EXCEPT !.spent = @ - v["floor"] - v["standing"] - v["anonymous"] - b]]
    BY Zenon DEF Settle, Settled
  <2>3. v["floor"] = bf /\ v["standing"] = bs /\ v["anonymous"] = ba
    BY <1>2
  <2> HIDE DEF v
  <2>4. days' = [days EXCEPT ![d] = z]
    BY Zenon, <2>2, <2>3
  <2> QED BY Zenon, <2>1, <2>4
<1>4. Sound(days[d]) /\ Accounted(days[d], hd, ud, md)
  BY Zenon, <1>1, InvDay, InvAccounts
<1> DEFINE hf == hd["floor"]
           hs == hd["standing"]
           ha == hd["anonymous"]
           uf == ud["floor"]
           us == ud["standing"]
           ua == ud["anonymous"]
           mh == md.held
           mu == md.used
<1>5. /\ hf \in Nat /\ hs \in Nat /\ ha \in Nat /\ uf \in Nat /\ us \in Nat /\ ua \in Nat
      /\ mh \in Nat /\ mu \in Nat
  BY Zenon, <1>1 DEF Origins
<1>6. /\ f \in Nat /\ s \in Nat /\ a \in Nat /\ g \in Nat
      /\ bf \in Nat /\ bs \in Nat /\ ba \in Nat /\ b \in Nat
      /\ f <= hf /\ s <= hs /\ a <= ha /\ g <= mh /\ bf <= f /\ bs <= s /\ ba <= a /\ b <= g
  BY <1>5
<1>7. /\ FloorDrawn(days[d]) = hf + uf + (ha + ua) /\ StandingDrawn(days[d]) = hs + us
      /\ days[d].anon = ha + ua
      /\ days[d].spent = hf + hs + ha + uf + us + ua + mh + mu
  BY Zenon, <1>4 DEF Accounted
<1>8. /\ \A o \in Origins : h[o] = hd[o] - Vector(f, s, a)[o]
      /\ \A o \in Origins : u[o] = ud[o] + Vector(f, s, a)[o] - Vector(bf, bs, ba)[o]
  BY Zenon
<1>9. /\ h["floor"] = hf - f /\ h["standing"] = hs - s /\ h["anonymous"] = ha - a
      /\ u["floor"] = uf + f - bf /\ u["standing"] = us + s - bs
      /\ u["anonymous"] = ua + a - ba
  BY <1>2, <1>8 DEF Origins
<1>10. m.held = mh - g /\ m.used = mu + g - b
  BY Zenon
<1> HIDE DEF h, u, m, hf, hs, ha, uf, us, ua, mh, mu, hd, ud, md, z
<1>11. /\ Sound(z)
       /\ FloorDrawn(z) = FloorDrawn(days[d]) - bf - ba
       /\ StandingDrawn(z) = StandingDrawn(days[d]) - bs
       /\ z.anon = days[d].anon - ba
       /\ z.spent = days[d].spent - bf - bs - ba - b
       /\ z.claimed["grant"] = days[d].claimed["grant"]
  <2>1. /\ bf + ba <= FloorDrawn(days[d]) /\ bs <= StandingDrawn(days[d])
        /\ ba <= days[d].anon /\ bf + bs + ba + b <= days[d].spent
    BY <1>5, <1>6, <1>7
  <2> QED BY SMTT(30), <1>4, <1>6, <2>1, SettleDay DEF z
<1>12. Accounted(z, h, u, m)
  BY SMTT(30), <1>5, <1>6, <1>7, <1>9, <1>10, <1>11 DEF Accounted
<1>13. /\ h["floor"] \in Nat /\ h["standing"] \in Nat /\ h["anonymous"] \in Nat
       /\ u["floor"] \in Nat /\ u["standing"] \in Nat /\ u["anonymous"] \in Nat
       /\ mh - g \in Nat /\ mu + g - b \in Nat /\ purse' \in Nat
  BY SMTT(30), <1>1, <1>3, <1>5, <1>6, <1>9
<1>14. h \in [Origins -> Nat] /\ u \in [Origins -> Nat] /\ m \in [held : Nat, used : Nat]
  <2>1. h \in [Origins -> Nat]
    BY Zenon, <1>13 DEF h, Origins
  <2>2. u \in [Origins -> Nat]
    BY Zenon, <1>13 DEF u, Origins
  <2> QED BY Zenon, <1>13, <2>1, <2>2 DEF m, mh, mu
<1>15. Inv'
  BY ZenonT(30), <1>1, <1>3, <1>11, <1>12, <1>13, <1>14, StepDay
<1>16. Drawn(z) <= Drawn(days[d]) /\ z.spent <= days[d].spent /\ z.anon <= days[d].anon
  <2>1. z.spent <= days[d].spent /\ z.anon <= days[d].anon
    BY SMTT(30), <1>5, <1>6, <1>7, <1>11
  <2>2. /\ Drawn(days[d]) = FloorDrawn(days[d]) + StandingDrawn(days[d]) + days[d].claimed["grant"]
        /\ Drawn(z) = FloorDrawn(z) + StandingDrawn(z) + z.claimed["grant"]
        /\ days[d].claimed["grant"] \in Nat
    BY Zenon, <1>4, <1>11, DrawnIs
  <2>3. Drawn(z) <= Drawn(days[d])
    BY <1>5, <1>6, <1>7, <1>11, <2>2
  <2> QED BY Zenon, <2>1, <2>3
<1>17. \A x \in Days : Drawn(days[x]) \in Int /\ days[x].spent \in Int /\ days[x].anon \in Int
  <2>1. \A x \in Days : Sound(days[x])
    BY Zenon, InvDay
  <2>2. \A x \in Days : Drawn(days[x]) \in Int
    BY <2>1, DrawnIs
  <2>3. \A x \in Days : days[x].spent \in Int /\ days[x].anon \in Int
    BY <2>1 DEF Sound, DayType
  <2> QED BY Zenon, <2>2, <2>3
<1>18. days'[d] = z /\ \A x \in Days : x # d => days'[x] = days[x]
  BY Zenon, <1>1, <1>3 DEF Inv, TypeOK
<1> QED BY <1>15, <1>16, <1>17, <1>18

-----------------------------------------------------------------------------
(***************************************************************************)
(* The theorems, for every scale, every set of parameter versions and      *)
(* levers and every bound.                                                 *)
(***************************************************************************)

\* No day has opened: every row and account is empty.
LEMMA InitInv ==
    Init => Inv
<1> SUFFICES ASSUME Init PROVE Inv
  BY Zenon
<1>1. 0 \in 0..Horizon
  BY PoolsAssumption
<1>2. /\ NoDay.claimed["floor"] = 0 /\ NoDay.claimed["standing"] = 0
      /\ NoDay.lent["grant"] = 0 /\ NoDay.lent["floor"] = 0 /\ NoDay.lent["standing"] = 0
      /\ NoDay.borrowed["grant"] = 0 /\ NoDay.borrowed["floor"] = 0
      /\ NoDay.borrowed["standing"] = 0 /\ NoDay.anon = 0 /\ NoDay.spent = 0
      /\ \A s \in Slices : avail(NoDay, s) = 0
  BY DEF NoDay, Slices, avail
<1>3. NoDay \in DayType
  BY Zenon DEF NoDay, DayType
<1>4. \A d \in Days : /\ days[d] = NoDay
                      /\ \A o \in Origins : held[d][o] = 0 /\ used[d][o] = 0
                      /\ minted[d].held = 0 /\ minted[d].used = 0
  BY Zenon DEF Init
<1>5. TypeOK
  <2>1. days \in [Days -> DayType]
    BY Zenon, <1>3 DEF Init
  <2> QED BY Zenon, <1>1, <2>1, PoolsAssumption DEF Init, TypeOK, DayType
<1>6. LendingBalanced /\ NoSliceOverdrawn
  BY <1>2, <1>4 DEF LendingBalanced, NoSliceOverdrawn
<1>7. DrawsAccounted /\ SpendAccounted
  BY <1>2, <1>4 DEF DrawsAccounted, SpendAccounted, Origins
<1> QED BY Zenon, <1>4, <1>5, <1>6, <1>7 DEF Inv

\* Every step keeps the invariant.
LEMMA NextInv ==
    Inv /\ [Next]_vars => Inv'
<1> SUFFICES ASSUME Inv, [Next]_vars PROVE Inv'
  BY Zenon
<1>1. CASE \E p, q \in Parts, g \in 0..MaxMinted : Spend(p, q, g)
  BY <1>1, SpendStep, PoolsAssumption
<1>2. CASE \E p, q \in Parts, g \in 0..MaxMinted : Reserve(p, q, g)
  BY SMTT(30), <1>2, ReserveStep, PoolsAssumption
<1>3. CASE SomeSettle
  BY <1>3, SettleStep DEF SomeSettle
<1>4. CASE \E n \in 1..MaxMinted : Mint(n)
  BY SMTT(30), <1>4, MintStep, PoolsAssumption
<1>5. CASE \E p \in Params : SetParams(p)
  BY Zenon, <1>5 DEF SetParams, Inv, TypeOK, LendingBalanced, DrawsAccounted, SpendAccounted,
              NoSliceOverdrawn
<1>6. CASE \E l \in Levers : PullLever(l)
  BY Zenon, <1>6 DEF PullLever, Inv, TypeOK, LendingBalanced, DrawsAccounted, SpendAccounted,
              NoSliceOverdrawn
<1>7. CASE Tick
  <2>1. now' \in 0..Horizon
    BY Zenon, <1>7, PoolsAssumption DEF Tick
  <2> QED BY Zenon, <1>7, <2>1 DEF Tick, Inv, TypeOK, LendingBalanced, DrawsAccounted, SpendAccounted,
                            NoSliceOverdrawn
<1>8. CASE UNCHANGED vars
  BY Zenon, <1>8 DEF vars, Inv, TypeOK, LendingBalanced, DrawsAccounted, SpendAccounted,
              NoSliceOverdrawn
<1> QED BY Zenon, <1>1, <1>2, <1>3, <1>4, <1>5, <1>6, <1>7, <1>8 DEF Next

\* The invariant holds in every reachable state.
THEOREM Invariant == Spec => []Inv
BY InitInv, NextInv, PTL DEF Spec

\* Columns never go below zero, whatever refunds a day's holds bring.
THEOREM TypeCorrect == Spec => []TypeOK
<1>1. Inv => TypeOK
  BY Zenon DEF Inv
<1> QED BY <1>1, Invariant, PTL

\* What a slice borrowed is what the other one lent.
THEOREM LendingStaysBalanced == Spec => []LendingBalanced
<1>1. Inv => LendingBalanced
  BY Zenon DEF Inv
<1> QED BY <1>1, Invariant, PTL

\* The slices' columns are exactly what holds and spends drew.
THEOREM DrawsStayAccounted == Spec => []DrawsAccounted
<1>1. Inv => DrawsAccounted
  BY Zenon DEF Inv
<1> QED BY <1>1, Invariant, PTL

\* The spend a day's ceiling is compared with is exactly what the day's lots
\* gave, open holds included, for any budgets, ceilings and order of settles.
THEOREM SpendStaysAccounted == Spec => []SpendAccounted
<1>1. Inv => SpendAccounted
  BY Zenon DEF Inv
<1> QED BY <1>1, Invariant, PTL

\* No slice gives more water than it has.
THEOREM NeverOverdrawn == Spec => []NoSliceOverdrawn
<1>1. Inv => NoSliceOverdrawn
  BY Zenon DEF Inv
<1> QED BY <1>1, Invariant, PTL

-----------------------------------------------------------------------------
(***************************************************************************)
(* What a step may do to a day, from the invariant.                        *)
(***************************************************************************)

WithinBudget(d) == Drawn(days'[d]) > Drawn(days[d])
                     => Drawn(days'[d]) <= effectiveBudget(rp, lv)
WithinPace(d) == days'[d].anon > days[d].anon
                   => d = today /\ days'[d].anon <= AnonCeiling(days'[d], rp, lv, tod)

\* A charge draws within the limits in force.
LEMMA ChargeWithin ==
    ASSUME Inv, NEW p \in Parts, NEW q \in Parts, NEW g \in Nat, Charge(p, q, g),
           NEW d \in Days
    PROVE  WithinBudget(d) /\ WithinPace(d)
<1>1. today \in Days /\ days \in [Days -> DayType]
  BY Zenon, Today DEF Inv, TypeOK, DayType
<1>2. PICK e : /\ Sound(e) /\ days' = [days EXCEPT ![today] = e]
               /\ e.be = effectiveBudget(rp, lv) /\ e.size = open.size
               /\ e.claimed["grant"] = days[today].claimed["grant"]
               /\ Charged(days[today], e, p, q, g)
               /\ e.anon > days[today].anon => e.anon <= AnonCeiling(e, rp, lv, tod)
               /\ (\A s \in Slices : avail(open, s) = 0) => PlanUnits(p, q) = 0
  BY Zenon, ChargeDay
<1>3. Sound(days[d]) /\ Sound(days[today])
  BY Zenon, <1>1, InvDay
<1>4. CASE d # today
  <2>0. days' = [days EXCEPT ![today] = e]
    BY Zenon, <1>2
  <2>1. days'[d] = days[d]
    BY Zenon, <1>1, <1>4, <2>0
  <2>2. Drawn(days[d]) \in Int /\ days[d].spent \in Int /\ days[d].anon \in Int
    BY <1>3, DrawnIs DEF Sound, DayType
  <2> QED BY <2>1, <2>2 DEF WithinBudget, WithinPace
<1>5. CASE d = today
  <2>0. days' = [days EXCEPT ![today] = e]
    BY Zenon, <1>2
  <2>1. days'[today] = e
    BY Zenon, <1>1, <2>0
  <2>2. WithinPace(d)
    BY Zenon, <1>2, <1>5, <2>1 DEF WithinPace
  <2>3. /\ Drawn(e) = FloorDrawn(e) + StandingDrawn(e) + e.claimed["grant"]
        /\ Drawn(e) <= allocated(e) /\ allocated(e) \in Nat /\ Drawn(e) \in Nat
        /\ Drawn(days[today]) = FloorDrawn(days[today]) + StandingDrawn(days[today])
                                 + days[today].claimed["grant"]
        /\ FloorDrawn(days[today]) \in Nat /\ StandingDrawn(days[today]) \in Nat
        /\ days[today].claimed["grant"] \in Nat
    BY Zenon, <1>2, <1>3, DrawnIs
  <2>4. CASE allocated(open) <= open.be
    <3>1. allocated(e) = allocated(open) /\ open.be = effectiveBudget(rp, lv)
      BY Zenon, <1>2, OpenDay DEF allocated
    <3>2. effectiveBudget(rp, lv) \in Nat
      BY Zenon, Today, BudgetType DEF Inv
    <3>3. Drawn(e) <= effectiveBudget(rp, lv)
      BY <2>3, <2>4, <3>1, <3>2
    <3> QED BY Zenon, <1>5, <2>1, <2>2, <3>3 DEF WithinBudget
  <2>5. CASE \A s \in Slices : avail(open, s) = 0
    <3>1. PlanUnits(p, q) = 0
      BY Zenon, <1>2, <2>5
    <3>2. PlanFloor(p, q) = 0 /\ PlanStanding(p, q) = 0
      BY <3>1, PartsType DEF PlanUnits, PlanFloor, PlanStanding, OfFloor, OfStanding
    <3>3. FloorDrawn(e) = FloorDrawn(days[today]) /\ StandingDrawn(e) = StandingDrawn(days[today])
      <4>1. /\ FloorDrawn(e) = FloorDrawn(days[today]) + PlanFloor(p, q)
            /\ StandingDrawn(e) = StandingDrawn(days[today]) + PlanStanding(p, q)
        BY Zenon, <1>2 DEF Charged
      <4> QED BY <2>3, <3>2, <4>1
    <3>4. Drawn(e) = Drawn(days[today])
      BY Zenon, <1>2, <2>3, <3>3
    <3> QED BY <1>5, <2>1, <2>2, <2>3, <3>4 DEF WithinBudget
  <2> QED BY Zenon, <2>4, <2>5, OpenDay
<1> QED BY Zenon, <1>4, <1>5

\* A mint draws the grant slice within the effective budget.
LEMMA MintWithin ==
    ASSUME Inv, NEW n \in Nat \ {0}, Mint(n), NEW d \in Days
    PROVE  WithinBudget(d) /\ WithinPace(d)
<1> DEFINE e == [open EXCEPT !.claimed["grant"] = @ + n]
<1>1. today \in Days /\ days \in [Days -> DayType]
  BY Zenon, Today DEF Inv, TypeOK, DayType
<1>2. /\ n <= avail(open, "grant") /\ days' = [days EXCEPT ![today] = e]
  BY Zenon DEF Mint
<1>3. /\ Sound(open) /\ open.be = effectiveBudget(rp, lv)
      /\ open.anon = days[today].anon /\ open.spent = days[today].spent
      /\ allocated(open) <= open.be \/ \A s \in Slices : avail(open, s) = 0
  BY Zenon, OpenDay
<1>4. allocated(open) <= effectiveBudget(rp, lv)
  BY <1>2, <1>3 DEF Slices
<1>5. Inv'
  BY Zenon, MintStep
<1>6. days'[today] = e /\ \A x \in Days : x # today => days'[x] = days[x]
  BY Zenon, <1>1, <1>2
<1>7. /\ e.anon = open.anon /\ e.spent = open.spent /\ e.size = open.size
  BY Zenon, <1>3 DEF Sound, DayType
<1>8. Sound(e)
  BY Zenon, <1>1, <1>5, <1>6, InvDayNext
<1> HIDE DEF e
<1>9. Drawn(e) <= effectiveBudget(rp, lv)
  <2>1. Drawn(e) <= allocated(e) /\ Drawn(e) \in Nat /\ allocated(e) \in Nat
    BY Zenon, <1>8, DrawnIs
  <2>2. allocated(e) = allocated(open)
    BY Zenon, <1>7 DEF allocated
  <2>3. effectiveBudget(rp, lv) \in Nat
    BY Zenon, Today, BudgetType DEF Inv
  <2> QED BY <1>4, <2>1, <2>2, <2>3
<1>10. \A x \in Days : Drawn(days[x]) \in Int /\ days[x].spent \in Int /\ days[x].anon \in Int
  <2>1. \A x \in Days : Sound(days[x])
    BY Zenon, InvDay
  <2>2. \A x \in Days : Drawn(days[x]) \in Int
    BY <2>1, DrawnIs
  <2>3. \A x \in Days : days[x].spent \in Int /\ days[x].anon \in Int
    BY <2>1 DEF Sound, DayType
  <2> QED BY Zenon, <2>2, <2>3
<1>11. CASE d = today
  <2>1. days'[d] = e /\ days'[d].spent = days[d].spent /\ days'[d].anon = days[d].anon
    BY Zenon, <1>3, <1>6, <1>7, <1>11
  <2>2. WithinBudget(d)
    BY Zenon, <1>9, <2>1 DEF WithinBudget
  <2>3. WithinPace(d)
    BY <1>10, <2>1 DEF WithinPace
  <2> QED BY Zenon, <2>2, <2>3
<1>12. CASE d # today
  <2>1. days'[d] = days[d]
    BY Zenon, <1>6, <1>12
  <2>2. Drawn(days[d]) \in Int /\ days[d].spent \in Int /\ days[d].anon \in Int
    BY Zenon, <1>10
  <2> QED BY <2>1, <2>2 DEF WithinBudget, WithinPace
<1> QED BY Zenon, <1>11, <1>12

\* Every step, on every day.
LEMMA NextWithin ==
    ASSUME Inv, [Next]_vars, NEW d \in Days
    PROVE  WithinBudget(d) /\ WithinPace(d)
<1>1. CASE \E p, q \in Parts, g \in 0..MaxMinted : Spend(p, q, g) \/ Reserve(p, q, g)
  <2>1. PICK p \in Parts, q \in Parts, g \in 0..MaxMinted : Charge(p, q, g)
    BY Zenon, <1>1 DEF Spend, Reserve
  <2>2. g \in Nat
    BY PoolsAssumption
  <2> QED BY Zenon, <2>1, <2>2, ChargeWithin
<1>2. \A x \in Days : Drawn(days[x]) \in Int /\ days[x].spent \in Int /\ days[x].anon \in Int
  <2>1. \A x \in Days : Sound(days[x])
    BY Zenon, InvDay
  <2>2. \A x \in Days : Drawn(days[x]) \in Int
    BY <2>1, DrawnIs
  <2>3. \A x \in Days : days[x].spent \in Int /\ days[x].anon \in Int
    BY <2>1 DEF Sound, DayType
  <2> QED BY Zenon, <2>2, <2>3
<1>3. CASE SomeSettle
  <2>1. \A x \in Days : /\ Drawn(days'[x]) <= Drawn(days[x]) /\ days'[x].spent <= days[x].spent
                        /\ days'[x].anon <= days[x].anon
    BY <1>3, SettleStep DEF SomeSettle
  <2>2. Inv'
    BY <1>3, SettleStep DEF SomeSettle
  <2>3. Sound(days'[d])
    BY Zenon, <2>2, InvDayNext
  <2>4. Drawn(days'[d]) \in Int /\ days'[d].spent \in Int /\ days'[d].anon \in Int
    BY <2>3, DrawnIs DEF Sound, DayType
  <2> QED BY <1>2, <2>1, <2>4 DEF WithinBudget, WithinPace
<1>4. CASE \E n \in 1..MaxMinted : Mint(n)
  BY <1>4, MintWithin, PoolsAssumption
<1>5. CASE days' = days
  BY <1>2, <1>5 DEF WithinBudget, WithinPace
<1>6. (\E p \in Params : SetParams(p)) \/ (\E l \in Levers : PullLever(l)) \/ Tick
        \/ UNCHANGED vars => days' = days
  BY Zenon DEF SetParams, PullLever, Tick, vars
<1> QED BY Zenon, <1>1, <1>3, <1>4, <1>5, <1>6 DEF Next

\* What a step draws is within the effective budget in force, even when a cut
\* left the day with more drawn than it may now hold.
THEOREM DrawsWithinBudget == Spec => DrawsStayWithinBudget
<1>1. Inv /\ [Next]_vars
        => [\A d \in Days : Drawn(days'[d]) > Drawn(days[d])
                            => Drawn(days'[d]) <= effectiveBudget(rp, lv)]_vars
  BY Zenon, NextWithin DEF WithinBudget
<1> QED BY <1>1, Invariant, PTL DEF Spec, DrawsStayWithinBudget

\* What a step draws for anonymous lots is within what today has released.
THEOREM AnonymousStaysPaced == Spec => AnonymousPaced
<1>1. Inv /\ [Next]_vars
        => [\A d \in Days : days'[d].anon > days[d].anon
              => d = today /\ days'[d].anon <= AnonCeiling(days'[d], rp, lv, tod)]_vars
  BY Zenon, NextWithin DEF WithinPace
<1> QED BY <1>1, Invariant, PTL DEF Spec, AnonymousPaced
=============================================================================
