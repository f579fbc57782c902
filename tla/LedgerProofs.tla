---------------------------- MODULE LedgerProofs ----------------------------
(***************************************************************************)
(* For any accounts, keys, units, times and limits: the ledger with its    *)
(* lots does to the rows of holds and transfers what LedgerRows allows, so *)
(* that what LedgerRowsProofs shows of them holds of the ledger; and what  *)
(* counts against a recipient's inbound cap is what was sent to it.        *)
(*                                                                         *)
(* For each operation there is a lemma on what it makes of the tables of   *)
(* holds and transfers, whatever it does to the lots (Is), one on what its *)
(* action does to the rows (Rows) and one on the usage (Inbound). A sweep  *)
(* is a run of a loop body over rows in some order (FinishChain): a row    *)
(* that was taken is never taken again, so the run as a whole touches each *)
(* of them once.  The results of LedgerRowsProofs come at the end, by an   *)
(* INSTANCE over the rows of the ledger (R).                               *)
(***************************************************************************)
EXTENDS Ledger, FiniteSetTheorems, WellFoundedInduction, TLAPS

\* The prover of every leaf that names no other.
USE Zenon

LEMMA TouchesNone ==
    ASSUME NEW f, Table(f)
    PROVE  Touches(f, f, {})
BY DEF Touches

-----------------------------------------------------------------------------
(* Sums: what SumFunctionOnSet(f, S) adds up to, for any function f and    *)
(* finite set S, by induction over the subsets of S.  The induction is a   *)
(* least counterexample of the library's well-founded order on finite      *)
(* subsets, for its induction theorems take operators.                     *)

Pick(s) == CHOOSE x \in s : TRUE

\* The recursion of SumFunctionOnSet.
Step(f, g, s) == IF s = {} THEN 0 ELSE f[Pick(s)] + g[s \ {Pick(s)}]
Solves(f, g, S) == g = [s \in SUBSET S |-> Step(f, g, s)]
Partial(f, S) == CHOOSE g : Solves(f, g, S)

LEMMA PickIn ==
    ASSUME NEW s, s # {}
    PROVE  Pick(s) \in s
<1>1. \E x \in s : TRUE
  OBVIOUS
<1> QED
  BY <1>1 DEF Pick

LEMMA Least ==
    ASSUME NEW R, NEW F, IsWellFoundedOn(R, F), NEW B, B \subseteq F, B # {}
    PROVE  \E x \in B : \A y \in B : ~(<<y, x>> \in R)
BY WFMin

\* A set of subsets of S that holds a set whenever it holds all smaller ones
\* holds them all.
LEMMA SubsetInduction ==
    ASSUME NEW S, IsFiniteSet(S), NEW T \in SUBSET SUBSET S,
           \A s \in SUBSET S : (\A u \in SUBSET s : u # s => u \in T) => s \in T
    PROVE  T = SUBSET S
<1> DEFINE B == (SUBSET S) \ T
           R == StrictSubsetOrdering(S)
           F == FiniteSubsetsOf(S)
<1>1. IsWellFoundedOn(R, F)
  BY FS_StrictSubsetOrderingWellFounded
<1>2. B \subseteq F
  BY FS_Subset DEF FiniteSubsetsOf
<1>3. SUFFICES ASSUME B # {} PROVE FALSE
  OBVIOUS
<1>4. \E x \in B : \A y \in B : ~(<<y, x>> \in R)
  <2> HIDE DEF B, R, F
  <2> QED
    BY SMT, <1>1, <1>2, <1>3, Least
<1>5. PICK x \in B : \A y \in B : ~(<<y, x>> \in R)
  BY <1>4
<1>6. ASSUME NEW u \in SUBSET x, u # x PROVE u \in T
  <2>1. <<u, x>> \in R
    BY <1>6 DEF StrictSubsetOrdering
  <2> QED
    BY <1>5, <2>1
<1> QED
  BY <1>6

LEMMA SumIs ==
    ASSUME NEW f, NEW S
    PROVE  SumFunctionOnSet(f, S) = Partial(f, S)[S]
BY DEF SumFunctionOnSet, FoldFunctionOnSet, MapThenFoldSet, Partial, Solves, Step, Pick

\* What solves the recursion on S solves it on a subset, and is determined.
LEMMA Determined ==
    ASSUME NEW f, NEW S, IsFiniteSet(S), NEW g, NEW h, NEW U, S \subseteq U,
           Solves(f, g, S), Solves(f, h, U)
    PROVE  \A s \in SUBSET S : g[s] = h[s]
<1> DEFINE T == {s \in SUBSET S : g[s] = h[s]}
<1>1. ASSUME NEW s \in SUBSET S, \A u \in SUBSET s : u # s => u \in T PROVE s \in T
  <2>1. g[s] = Step(f, g, s) /\ h[s] = Step(f, h, s)
    BY DEF Solves
  <2>2. CASE s = {}
    BY <2>1, <2>2 DEF Step
  <2>3. CASE s # {}
    <3>1. g[s \ {Pick(s)}] = h[s \ {Pick(s)}]
      BY <1>1, <2>3, PickIn
    <3> QED
      BY <2>1, <2>3, <3>1 DEF Step
  <2> QED
    BY <2>2, <2>3
<1>2. T \in SUBSET SUBSET S
  OBVIOUS
<1> HIDE DEF T
<1>3. T = SUBSET S
  BY <1>1, <1>2, SubsetInduction
<1> QED
  BY <1>3 DEF T

\* The recursion has a solution.
LEMMA Solvable ==
    ASSUME NEW f, NEW S, IsFiniteSet(S)
    PROVE  \A s \in SUBSET S : Solves(f, Partial(f, s), s)
<1> DEFINE T == {s \in SUBSET S : Solves(f, Partial(f, s), s)}
<1>1. ASSUME NEW s \in SUBSET S, \A u \in SUBSET s : u # s => u \in T PROVE s \in T
  <2> DEFINE Whole(u) == Partial(f, u)[u]
             g == [u \in SUBSET s |-> IF u = {} THEN 0 ELSE f[Pick(u)] + Whole(u \ {Pick(u)})]
  <2>1. ASSUME NEW u \in SUBSET s, u # s PROVE g[u] = Whole(u)
    <3>1. Solves(f, Partial(f, u), u)
      BY <1>1, <2>1
    <3>2. Whole(u) = Step(f, Partial(f, u), u)
      BY <3>1 DEF Solves
    <3>3. CASE u = {}
      BY <3>2, <3>3 DEF Step
    <3>4. CASE u # {}
      <4> DEFINE v == u \ {Pick(u)}
      <4>1. v \subseteq u /\ v # u /\ v # s /\ v \in SUBSET s /\ IsFiniteSet(v)
        BY <2>1, <3>4, PickIn, FS_Subset
      <4>2. Solves(f, Partial(f, v), v)
        BY <1>1, <4>1
      <4>3. Partial(f, v)[v] = Partial(f, u)[v]
        <5> HIDE DEF v
        <5>1. \A w \in SUBSET v : Partial(f, v)[w] = Partial(f, u)[w]
          BY SMT, <3>1, <4>1, <4>2, Determined
        <5> QED
          BY <5>1
      <4> QED
        BY <3>2, <3>4, <4>3 DEF Step
    <3> QED
      BY <3>3, <3>4
  <2>2. ASSUME NEW u \in SUBSET s PROVE g[u] = Step(f, g, u)
    <3>1. CASE u = {}
      BY <3>1 DEF Step
    <3>2. CASE u # {}
      <4>1. u \ {Pick(u)} \in SUBSET s /\ u \ {Pick(u)} # s
        BY <3>2, PickIn
      <4>2. g[u \ {Pick(u)}] = Whole(u \ {Pick(u)})
        BY <2>1, <4>1
      <4> QED
        BY <3>2, <4>2 DEF Step
    <3> QED
      BY <3>1, <3>2
  <2>3. Solves(f, g, s)
    BY <2>2 DEF Solves
  <2> HIDE DEF g
  <2>4. \E h : Solves(f, h, s)
    BY <2>3
  <2>5. Solves(f, Partial(f, s), s)
    BY <2>4 DEF Partial
  <2> QED
    BY <2>5
<1>2. T \in SUBSET SUBSET S
  OBVIOUS
<1> HIDE DEF T
<1>3. T = SUBSET S
  BY <1>1, <1>2, SubsetInduction
<1> QED
  BY <1>3 DEF T

\* The sum takes one element after another.
LEMMA SumStep ==
    ASSUME NEW f, NEW S, IsFiniteSet(S)
    PROVE  SumFunctionOnSet(f, S) =
             IF S = {} THEN 0 ELSE f[Pick(S)] + SumFunctionOnSet(f, S \ {Pick(S)})
<1>1. \A s \in SUBSET S : Solves(f, Partial(f, s), s)
  BY Solvable
<1>2. Partial(f, S)[S] = Step(f, Partial(f, S), S)
  BY <1>1 DEF Solves
<1>3. CASE S = {}
  BY <1>2, <1>3, SumIs DEF Step
<1>4. CASE S # {}
  <2> PICK v : v = S \ {Pick(S)}
    OBVIOUS
  <2>2. v \in SUBSET S /\ IsFiniteSet(v)
    BY FS_Subset
  <2>3. \A w \in SUBSET v : Partial(f, v)[w] = Partial(f, S)[w]
    BY SMT, <1>1, <2>2, Determined
  <2>4. Partial(f, v)[v] = Partial(f, S)[v]
    BY <2>3
  <2> QED
    BY <1>2, <1>4, <2>4, SumIs DEF Step
<1> QED
  BY <1>3, <1>4

\* A sum of integers is one.
LEMMA SumInt ==
    ASSUME NEW f, NEW S, IsFiniteSet(S), \A x \in S : f[x] \in Int
    PROVE  SumFunctionOnSet(f, S) \in Int
<1> DEFINE T == {s \in SUBSET S : SumFunctionOnSet(f, s) \in Int}
<1>1. ASSUME NEW s \in SUBSET S, \A u \in SUBSET s : u # s => u \in T PROVE s \in T
  <2>1. IsFiniteSet(s)
    BY FS_Subset
  <2>2. CASE s = {}
    <3>1. SumFunctionOnSet(f, s) = 0
      BY <2>1, <2>2, SumStep
    <3> QED
      BY SMT, <3>1
  <2>3. CASE s # {}
    <3>1. Pick(s) \in s /\ SumFunctionOnSet(f, s \ {Pick(s)}) \in Int
      BY <1>1, <2>3, PickIn
    <3> QED
      BY SMT, <2>1, <2>3, <3>1, SumStep
  <2> QED
    BY <2>2, <2>3
<1>2. T \in SUBSET SUBSET S
  OBVIOUS
<1> HIDE DEF T
<1>3. T = SUBSET S
  BY <1>1, <1>2, SubsetInduction
<1> QED
  BY <1>3 DEF T

\* Any element may be taken first.
LEMMA SumRemove ==
    ASSUME NEW f, NEW S, IsFiniteSet(S), \A x \in S : f[x] \in Int, NEW y \in S
    PROVE  SumFunctionOnSet(f, S) = f[y] + SumFunctionOnSet(f, S \ {y})
<1> DEFINE Whole(s) == SumFunctionOnSet(f, s)
           T == {s \in SUBSET S : \A x \in s : Whole(s) = f[x] + Whole(s \ {x})}
<1>1. ASSUME NEW s \in SUBSET S PROVE IsFiniteSet(s) /\ Whole(s) \in Int
  <2>1. IsFiniteSet(s)
    BY FS_Subset
  <2> QED
    BY <2>1, SumInt
<1>2. ASSUME NEW s \in SUBSET S, s # {} PROVE Pick(s) \in s /\ Whole(s) = f[Pick(s)] + Whole(s \ {Pick(s)})
  BY <1>1, <1>2, PickIn, SumStep
<1> HIDE DEF Whole
<1>3. ASSUME NEW s \in SUBSET S, \A u \in SUBSET s : u # s => u \in T PROVE s \in T
  <2> SUFFICES ASSUME NEW x \in s PROVE Whole(s) = f[x] + Whole(s \ {x})
    OBVIOUS
  <2> PICK p : p = Pick(s)
    OBVIOUS
  <2>2. p \in s /\ Whole(s) = f[p] + Whole(s \ {p})
    BY <1>2
  <2>3. CASE x = p
    BY <2>2, <2>3
  <2>4. CASE x # p
    <3>1. s \ {p} \in T /\ x \in s \ {p} /\ s \ {x} \in T /\ p \in s \ {x}
      BY <1>3, <2>2, <2>4
    <3>2. PICK rest \in Int : rest = Whole((s \ {p}) \ {x})
      BY <1>1
    <3>3. Whole(s \ {p}) = f[x] + rest
      BY <3>1, <3>2
    <3>4. (s \ {p}) \ {x} = (s \ {x}) \ {p}
      OBVIOUS
    <3>5. Whole(s \ {x}) = f[p] + rest
      BY <3>1, <3>2, <3>4
    <3>6. f[x] \in Int /\ f[p] \in Int
      BY <2>2
    <3>7. Whole(s) = f[p] + (f[x] + rest) /\ f[x] + Whole(s \ {x}) = f[x] + (f[p] + rest)
      BY <2>2, <3>3, <3>5
    <3>8. f[p] + (f[x] + rest) = f[x] + (f[p] + rest)
      BY SMT, <3>6
    <3> QED
      BY <3>7, <3>8
  <2> QED
    BY <2>3, <2>4
<1>4. T \in SUBSET SUBSET S
  OBVIOUS
<1>5. \A x \in S : T = SUBSET S => Whole(S) = f[x] + Whole(S \ {x})
  OBVIOUS
<1> HIDE DEF T
<1>6. T = SUBSET S
  BY <1>3, <1>4, SubsetInduction
<1> QED
  BY <1>5, <1>6 DEF Whole

\* One element more.
LEMMA SumAdd ==
    ASSUME NEW f, NEW S, IsFiniteSet(S), NEW y, y \notin S, \A x \in S \cup {y} : f[x] \in Int
    PROVE  SumFunctionOnSet(f, S \cup {y}) = SumFunctionOnSet(f, S) + f[y]
<1> PICK U : U = S \cup {y}
  OBVIOUS
<1>2. IsFiniteSet(U) /\ y \in U /\ U \ {y} = S /\ \A x \in U : f[x] \in Int
  BY FS_AddElement
<1>3. SumFunctionOnSet(f, U) = f[y] + SumFunctionOnSet(f, U \ {y})
  BY SMT, <1>2, SumRemove
<1>4. SumFunctionOnSet(f, S) \in Int /\ f[y] \in Int
  BY SumInt
<1>5. SumFunctionOnSet(f, U) = f[y] + SumFunctionOnSet(f, S)
  BY <1>2, <1>3
<1> QED
  BY SMT, <1>4, <1>5

\* A sum of natural numbers is one, and no smaller than that of a subset.
LEMMA SumSubset ==
    ASSUME NEW f, NEW S, IsFiniteSet(S), \A x \in S : f[x] \in Nat, NEW U \in SUBSET S
    PROVE  /\ SumFunctionOnSet(f, S) \in Nat /\ SumFunctionOnSet(f, U) \in Nat
           /\ SumFunctionOnSet(f, U) <= SumFunctionOnSet(f, S)
<1> DEFINE Whole(s) == SumFunctionOnSet(f, s)
           T == {s \in SUBSET S : /\ Whole(s) \in Nat
                                  /\ \A u \in SUBSET s : Whole(u) <= Whole(s)}
<1>1. ASSUME NEW s \in SUBSET S, NEW x \in s PROVE Whole(s) = f[x] + Whole(s \ {x})
  <2>1. IsFiniteSet(s) /\ \A y \in s : f[y] \in Int
    BY SMT, FS_Subset
  <2> QED
    BY SMT, <2>1, SumRemove
<1>2. Whole({}) = 0
  BY FS_EmptySet, SumStep
<1> HIDE DEF Whole
<1>3. ASSUME NEW s \in SUBSET S, \A u \in SUBSET s : u # s => u \in T PROVE s \in T
  <2>1. ASSUME NEW x \in s PROVE Whole(s \ {x}) \in Nat /\ Whole(s) = f[x] + Whole(s \ {x})
    BY <1>1, <1>3
  <2>2. Whole(s) \in Nat
    <3>1. CASE s = {}
      BY SMT, <1>2, <3>1
    <3>2. CASE s # {}
      <4>1. PICK x \in s : TRUE
        BY <3>2
      <4>2. Whole(s \ {x}) \in Nat /\ Whole(s) = f[x] + Whole(s \ {x}) /\ f[x] \in Nat
        BY <2>1
      <4> QED
        BY SMT, <4>2
    <3> QED
      BY <3>1, <3>2
  <2>3. ASSUME NEW u \in SUBSET s PROVE Whole(u) <= Whole(s)
    <3>1. CASE u = s
      BY SMT, <2>2, <3>1
    <3>2. CASE u # s
      <4>1. PICK x \in s : x \notin u
        BY <3>2
      <4> PICK v : v = s \ {x}
        OBVIOUS
      <4>3. v \in T /\ u \in SUBSET v /\ u \in T
        BY <1>3, <3>2, <4>1
      <4>4. Whole(u) <= Whole(v) /\ Whole(u) \in Nat /\ Whole(v) \in Nat
        BY <4>3
      <4>5. Whole(s) = f[x] + Whole(v) /\ f[x] \in Nat
        BY <2>1
      <4> QED
        BY SMT, <4>4, <4>5
    <3> QED
      BY <3>1, <3>2
  <2> QED
    BY <2>2, <2>3
<1>4. T \in SUBSET SUBSET S
  OBVIOUS
<1>5. S \in T /\ U \in T => Whole(S) \in Nat /\ Whole(U) \in Nat /\ Whole(U) <= Whole(S)
  OBVIOUS
<1> HIDE DEF T
<1>6. T = SUBSET S
  BY <1>3, <1>4, SubsetInduction
<1> QED
  BY <1>5, <1>6 DEF Whole

-----------------------------------------------------------------------------
(* More of sums, and the loops of a sweep.                                 *)

LEMMA SumSame ==
    ASSUME NEW S, IsFiniteSet(S), NEW f, NEW g, \A x \in S : f[x] = g[x]
    PROVE  SumFunctionOnSet(f, S) = SumFunctionOnSet(g, S)
<1> DEFINE T == {s \in SUBSET S : SumFunctionOnSet(f, s) = SumFunctionOnSet(g, s)}
<1>1. ASSUME NEW s \in SUBSET S, \A u \in SUBSET s : u # s => u \in T PROVE s \in T
  <2>1. IsFiniteSet(s)
    BY FS_Subset
  <2>2. CASE s = {}
    BY <2>1, <2>2, SumStep
  <2>3. CASE s # {}
    <3>1. Pick(s) \in s /\ SumFunctionOnSet(f, s \ {Pick(s)}) = SumFunctionOnSet(g, s \ {Pick(s)})
      BY <1>1, <2>3, PickIn
    <3>2. f[Pick(s)] = g[Pick(s)]
      BY <3>1
    <3>3. SumFunctionOnSet(f, s) = f[Pick(s)] + SumFunctionOnSet(f, s \ {Pick(s)})
      BY SMT, <2>1, <2>3, SumStep
    <3>4. SumFunctionOnSet(g, s) = g[Pick(s)] + SumFunctionOnSet(g, s \ {Pick(s)})
      BY SMT, <2>1, <2>3, SumStep
    <3> QED
      BY <3>1, <3>2, <3>3, <3>4
  <2> QED
    BY <2>2, <2>3
<1>2. T \in SUBSET SUBSET S
  OBVIOUS
<1> HIDE DEF T
<1>3. T = SUBSET S
  BY <1>1, <1>2, SubsetInduction
<1> QED
  BY <1>3 DEF T

LEMMA SumEmpty ==
    ASSUME NEW f
    PROVE  SumFunctionOnSet(f, {}) = 0
BY FS_EmptySet, SumStep

LEMMA SumNone == SumFunction(<<>>) = 0
<1>1. DOMAIN <<>> = {}
  BY SMT
<1> QED
  BY SMT, <1>1, SumEmpty DEF SumFunction

LEMMA SumNat ==
    ASSUME NEW S, IsFiniteSet(S), NEW f, \A x \in S : f[x] \in Nat
    PROVE  SumFunctionOnSet(f, S) \in Nat
BY SMT, SumSubset

LEMMA Counting ==
    ASSUME NEW n \in Nat, NEW T, 0 \in T, \A i \in 1..n : i - 1 \in T => i \in T
    PROVE  \A k \in 0..n : k \in T
<1> DEFINE B == {s \in SUBSET (1..n) : \A i \in 0..n : s = 1..i => i \in T}
<1>1. ASSUME NEW s \in SUBSET (1..n), \A u \in SUBSET s : u # s => u \in B PROVE s \in B
  <2> SUFFICES ASSUME NEW i \in 0..n, s = 1..i PROVE i \in T
    OBVIOUS
  <2>1. CASE i = 0
    BY <2>1
  <2>2. CASE i # 0
    <3>1. i \in 1..n /\ i - 1 \in 0..n /\ 1..(i - 1) \in SUBSET s /\ 1..(i - 1) # s
      BY SMT, <2>2
    <3>2. 1..(i - 1) \in B
      BY <1>1, <3>1
    <3> QED
      BY <3>1, <3>2
  <2> QED
    BY <2>1, <2>2
<1> PICK S : S = 1..n
  OBVIOUS
<1>3. IsFiniteSet(S) /\ B \in SUBSET SUBSET S
  <2>1. IsFiniteSet(1..n)
    BY SMT, FS_Interval
  <2> QED
    BY <2>1
<1>4. B = SUBSET S
  <2> HIDE DEF B
  <2> QED
    BY <1>1, <1>3, SubsetInduction
<1>5. ASSUME NEW k \in 0..n PROVE 1..k \in SUBSET S
  BY SMT
<1> QED
  BY <1>4, <1>5

\* r[i] is d with the first i rows of due finished.
FinishChain(r, d, due, n) == r[0] = d /\ \A i \in 1..n : r[i] = finish(r[i - 1], due[i])
Runs(r, d, due, n) == r = [i \in 0..n |-> IF i = 0 THEN d ELSE finish(r[i - 1], due[i])]

LEMMA FinishSteps ==
    ASSUME NEW d, NEW due, NEW n \in Nat
    PROVE  \E r : FinishChain(r, d, due, n) /\ finishAll(d, due, n) = r[n]
<1> DEFINE T == {m \in 0..n : \E r : Runs(r, d, due, m)}
<1>1. 0 \in T
  <2> PICK r : r = [i \in 0..0 |-> d]
    OBVIOUS
  <2>2. \A i \in 0..0 : i = 0
    BY SMT
  <2>3. Runs(r, d, due, 0)
    BY <2>2 DEF Runs
  <2>4. 0 \in 0..n
    BY SMT
  <2> QED
    BY <2>3, <2>4
<1>2. ASSUME NEW i \in 1..n, i - 1 \in T PROVE i \in T
  <2>1. PICK q : Runs(q, d, due, i - 1)
    BY <1>2
  <2> PICK r : r = [j \in 0..i |-> IF j = i THEN finish(q[i - 1], due[i]) ELSE q[j]]
    OBVIOUS
  <2>3. ASSUME NEW j \in 0..i PROVE r[j] = IF j = 0 THEN d ELSE finish(r[j - 1], due[j])
    <3>1. CASE j = i
      <4>1. j # 0 /\ j - 1 \in 0..i /\ j - 1 # i
        BY SMT, <3>1
      <4>2. r[j - 1] = q[j - 1]
        BY <4>1
      <4> QED
        BY <3>1, <4>1, <4>2
    <3>2. CASE j # i /\ j # 0
      <4>1. j \in 0..(i - 1) /\ j - 1 \in 0..i /\ j - 1 # i
        BY SMT, <3>2
      <4>2. r[j - 1] = q[j - 1] /\ r[j] = q[j]
        BY <3>2, <4>1
      <4>3. q[j] = finish(q[j - 1], due[j])
        BY <2>1, <3>2, <4>1 DEF Runs
      <4> QED
        BY <3>2, <4>2, <4>3
    <3>3. CASE j # i /\ j = 0
      <4>1. 0 \in 0..(i - 1)
        BY SMT
      <4>2. q[0] = d
        BY <2>1, <4>1 DEF Runs
      <4> QED
        BY <3>3, <4>2
    <3> QED
      BY <3>1, <3>2, <3>3
  <2>4. Runs(r, d, due, i)
    <3>1. DOMAIN r = 0..i /\ r = [j \in 0..i |-> r[j]]
      OBVIOUS
    <3> QED
      BY <2>3, <3>1 DEF Runs
  <2>5. i \in 0..n
    BY SMT
  <2> QED
    BY <2>4, <2>5
<1>3. \A k \in 0..n : k \in T
  <2> HIDE DEF T
  <2> QED
    BY <1>1, <1>2, Counting
<1>4. n \in 0..n
  BY SMT
<1>5. \E r : Runs(r, d, due, n)
  BY <1>3, <1>4
<1> PICK r : r = CHOOSE q : Runs(q, d, due, n)
  OBVIOUS
<1>7. Runs(r, d, due, n)
  BY <1>5
<1>8. finishAll(d, due, n) = r[n]
  BY DEF finishAll, Runs
<1>9. FinishChain(r, d, due, n)
  <2>1. 0 \in 0..n /\ \A i \in 1..n : i \in 0..n /\ i # 0
    BY SMT
  <2> QED
    BY <1>7, <2>1 DEF Runs, FinishChain
<1> QED
  BY <1>8, <1>9

-----------------------------------------------------------------------------
(* What the operations make of the rows.                                   *)

Tables(d) == d = [lots |-> d.lots, holds |-> d.holds, transfers |-> d.transfers,
                  incoming |-> d.incoming, journal |-> d.journal]

\* d and f differ in lots and journal only.
SameRows(d, f) == /\ Tables(f) /\ f.holds = d.holds
                  /\ f.transfers = d.transfers /\ f.incoming = d.incoming

EndHold(hs, id, state, used) == [hs EXCEPT ![id].state = state, ![id].used = used]
FreeHold(hs, id) == [hs EXCEPT ![id].state = "refunded"]
EndTransfer(ts, id, state) == [ts EXCEPT ![id].state = state]
Counted(in, day, b, n) == [in EXCEPT ![day][b] = @ + n]
Uncounted(in, day, b, n) == [in EXCEPT ![day][b] = @ - n]
MoveHold(hs, src, into, n, left, joint) ==
    [hs EXCEPT ![src].parts = left, ![src].max = @ - n,
               ![into].parts = joint, ![into].max = @ + n]

Settles(d, f, id, used, final) ==
    /\ Tables(f) /\ f.holds = EndHold(d.holds, id, final, used)
    /\ f.transfers = d.transfers /\ f.incoming = d.incoming

LEMMA SettleIs ==
    ASSUME NEW d, Tables(d), NEW id, NEW used, NEW final
    PROVE  Settles(d, settle(d, id, used, final), id, used, final)
<1> PICK f : f = settle(d, id, used, final)
  OBVIOUS
<1>2. Settles(d, f, id, used, final)
  BY DEF Tables, settle, Settles, EndHold
<1> QED
  BY <1>2

LEMMA ExpireIs ==
    ASSUME NEW d, Tables(d), NEW A
    PROVE  SameRows(d, expireLots(d, A))
<1> PICK f : f = expireLots(d, A)
  OBVIOUS
<1>2. SameRows(d, f)
  BY DEF Tables, expireLots, SameRows
<1> QED
  BY <1>2

LEMMA DecayIs ==
    ASSUME NEW d, Tables(d), NEW keep
    PROVE  SameRows(d, decay(d, keep))
<1> PICK f : f = decay(d, keep)
  OBVIOUS
<1>2. SameRows(d, f)
  BY DEF Tables, decay, SameRows
<1> QED
  BY <1>2

LEMMA ClaimIs ==
    ASSUME NEW d, Tables(d), NEW a, NEW e
    PROVE  SameRows(d, claim(d, a, e))
<1> PICK f : f = claim(d, a, e)
  OBVIOUS
<1>2. SameRows(d, f)
  BY DEF Tables, claim, SameRows
<1> QED
  BY <1>2

LEMMA DebitIs ==
    ASSUME NEW d, Tables(d), NEW a, NEW parts
    PROVE  SameRows(d, debit(d, a, parts))
<1> PICK f : f = debit(d, a, parts)
  OBVIOUS
<1>2. SameRows(d, f)
  BY DEF Tables, debit, SameRows
<1> QED
  BY <1>2

LEMMA MintIs ==
    ASSUME NEW d, Tables(d), NEW a, NEW bucket, NEW n
    PROVE  SameRows(d, mint(d, a, bucket, n))
<1> PICK f : f = mint(d, a, bucket, n)
  OBVIOUS
<1>2. SameRows(d, f)
  BY DEF Tables, mint, SameRows
<1> QED
  BY <1>2

LEMMA MoveIs ==
    ASSUME NEW d, Tables(d), NEW a, NEW b, NEW parts, NEW held
    PROVE  SameRows(d, moveParts(d, a, b, parts, held))
<1> PICK f : f = moveParts(d, a, b, parts, held)
  OBVIOUS
<1>2. SameRows(d, f)
  BY DEF Tables, moveParts, SameRows
<1> QED
  BY <1>2

Holds(d, f, id, service, parts, expires) ==
    /\ Tables(f) /\ f.holds = insert(d.holds, id, NewHold(service, parts, expires))
    /\ f.transfers = d.transfers /\ f.incoming = d.incoming

LEMMA HoldIs ==
    ASSUME NEW d, Tables(d), NEW id, NEW service, NEW parts, NEW expires
    PROVE  Holds(d, hold(d, id, service, parts, expires), id, service, parts, expires)
<1> PICK f : f = hold(d, id, service, parts, expires)
  OBVIOUS
<1>2. Holds(d, f, id, service, parts, expires)
  BY DEF Tables, hold, Holds
<1> QED
  BY <1>2

Records(d, f, id, t) ==
    /\ Tables(f) /\ f.holds = d.holds /\ f.transfers = insert(d.transfers, id, t)
    /\ f.incoming = Counted(d.incoming, today, t.to, t.amount)

LEMMA RecordIs ==
    ASSUME NEW d, Tables(d), NEW id, NEW t
    PROVE  Records(d, record(d, id, t), id, t)
<1> PICK f : f = record(d, id, t)
  OBVIOUS
<1>2. Records(d, f, id, t)
  BY DEF Tables, record, Records, Counted
<1> QED
  BY <1>2

Releases(d, f, id) ==
    LET t == d.transfers[id]
    IN  /\ Tables(f) /\ f.holds = FreeHold(d.holds, id)
        /\ f.transfers = EndTransfer(d.transfers, id, "cancelled")
        /\ f.incoming = Uncounted(d.incoming, t.created \div DayLen, t.to, t.amount)

LEMMA ReleaseIs ==
    ASSUME NEW d, Tables(d), NEW id
    PROVE  Releases(d, release(d, id), id)
<1> PICK f : f = release(d, id)
  OBVIOUS
<1>2. Releases(d, f, id)
  BY DEF Tables, release, Releases, FreeHold, EndTransfer, Uncounted
<1> QED
  BY <1>2

Pays(d, f, id) ==
    /\ Tables(f) /\ f.holds = EndHold(d.holds, id, "committed", Moved(d.holds[id].parts))
    /\ f.transfers = d.transfers /\ f.incoming = d.incoming

LEMMA PayIs ==
    ASSUME NEW d, Tables(d), NEW id, NEW b
    PROVE  Pays(d, pay(d, id, b), id)
<1> PICK parts : parts = d.holds[id].parts
  OBVIOUS
<1> PICK g : g = moveParts(d, id.account, b, parts, TRUE)
  OBVIOUS
<1>3. SameRows(d, g)
  BY MoveIs
<1> PICK f : f = [g EXCEPT !.holds[id].state = "committed", !.holds[id].used = Moved(parts)]
  OBVIOUS
<1>5. pay(d, id, b) = f
  BY DEF pay
<1>6. /\ Tables(f) /\ f.holds = EndHold(g.holds, id, "committed", Moved(parts))
      /\ f.transfers = g.transfers /\ f.incoming = g.incoming
  <2>1. Tables(g)
    BY <1>3 DEF SameRows
  <2> QED
    BY <2>1 DEF Tables, EndHold
<1> QED
  BY <1>3, <1>5, <1>6 DEF SameRows, Pays

Executes(d, f, id) ==
    /\ Tables(f) /\ f.holds = EndHold(d.holds, id, "committed", Moved(d.holds[id].parts))
    /\ f.transfers = EndTransfer(d.transfers, id, "done") /\ f.incoming = d.incoming

LEMMA ExecuteIs ==
    ASSUME NEW d, Tables(d), NEW id
    PROVE  Releases(d, executeDue(d, id), id) \/ Executes(d, executeDue(d, id), id)
<1> PICK b : b = d.transfers[id].to
  OBVIOUS
<1>2. CASE ~Receives(d, b, d.holds[id].parts)
  BY <1>2, ReleaseIs DEF executeDue
<1>3. CASE Receives(d, b, d.holds[id].parts)
  <2> PICK p : p = pay(d, id, b)
    OBVIOUS
  <2>2. Pays(d, p, id)
    BY PayIs
  <2> PICK f : f = [p EXCEPT !.transfers[id].state = "done"]
    OBVIOUS
  <2>4. executeDue(d, id) = f
    BY <1>3 DEF executeDue
  <2>5. Tables(p)
    BY <2>2 DEF Pays
  <2>6. /\ Tables(f) /\ f.holds = p.holds /\ f.incoming = p.incoming
        /\ f.transfers = EndTransfer(p.transfers, id, "done")
    BY <2>5 DEF Tables, EndTransfer
  <2> QED
    BY <2>2, <2>4, <2>6 DEF Pays, Executes
<1> QED
  BY <1>2, <1>3

MovesEscrow(d, f, src, into, n) ==
    /\ Tables(f) /\ f.transfers = d.transfers /\ f.incoming = d.incoming
    /\ \E left, joint : f.holds = MoveHold(d.holds, src, into, n, left, joint)

LEMMA MoveEscrowIs ==
    ASSUME NEW d, Tables(d), NEW src, NEW into, NEW n
    PROVE  MovesEscrow(d, moveEscrow(d, src, into, n), src, into, n)
<1> PICK f : f = moveEscrow(d, src, into, n)
  OBVIOUS
<1> PICK from, to : from = d.holds[src].parts /\ to = d.holds[into].parts
  OBVIOUS
<1> PICK moved : moved = plan(d.lots, from, n)
  OBVIOUS
<1>4. PICK left, joint :
          /\ left = Positive([k \in DOMAIN from |-> from[k] - At(moved, k)])
          /\ joint = [k \in DOMAIN to \cup DOMAIN moved |-> At(to, k) + At(moved, k)]
  OBVIOUS
<1>5. /\ Tables(f) /\ f.transfers = d.transfers /\ f.incoming = d.incoming
      /\ f.holds = MoveHold(d.holds, src, into, n, left, joint)
  BY <1>4 DEF Tables, moveEscrow, MoveHold
<1> QED
  BY <1>5 DEF MovesEscrow

LEMMA ConstantsAre ==
    /\ Active \subseteq Accounts /\ Untils \subseteq Nat
    /\ InboundCap \in Nat /\ TransferDelay \in Nat /\ Horizon \in Nat /\ MaxUnits \in Nat
    /\ DayLen \in Nat /\ DayLen > 0 /\ TTL \in Nat /\ TTL > 0
BY SMT, LedgerAssumption, RowsAssumption

Inserts(f, g, x, row) == Touches(f, g, {x}) /\ g[x] = row

LEMMA InsertIs ==
    ASSUME NEW f, NEW x, NEW row
    PROVE  Inserts(f, insert(f, x, row), x, row)
<1> PICK g : g = insert(f, x, row)
  OBVIOUS
<1>2. Inserts(f, g, x, row)
  BY DEF insert, Inserts, Touches, Table
<1> QED
  BY <1>2

LEMMA EndHoldIs ==
    ASSUME NEW hs, HoldsOK(hs), NEW id \in DOMAIN hs, NEW state \in HoldStates, NEW used
    PROVE  EndsAs(hs, EndHold(hs, id, state, used), id, state, used)
<1> PICK g : g = EndHold(hs, id, state, used)
  OBVIOUS
<1> PICK h : h = hs[id]
  OBVIOUS
<1>3. IsHold(h)
  BY DEF HoldsOK
<1>4. Touches(hs, g, {id}) /\ g[id] = [h EXCEPT !.state = state, !.used = used]
  BY DEF EndHold, Touches, Table, HoldsOK
<1>5. Ended(h, [h EXCEPT !.state = state, !.used = used], state) /\ [h EXCEPT !.state = state, !.used = used].used = used
  BY <1>3 DEF IsHold, Ended
<1> QED
  BY <1>4, <1>5 DEF EndsAs

LEMMA FreeHoldIs ==
    ASSUME NEW hs, HoldsOK(hs), NEW id \in DOMAIN hs
    PROVE  EndsAs(hs, FreeHold(hs, id), id, "refunded", hs[id].used)
<1> PICK g : g = FreeHold(hs, id)
  OBVIOUS
<1> PICK h : h = hs[id]
  OBVIOUS
<1>3. IsHold(h)
  BY DEF HoldsOK
<1>4. Touches(hs, g, {id}) /\ g[id] = [h EXCEPT !.state = "refunded"]
  BY DEF FreeHold, Touches, Table, HoldsOK
<1>5. Ended(h, [h EXCEPT !.state = "refunded"], "refunded") /\ [h EXCEPT !.state = "refunded"].used = h.used
  BY SMT, <1>3 DEF IsHold, Ended, HoldStates
<1> QED
  BY <1>4, <1>5 DEF EndsAs

LEMMA EndTransferIs ==
    ASSUME NEW ts, TransfersOK(ts), NEW id \in DOMAIN ts, NEW state \in {"pending", "done", "cancelled"}
    PROVE  LET us == EndTransfer(ts, id, state)
           IN  /\ Touches(ts, us, {id}) /\ IsTransfer(us[id]) /\ us[id].state = state
               /\ us[id].to = ts[id].to /\ us[id].amount = ts[id].amount
               /\ us[id].created = ts[id].created /\ us[id].execute = ts[id].execute
<1> PICK g : g = EndTransfer(ts, id, state)
  OBVIOUS
<1> PICK t : t = ts[id]
  OBVIOUS
<1>3. IsTransfer(t)
  BY DEF TransfersOK
<1>4. Touches(ts, g, {id}) /\ g[id] = [t EXCEPT !.state = state]
  BY DEF EndTransfer, Touches, Table, TransfersOK
<1> PICK u : u = [t EXCEPT !.state = state]
  OBVIOUS
<1>6. /\ IsTransfer(u) /\ u.state = state /\ u.to = t.to /\ u.amount = t.amount
      /\ u.created = t.created /\ u.execute = t.execute
  BY SMT, <1>3 DEF IsTransfer
<1> QED
  BY <1>4, <1>6

LEMMA MoveHoldIs ==
    ASSUME NEW hs, HoldsOK(hs), NEW src \in DOMAIN hs, NEW into \in DOMAIN hs, src # into,
           NEW n \in Nat, n <= hs[src].max, NEW left, NEW joint
    PROVE  LET gs == MoveHold(hs, src, into, n, left, joint)
           IN  /\ Touches(hs, gs, {src, into})
               /\ Resized(hs[src], gs[src], hs[src].max - n)
               /\ Resized(hs[into], gs[into], hs[into].max + n)
<1> PICK g : g = MoveHold(hs, src, into, n, left, joint)
  OBVIOUS
<1> PICK h, i : h = hs[src] /\ i = hs[into]
  OBVIOUS
<1>3. IsHold(h) /\ IsHold(i)
  BY DEF HoldsOK
<1>4. /\ Touches(hs, g, {src, into})
      /\ g[src] = [h EXCEPT !.parts = left, !.max = h.max - n]
      /\ g[into] = [i EXCEPT !.parts = joint, !.max = i.max + n]
  BY DEF MoveHold, Touches, Table, HoldsOK
<1> PICK p, q : p = h.max - n /\ q = i.max + n
  OBVIOUS
<1>6. p \in Nat /\ q \in Nat
  BY SMT, <1>3 DEF IsHold
<1>7. PICK h2, i2 : /\ h2 = [h EXCEPT !.parts = left, !.max = p]
                    /\ i2 = [i EXCEPT !.parts = joint, !.max = q]
  OBVIOUS
<1>8. Resized(h, h2, p)
  BY <1>3, <1>6, <1>7 DEF IsHold, Resized
<1>9. Resized(i, i2, q)
  BY <1>3, <1>6, <1>7 DEF IsHold, Resized
<1> QED
  BY <1>4, <1>7, <1>8, <1>9

LEMMA NewHoldIs ==
    ASSUME NEW service \in {"call", "deposit", "ledger"}, NEW parts, NEW n \in Nat,
           SumFunction(parts) = n, NEW expires \in Nat
    PROVE  IsNew(NewHold(service, parts, expires), service, n, expires)
<1> PICK h : h = NewHold(service, parts, expires)
  OBVIOUS
<1>2. h = [service |-> service, max |-> n, used |-> 0, state |-> "held",
           expires |-> expires, parts |-> parts, reimbursed |-> FALSE]
  BY DEF NewHold
<1>3. IsNew(h, service, n, expires)
  BY SMT, <1>2 DEF IsNew, IsHold, HoldStates
<1> QED
  BY <1>3

-----------------------------------------------------------------------------
(* What the actions make of the rows, and of the usage of a day.           *)

LEMMA DbTables == Tables(db)
BY DEF Tables, db

LEMMA SameSame ==
    ASSUME NEW d, NEW f, NEW g, SameRows(d, f), SameRows(f, g)
    PROVE  SameRows(d, g)
BY DEF SameRows

LEMMA PreludeRows ==
    ASSUME NEW d, Tables(d), NEW a, NEW e
    PROVE  SameRows(d, prelude(d, a, e))
<1> PICK f : f = expireLots(d, {a})
  OBVIOUS
<1>2. SameRows(d, f) /\ Tables(f)
  BY ExpireIs DEF SameRows
<1>3. SameRows(f, claim(f, a, e))
  BY <1>2, ClaimIs
<1> QED
  BY <1>2, <1>3, SameSame DEF prelude

LEMMA FeeRows ==
    ASSUME NEW d, Tables(d), NEW a, NEW e, NEW w
    PROVE  SameRows(d, withFee(prelude(d, a, e), a, e, w))
<1> PICK f : f = prelude(d, a, e)
  OBVIOUS
<1>2. SameRows(d, f) /\ Tables(f)
  BY PreludeRows DEF SameRows
<1> PICK parts : parts = planSpend(f.lots, a, e, Fee, w)
  OBVIOUS
<1>4. SameRows(f, debit(f, a, parts))
  BY <1>2, DebitIs
<1>5. SameRows(f, withFee(f, a, e, w))
  BY <1>4 DEF withFee
<1> QED
  BY <1>2, <1>5, SameSame

\* No transfer is made or ended; a new one, and what it counts for.
SameSent == transfers' = transfers /\ incoming' = incoming
SentRow(id, b, n, state, execute) ==
    /\ SendRow(id, b, n, state, execute)
    /\ incoming' = Counted(incoming, today, b, n)
    /\ incoming[today][b] + n <= InboundCap

LEMMA WriteSame ==
    ASSUME NEW f, SameRows(db, f), Write(f)
    PROVE  holds' = holds /\ SameSent
BY DEF SameRows, Write, SameSent, db

Opens(f, id, service, n, expires) ==
    /\ Tables(f) /\ f.transfers = transfers /\ f.incoming = incoming
    /\ Touches(holds, f.holds, {id}) /\ IsNew(f.holds[id], service, n, expires)

LEMMA WriteHold ==
    ASSUME NEW d, SameRows(db, d), NEW id \in Ids, id \notin DOMAIN holds,
           NEW service \in {"call", "deposit", "ledger"}, NEW parts, NEW n \in Nat,
           SumFunction(parts) = n, NEW expires \in Nat
    PROVE  Opens(hold(d, id, service, parts, expires), id, service, n, expires)
<1> PICK f : f = hold(d, id, service, parts, expires)
  OBVIOUS
<1>1. Tables(d) /\ d.holds = holds /\ d.transfers = transfers /\ d.incoming = incoming
  BY DEF SameRows, db
<1>2. Holds(d, f, id, service, parts, expires)
  BY <1>1, HoldIs
<1>3. IsNew(NewHold(service, parts, expires), service, n, expires)
  BY NewHoldIs
<1>4. f.holds = insert(holds, id, NewHold(service, parts, expires))
  BY <1>1, <1>2 DEF Holds
<1> PICK row : row = NewHold(service, parts, expires)
  OBVIOUS
<1>6. Inserts(holds, insert(holds, id, row), id, row)
  BY InsertIs
<1>7. Touches(holds, f.holds, {id}) /\ f.holds[id] = row
  BY <1>4, <1>6 DEF Inserts
<1>8. Tables(f) /\ f.transfers = transfers /\ f.incoming = incoming
  BY <1>1, <1>2 DEF Holds
<1> QED
  BY <1>3, <1>7, <1>8 DEF Opens

LEMMA ReserveRows ==
    ASSUME Clock, NEW a \in Active, NEW e, NEW key \in CallKeys \cup DepositKeys,
           NEW n \in Units, NEW w, Reserve(a, e, key, n, w)
    PROVE  /\ OpenRow(Id(a, "service", key), ServiceOf(key), n, now + TTL)
           /\ now + TTL <= Horizon /\ SameSent
<1> PICK d : d = prelude(db, a, e)
  OBVIOUS
<1> PICK id : id = Id(a, "service", key)
  OBVIOUS
<1> PICK parts : parts = planSpend(d.lots, a, e, n, w)
  OBVIOUS
<1> PICK f : f = hold(d, id, ServiceOf(key), parts, now + TTL)
  OBVIOUS
<1>5. SumFunction(parts) = n /\ id \notin DOMAIN holds /\ now + TTL <= Horizon /\ Write(f)
  BY DEF Reserve, ServiceOf
<1>6. SameRows(db, d)
  BY PreludeRows, DbTables
<1>7. id \in Ids
  BY ConstantsAre DEF Ids, Id
<1>8. n \in Nat /\ now + TTL \in Nat
  BY SMT, ConstantsAre DEF Units, Clock
<1>9. ServiceOf(key) \in {"call", "deposit", "ledger"}
  BY DEF ServiceOf
<1>10. Opens(f, id, ServiceOf(key), n, now + TTL)
  BY <1>5, <1>6, <1>7, <1>8, <1>9, WriteHold
<1> QED
  BY <1>5, <1>7, <1>10 DEF Opens, OpenRow, SameSent, Write

LEMMA EscrowRows ==
    ASSUME Clock, NEW a \in Active, NEW e, NEW key \in EscrowKeys,
           NEW n \in Units, NEW until \in Untils, NEW w, Escrow(a, e, key, n, until, w)
    PROVE  OpenRow(Id(a, "escrow", key), "ledger", n, until) /\ SameSent
<1> PICK d : d = withFee(prelude(db, a, e), a, e, w)
  OBVIOUS
<1> PICK id : id = Id(a, "escrow", key)
  OBVIOUS
<1> PICK parts : parts = planMove(d, a, e, n, until)
  OBVIOUS
<1> PICK f : f = hold(d, id, "ledger", parts, until)
  OBVIOUS
<1>5. SumFunction(parts) = n /\ id \notin DOMAIN holds /\ Write(f)
  BY DEF Escrow
<1>6. SameRows(db, d)
  BY FeeRows, DbTables
<1>7. id \in Ids
  BY ConstantsAre DEF Ids, Id
<1>8. n \in Nat /\ until \in Nat
  BY SMT, ConstantsAre DEF Units
<1>9. Opens(f, id, "ledger", n, until)
  BY <1>5, <1>6, <1>7, <1>8, WriteHold
<1> QED
  BY <1>5, <1>7, <1>9 DEF Opens, OpenRow, SameSent, Write

LEMMA SettleRows ==
    ASSUME NEW id, HoldsOK(holds), Settleable(id), NEW used,
           NEW state \in HoldStates, Write(settle(db, id, used, state))
    PROVE  EndRow(id, state, used) /\ SameSent
<1> PICK f : f = settle(db, id, used, state)
  OBVIOUS
<1>2. Settles(db, f, id, used, state)
  BY SettleIs, DbTables
<1>3. holds' = EndHold(holds, id, state, used) /\ SameSent
  BY <1>2 DEF Settles, Write, SameSent, db
<1>4. id \in DOMAIN holds /\ holds[id].state = "held"
  BY DEF Settleable, IsService
<1> PICK hs : hs = EndHold(holds, id, state, used)
  OBVIOUS
<1>6. EndsAs(holds, hs, id, state, used)
  BY <1>4, EndHoldIs
<1> QED
  BY <1>3, <1>4, <1>6 DEF EndRow

LEMMA EscrowReleaseRows ==
    ASSUME NEW id, HoldsOK(holds), EscrowRelease(id)
    PROVE  EndRow(id, "refunded", holds[id].used) /\ SameSent
<1> PICK f : f = [db EXCEPT !.lots = takeFrom(lots, <<>>, holds[id].parts),
                              !.holds[id].state = "refunded"]
  OBVIOUS
<1>2. f.holds = FreeHold(holds, id) /\ f.transfers = transfers /\ f.incoming = incoming
  BY DEF db, FreeHold
<1>3. holds' = FreeHold(holds, id) /\ SameSent /\ Unpaid(id)
  BY <1>2 DEF EscrowRelease, Write, SameSent
<1>4. id \in DOMAIN holds /\ holds[id].state = "held"
  BY <1>3 DEF Unpaid
<1> PICK hs : hs = FreeHold(holds, id)
  OBVIOUS
<1>6. EndsAs(holds, hs, id, "refunded", holds[id].used)
  BY <1>4, FreeHoldIs
<1> QED
  BY <1>3, <1>4, <1>6 DEF EndRow

LEMMA ReimburseRows ==
    ASSUME NEW id, HoldsOK(holds), Reimburse(id)
    PROVE  ReimburseRow(id) /\ SameSent
<1> PICK m : m = Lesser(holds[id].used, SumFunctionOnSet(holds[id].parts,
                              {k \in DOMAIN holds[id].parts : k.bucket # "paid"}))
  OBVIOUS
<1> PICK d1 : d1 = mint(db, id.account, "granted", m)
  OBVIOUS
<1> PICK d2 : d2 = mint(d1, id.account, "paid", holds[id].used - m)
  OBVIOUS
<1> PICK f : f = [d2 EXCEPT !.holds[id].reimbursed = TRUE]
  OBVIOUS
<1>5. /\ IsService(id) /\ holds[id].state \in {"committed", "expired"}
      /\ ~holds[id].reimbursed /\ Write(f)
  BY DEF Reimburse
<1>6. SameRows(db, d1)
  BY MintIs, DbTables
<1>7. SameRows(d1, d2)
  <2>1. Tables(d1)
    BY <1>6 DEF SameRows
  <2> QED
    BY <2>1, MintIs
<1>8. SameRows(db, d2)
  BY <1>6, <1>7, SameSame
<1>9. Tables(d2) /\ d2.holds = holds /\ d2.transfers = transfers /\ d2.incoming = incoming
  BY <1>8 DEF SameRows, db
<1>10. /\ f.holds = [d2.holds EXCEPT ![id] = Marked(d2.holds[id])]
       /\ f.transfers = d2.transfers /\ f.incoming = d2.incoming
  BY <1>9 DEF Tables, Marked
<1>11. holds' = [holds EXCEPT ![id] = Marked(holds[id])] /\ SameSent
  BY <1>5, <1>9, <1>10 DEF Write, SameSent
<1>12. id \in DOMAIN holds /\ id.kind = "service" /\ holds[id].state # "held"
  BY <1>5 DEF IsService
<1>13. Touches(holds, holds', {id}) /\ holds'[id] = Marked(holds[id])
  BY <1>11, <1>12 DEF Touches, Table
<1> QED
  BY <1>5, <1>11, <1>12, <1>13 DEF ReimburseRow, IsService

Sends(t, b, n) == IsTransfer(t) /\ t.to = b /\ t.amount = n

LEMMA NewTransferIs ==
    ASSUME Clock, NEW b \in Accounts, NEW n \in Nat, NEW state \in {"pending", "done"},
           NEW execute \in Nat
    PROVE  Sends(NewTransfer(b, n, state, execute), b, n)
BY SMT DEF Sends, IsTransfer, NewTransfer, Clock

LEMMA WriteTransfer ==
    ASSUME Clock, NEW d, Tables(d), d.transfers = transfers, d.incoming = incoming,
           NEW id \in Ids, id \notin DOMAIN transfers, NEW b \in Accounts, NEW n \in Nat,
           NEW state \in {"pending", "done"}, NEW execute \in Nat,
           incoming[today][b] + n <= InboundCap,
           Write(record(d, id, NewTransfer(b, n, state, execute)))
    PROVE  SentRow(id, b, n, state, execute) /\ holds' = d.holds
<1> PICK t : t = NewTransfer(b, n, state, execute)
  OBVIOUS
<1>2. Sends(t, b, n)
  BY NewTransferIs
<1> PICK f : f = record(d, id, t)
  OBVIOUS
<1>4. Records(d, f, id, t) /\ Write(f)
  BY RecordIs
<1>5. /\ transfers' = insert(transfers, id, t) /\ incoming' = Counted(incoming, today, b, n)
      /\ holds' = d.holds
  BY <1>2, <1>4 DEF Sends, Records, Write
<1>6. Inserts(transfers, insert(transfers, id, t), id, t)
  BY InsertIs
<1>7. Touches(transfers, transfers', {id}) /\ transfers'[id] = t
  BY <1>5, <1>6 DEF Inserts
<1> QED
  BY <1>2, <1>5, <1>7 DEF Sends, SendRow, SentRow

LEMMA TransferRows ==
    ASSUME Clock, NEW a \in Active, NEW b \in Accounts, NEW e, NEW key \in TransferKeys,
           NEW n \in Units, NEW w, Transfer(a, b, e, key, n, w)
    PROVE  LET id == Id(a, "transfer", key)
           IN  \/ SentRow(id, b, n, "done", now) /\ holds' = holds
               \/ /\ id \notin DOMAIN holds
                     => OpenRow(id, "ledger", n, now + TransferDelay)
                  /\ SentRow(id, b, n, "pending", now + TransferDelay)
<1> PICK d : d = withFee(prelude(db, a, e), a, e, w)
  OBVIOUS
<1> PICK id : id = Id(a, "transfer", key)
  OBVIOUS
<1> PICK parts : parts = planMove(d, a, e, n, now)
  OBVIOUS
<1>4. SameRows(db, d)
  BY FeeRows, DbTables
<1>5. id \in Ids
  BY ConstantsAre DEF Ids, Id
<1>6. n \in Nat /\ now \in Nat /\ now + TransferDelay \in Nat
  BY SMT, ConstantsAre DEF Units, Clock
<1>7. /\ SumFunction(parts) = n /\ id \notin DOMAIN transfers
      /\ incoming[today][b] + n <= InboundCap
  BY DEF Transfer
<1>8. CASE Spikes(a) \/ breaker[a] > now
  <2> PICK f : f = hold(d, id, "ledger", parts, now + TransferDelay)
    OBVIOUS
  <2>2. Write(record(f, id, NewTransfer(b, n, "pending", now + TransferDelay)))
    BY <1>8 DEF Transfer
  <2>3. Tables(f) /\ f.transfers = transfers /\ f.incoming = incoming
    <3>1. Tables(d) /\ d.transfers = transfers /\ d.incoming = incoming
      BY <1>4 DEF SameRows, db
    <3>2. Holds(d, f, id, "ledger", parts, now + TransferDelay)
      BY <3>1, HoldIs
    <3> QED
      BY <3>1, <3>2 DEF Holds
  <2>4. SentRow(id, b, n, "pending", now + TransferDelay) /\ holds' = f.holds
    BY <2>2, <2>3, <1>5, <1>6, <1>7, WriteTransfer
  <2>5. ASSUME id \notin DOMAIN holds
        PROVE  OpenRow(id, "ledger", n, now + TransferDelay)
    <3>1. Opens(f, id, "ledger", n, now + TransferDelay)
      BY <2>5, <1>4, <1>5, <1>6, <1>7, WriteHold
    <3> QED
      BY <2>4, <2>5, <3>1, <1>5 DEF Opens, OpenRow
  <2> QED
    BY <2>4, <2>5
<1>9. CASE ~(Spikes(a) \/ breaker[a] > now)
  <2> PICK f : f = moveParts(d, a, b, parts, FALSE)
    OBVIOUS
  <2>2. Write(record(f, id, NewTransfer(b, n, "done", now)))
    BY <1>9 DEF Transfer
  <2>3. Tables(f) /\ f.transfers = transfers /\ f.incoming = incoming /\ f.holds = holds
    <3>1. /\ Tables(d) /\ d.transfers = transfers /\ d.incoming = incoming
          /\ d.holds = holds
      BY <1>4 DEF SameRows, db
    <3>2. SameRows(d, f)
      BY <3>1, MoveIs
    <3> QED
      BY <3>1, <3>2 DEF SameRows
  <2>4. SentRow(id, b, n, "done", now) /\ holds' = holds
    BY <2>2, <2>3, <1>5, <1>6, <1>7, WriteTransfer
  <2> QED
    BY <2>4
<1> QED
  BY <1>8, <1>9

\* A hold's end moves.
Delay(hs, id, t) == [hs EXCEPT ![id].expires = t]

LEMMA DelayIs ==
    ASSUME NEW hs, HoldsOK(hs), NEW id \in DOMAIN hs, NEW t \in Nat
    PROVE  Delays(hs, Delay(hs, id, t), id, t)
<1> PICK g : g = Delay(hs, id, t)
  OBVIOUS
<1> PICK h : h = hs[id]
  OBVIOUS
<1>3. IsHold(h)
  BY DEF HoldsOK
<1>4. Touches(hs, g, {id}) /\ g[id] = [h EXCEPT !.expires = t]
  BY DEF Delay, Touches, Table, HoldsOK
<1>5. Delayed(h, [h EXCEPT !.expires = t], t)
  BY SMT, <1>3 DEF IsHold, Delayed
<1> QED
  BY <1>4, <1>5 DEF Delays

\* An escrow's hold is charged with its payment, or waits for it.
PaidRow(id, b) ==
    \/ /\ Touches(holds, holds', {id}) /\ Ended(holds[id], holds'[id], "committed")
       /\ SentRow(id, b, holds[id].max, "done", now)
    \/ \E execute \in {now, now + TransferDelay} :
         /\ Delays(holds, holds', id, execute)
         /\ SentRow(id, b, holds[id].max, "pending", execute)

LEMMA EscrowPayRows ==
    ASSUME Clock, HoldsOK(holds), NEW id, NEW b \in Accounts, EscrowPay(id, b)
    PROVE  PaidRow(id, b)
<1> PICK n : n = holds[id].max
  OBVIOUS
<1> PICK execute : execute = IF frozen THEN now ELSE now + TransferDelay
  OBVIOUS
<1>3. /\ id \in DOMAIN holds /\ id.kind = "escrow" /\ holds[id].state = "held"
      /\ id \notin DOMAIN transfers /\ incoming[today][b] + n <= InboundCap
  BY DEF EscrowPay, Unpaid
<1>4. now \in Nat /\ execute \in Nat /\ execute \in {now, now + TransferDelay} /\ n \in Nat
  <2>1. IsHold(holds[id])
    BY <1>3 DEF HoldsOK
  <2>2. n \in Nat
    BY SMT, <2>1 DEF IsHold
  <2> QED
    BY SMT, <2>2, ConstantsAre DEF Clock
<1>5. id \in Ids
  BY <1>3 DEF HoldsOK
<1>6. CASE breaker[id.account] > now \/ frozen
  <2> PICK d : d = [db EXCEPT !.holds[id].expires = execute]
    OBVIOUS
  <2>2. Write(record(d, id, NewTransfer(b, n, "pending", execute)))
    BY <1>6 DEF EscrowPay
  <2>3. /\ Tables(d) /\ d.transfers = transfers /\ d.incoming = incoming
        /\ d.holds = Delay(holds, id, execute)
    BY DEF db, Tables, Delay
  <2>4. SentRow(id, b, n, "pending", execute) /\ holds' = d.holds
    BY <1>3, <1>4, <1>5, <2>2, <2>3, WriteTransfer
  <2>5. Delays(holds, Delay(holds, id, execute), id, execute)
    BY <1>3, <1>4, DelayIs
  <2>6. Delays(holds, holds', id, execute)
    BY <2>3, <2>4, <2>5
  <2> QED
    BY <1>3, <1>4, <2>4, <2>6 DEF PaidRow
<1>7. CASE ~(breaker[id.account] > now \/ frozen)
  <2> PICK d : d = pay(db, id, b)
    OBVIOUS
  <2>2. Write(record(d, id, NewTransfer(b, n, "done", now)))
    BY <1>7 DEF EscrowPay
  <2>3. Pays(db, d, id)
    BY PayIs, DbTables
  <2>4. d.transfers = transfers
    BY <2>3 DEF Pays, db
  <2>5. PICK used : d.holds = EndHold(holds, id, "committed", used)
    BY <2>3 DEF Pays, db
  <2>6. Tables(d) /\ d.incoming = incoming
    BY <2>3 DEF Pays, db
  <2>7. SentRow(id, b, n, "done", now) /\ holds' = d.holds
    BY <1>3, <1>4, <1>5, <2>2, <2>4, <2>6, WriteTransfer
  <2>8. EndsAs(holds, EndHold(holds, id, "committed", used), id, "committed", used)
    <3>1. "committed" \in HoldStates
      BY DEF HoldStates
    <3> QED
      BY <1>3, <3>1, EndHoldIs
  <2>9. Touches(holds, holds', {id}) /\ Ended(holds[id], holds'[id], "committed")
    BY <2>5, <2>7, <2>8 DEF EndsAs
  <2> QED
    BY <1>3, <2>7, <2>9 DEF PaidRow
<1> QED
  BY <1>6, <1>7

LEMMA EscrowSplitRows ==
    ASSUME HoldsOK(holds), NEW src, NEW key \in EscrowKeys, NEW n \in Units,
           NEW until \in Untils, EscrowSplit(src, key, n, until)
    PROVE  /\ Unpaid(src) /\ SameSent
           /\ SplitRow(src, Id(src.account, "escrow", key), n, Lesser(until, holds[src].expires))
<1>1. PICK id : id = Id(src.account, "escrow", key)
  OBVIOUS
<1>2. PICK end : end = Lesser(until, holds[src].expires)
  OBVIOUS
<1>3. PICK d : d = hold(db, id, "ledger", <<>>, end)
  OBVIOUS
<1>4. PICK f : f = moveEscrow(d, src, id, n)
  OBVIOUS
<1>5. Unpaid(src) /\ id \notin DOMAIN holds /\ n <= holds[src].max /\ Write(f)
  BY <1>1, <1>2, <1>3, <1>4 DEF EscrowSplit
<1>6. /\ src \in DOMAIN holds /\ holds[src].state = "held" /\ src # id
      /\ src.account \in Accounts /\ IsHold(holds[src])
  BY SMT, <1>5 DEF Unpaid, HoldsOK, Ids
<1>7. id \in Ids
  BY <1>1, <1>6 DEF Ids, Id
<1>8. n \in Nat /\ end \in Nat /\ 0 \in Nat
  BY SMT, <1>2, <1>6, ConstantsAre DEF IsHold, Units, Lesser
<1>9. Opens(d, id, "ledger", 0, end)
  <2>1. SameRows(db, db)
    BY DbTables DEF SameRows
  <2> QED
    BY <1>3, <1>5, <1>7, <1>8, <2>1, SumNone, WriteHold
<1>10. /\ Tables(d) /\ d.transfers = transfers /\ d.incoming = incoming
       /\ Touches(holds, d.holds, {id}) /\ IsNew(d.holds[id], "ledger", 0, end)
  BY <1>9 DEF Opens
<1>11. PICK hs : hs = d.holds
  OBVIOUS
<1>12. /\ HoldsOK(hs) /\ src \in DOMAIN hs /\ id \in DOMAIN hs /\ hs[src] = holds[src]
       /\ DOMAIN hs = DOMAIN holds \cup {id}
  <2>1. DOMAIN hs = DOMAIN holds \cup {id} /\ Table(hs) /\ hs[src] = holds[src]
    BY <1>6, <1>10, <1>11 DEF Touches
  <2>2. IsFiniteSet(DOMAIN hs) /\ DOMAIN hs \subseteq Ids
    BY <1>7, <2>1, FS_AddElement DEF HoldsOK
  <2>3. IsHold(hs[id])
    BY <1>10, <1>11 DEF IsNew
  <2>4. \A i \in DOMAIN hs : IsHold(hs[i])
    BY <2>1, <2>3, <1>10, <1>11 DEF HoldsOK, Touches
  <2> QED
    BY <1>6, <2>1, <2>2, <2>4 DEF HoldsOK
<1>13. MovesEscrow(d, f, src, id, n)
  BY <1>4, <1>10, MoveEscrowIs
<1>14. PICK left, joint : f.holds = MoveHold(hs, src, id, n, left, joint)
  BY <1>11, <1>13 DEF MovesEscrow
<1>15. PICK gs : gs = MoveHold(hs, src, id, n, left, joint)
  OBVIOUS
<1>16. /\ Touches(hs, gs, {src, id})
       /\ Resized(hs[src], gs[src], hs[src].max - n)
       /\ Resized(hs[id], gs[id], hs[id].max + n)
  <2>1. n <= hs[src].max /\ src # id /\ n \in Nat
    BY <1>5, <1>6, <1>8, <1>12
  <2> QED
    BY <2>1, <1>12, <1>15, MoveHoldIs
<1>17. holds' = gs /\ SameSent
  BY <1>5, <1>10, <1>13, <1>14, <1>15 DEF Write, MovesEscrow, SameSent
<1>18. Touches(holds, gs, {src, id})
  BY <1>6, <1>10, <1>11, <1>12, <1>16 DEF Touches
<1>19. IsNew(gs[id], "ledger", n, end)
  BY SMT, <1>8, <1>10, <1>11, <1>16 DEF IsNew, Resized
<1>20. Resized(holds[src], gs[src], holds[src].max - n)
  BY <1>12, <1>16
<1> QED
  BY <1>1, <1>2, <1>5, <1>6, <1>7, <1>8, <1>17, <1>18, <1>19, <1>20 DEF SplitRow

LEMMA EscrowJoinRows ==
    ASSUME HoldsOK(holds), NEW src, NEW into, EscrowJoin(src, into)
    PROVE  Unpaid(src) /\ Unpaid(into) /\ JoinRow(src, into) /\ SameSent
<1>1. PICK n : n = holds[src].max
  OBVIOUS
<1>2. PICK d : d = moveEscrow(db, src, into, n)
  OBVIOUS
<1>3. PICK f : f = [d EXCEPT !.holds[src].state = "refunded"]
  OBVIOUS
<1>4. Unpaid(src) /\ Unpaid(into) /\ src # into /\ Write(f)
  BY <1>1, <1>2, <1>3 DEF EscrowJoin
<1>5. /\ src \in DOMAIN holds /\ into \in DOMAIN holds
      /\ holds[src].state = "held" /\ holds[into].state = "held"
  BY <1>4 DEF Unpaid
<1>6. n \in Nat /\ n <= holds[src].max
  <2>1. IsHold(holds[src])
    BY <1>5 DEF HoldsOK
  <2> QED
    BY SMT, <1>1, <2>1 DEF IsHold
<1>7. MovesEscrow(db, d, src, into, n)
  BY <1>2, MoveEscrowIs, DbTables
<1>8. PICK left, joint : d.holds = MoveHold(holds, src, into, n, left, joint)
  BY <1>7 DEF MovesEscrow, db
<1>9. Tables(d) /\ d.transfers = transfers /\ d.incoming = incoming
  BY <1>7 DEF MovesEscrow, db
<1>10. PICK gs : gs = MoveHold(holds, src, into, n, left, joint)
  OBVIOUS
<1>11. /\ Touches(holds, gs, {src, into})
       /\ Resized(holds[src], gs[src], holds[src].max - n)
       /\ Resized(holds[into], gs[into], holds[into].max + n)
  BY <1>4, <1>5, <1>6, <1>10, MoveHoldIs
<1>12. HoldsOK(gs) /\ src \in DOMAIN gs
  <2>1. DOMAIN gs = DOMAIN holds /\ Table(gs)
    BY <1>5, <1>11 DEF Touches
  <2>2. \A i \in DOMAIN gs : IsHold(gs[i])
    BY <2>1, <1>11 DEF Touches, Resized, HoldsOK
  <2> QED
    BY <1>5, <2>1, <2>2 DEF HoldsOK
<1>13. /\ f.holds = FreeHold(gs, src) /\ f.transfers = transfers /\ f.incoming = incoming
  BY <1>3, <1>8, <1>9, <1>10 DEF Tables, FreeHold
<1>14. PICK hs : hs = FreeHold(gs, src)
  OBVIOUS
<1>15. EndsAs(gs, hs, src, "refunded", gs[src].used)
  BY <1>12, <1>14, FreeHoldIs
<1>16. holds' = hs /\ SameSent
  BY <1>4, <1>13, <1>14 DEF Write, SameSent
<1>17. Touches(holds, hs, {src, into}) /\ hs[into] = gs[into]
  BY <1>4, <1>5, <1>11, <1>15 DEF Touches, EndsAs
<1>18. holds[src].max - n = 0
  BY SMT, <1>1, <1>6
<1>19. Ended(gs[src], hs[src], "refunded") /\ hs[src].used = gs[src].used
  BY <1>15 DEF EndsAs
<1>20. Emptied(holds[src], hs[src])
  BY <1>11, <1>18, <1>19 DEF Emptied, Ended, Resized
<1> QED
  BY <1>1, <1>4, <1>5, <1>11, <1>16, <1>17, <1>20 DEF JoinRow

-----------------------------------------------------------------------------
(* Holds that lapse, pending transfers that end.                           *)

LEMMA TouchedHolds ==
    ASSUME NEW hs, HoldsOK(hs), NEW gs, NEW X, X \subseteq DOMAIN hs, Touches(hs, gs, X),
           \A id \in X : IsHold(gs[id])
    PROVE  HoldsOK(gs) /\ DOMAIN gs = DOMAIN hs
<1>1. DOMAIN gs = DOMAIN hs /\ Table(gs)
  BY DEF Touches
<1>2. \A id \in DOMAIN gs : IsHold(gs[id])
  BY <1>1 DEF Touches, HoldsOK
<1> QED
  BY <1>1, <1>2 DEF HoldsOK

LEMMA TouchedTransfers ==
    ASSUME NEW ts, TransfersOK(ts), NEW us, NEW X, X \subseteq DOMAIN ts, Touches(ts, us, X),
           \A id \in X : IsTransfer(us[id])
    PROVE  TransfersOK(us) /\ DOMAIN us = DOMAIN ts
<1>1. DOMAIN us = DOMAIN ts /\ Table(us)
  BY DEF Touches
<1>2. \A id \in DOMAIN us : IsTransfer(us[id])
  BY <1>1 DEF Touches, TransfersOK
<1> QED
  BY <1>1, <1>2 DEF TransfersOK

LEMMA TouchMore ==
    ASSUME NEW f, NEW g, NEW h, NEW X, NEW x, Touches(f, g, X), Touches(g, h, {x})
    PROVE  Touches(f, h, X \cup {x})
BY DEF Touches

\* d1 with the holds of s lapsed.
Lapses(d1, d, s) ==
    /\ Tables(d) /\ d.transfers = d1.transfers /\ d.incoming = d1.incoming
    /\ Touches(d1.holds, d.holds, s)
    /\ \A id \in s : Lapsed(d1.holds[id], d.holds[id])

LEMMA LapseStep ==
    ASSUME NEW d1, HoldsOK(d1.holds), NEW d, NEW s, s \subseteq DOMAIN d1.holds, Lapses(d1, d, s),
           NEW x \in DOMAIN d1.holds, x \notin s
    PROVE  Lapses(d1, lapse(d, x), s \cup {x})
<1> PICK hs : hs = d.holds
  OBVIOUS
<1>2. Tables(d) /\ Touches(d1.holds, hs, s) /\ \A id \in s : Lapsed(d1.holds[id], hs[id])
  BY DEF Lapses
<1>3. HoldsOK(hs) /\ DOMAIN hs = DOMAIN d1.holds /\ hs[x] = d1.holds[x]
  <2>1. \A id \in s : IsHold(hs[id])
    BY <1>2 DEF Lapsed, Ended
  <2>2. hs[x] = d1.holds[x]
    BY <1>2 DEF Touches
  <2> QED
    BY <1>2, <2>1, <2>2, TouchedHolds
<1>4. PICK state, used : /\ lapse(d, x) = settle(d, x, used, state)
                         /\ IF hs[x].service = "deposit" THEN state = "refunded" /\ used = 0
                                                         ELSE state = "expired" /\ used = hs[x].max
  BY DEF lapse
<1>5. state \in HoldStates
  BY <1>4 DEF HoldStates
<1> PICK f : f = lapse(d, x)
  OBVIOUS
<1>7. Settles(d, f, x, used, state)
  BY <1>2, <1>4, SettleIs
<1>8. /\ Tables(f) /\ f.holds = EndHold(hs, x, state, used)
      /\ f.transfers = d.transfers /\ f.incoming = d.incoming
  BY <1>7 DEF Settles
<1> PICK gs : gs = f.holds
  OBVIOUS
<1>10. EndsAs(hs, gs, x, state, used)
  BY <1>3, <1>5, <1>8, EndHoldIs
<1>11. Touches(hs, gs, {x}) /\ Lapsed(d1.holds[x], gs[x])
  BY <1>3, <1>4, <1>10 DEF EndsAs, Lapsed
<1>12. Touches(d1.holds, gs, s \cup {x}) /\ \A y \in s : y # x => gs[y] = hs[y]
  <2>1. Touches(d1.holds, gs, s \cup {x})
    BY <1>2, <1>11, TouchMore
  <2>2. \A y \in s : y # x => gs[y] = hs[y]
    BY <1>2, <1>11 DEF Touches
  <2> QED
    BY <2>1, <2>2
<1>13. \A id \in s \cup {x} : Lapsed(d1.holds[id], gs[id])
  BY <1>2, <1>11, <1>12
<1> QED
  BY <1>8, <1>12, <1>13 DEF Lapses

\* One pending transfer ends: what is cancelled no longer counts.
Concludes(d, f, id) ==
    /\ Tables(f) /\ Touches(d.holds, f.holds, {id}) /\ Touches(d.transfers, f.transfers, {id})
    /\ Concluded(d.holds[id], f.holds[id], d.transfers[id], f.transfers[id])
    /\ f.incoming = IF f.transfers[id].state = "cancelled"
                    THEN Uncounted(d.incoming, d.transfers[id].created \div DayLen,
                                   d.transfers[id].to, d.transfers[id].amount)
                    ELSE d.incoming

LEMMA EndsTransfer ==
    ASSUME NEW ts, TransfersOK(ts), NEW id \in DOMAIN ts, NEW state \in {"done", "cancelled"},
           NEW us, us = EndTransfer(ts, id, state)
    PROVE  Touches(ts, us, {id}) /\ Closed(ts[id], us[id], state)
BY SMT, EndTransferIs DEF Closed

Waiting(d, id) == /\ Tables(d) /\ HoldsOK(d.holds) /\ TransfersOK(d.transfers)
                  /\ id \in DOMAIN d.holds /\ id \in DOMAIN d.transfers
                  /\ d.transfers[id].state = "pending"

LEMMA ReleaseConcludes ==
    ASSUME NEW d, NEW id, Waiting(d, id), NEW f, Releases(d, f, id)
    PROVE  Concludes(d, f, id)
<1> PICK hs, ts : hs = d.holds /\ ts = d.transfers
  OBVIOUS
<1> PICK gs, us : gs = f.holds /\ us = f.transfers
  OBVIOUS
<1>3. HoldsOK(hs) /\ TransfersOK(ts) /\ id \in DOMAIN hs /\ id \in DOMAIN ts /\ ts[id].state = "pending"
  BY DEF Waiting
<1>4. gs = FreeHold(hs, id) /\ us = EndTransfer(ts, id, "cancelled") /\ Tables(f)
  BY DEF Releases
<1>5. EndsAs(hs, gs, id, "refunded", hs[id].used)
  BY <1>3, <1>4, FreeHoldIs
<1>6. Touches(ts, us, {id}) /\ Closed(ts[id], us[id], "cancelled")
  BY <1>3, <1>4, EndsTransfer
<1>7. f.incoming = Uncounted(d.incoming, ts[id].created \div DayLen, ts[id].to, ts[id].amount)
  BY DEF Releases
<1>8. us[id].state = "cancelled"
  BY <1>6 DEF Closed
<1>9. Touches(hs, gs, {id}) /\ Ended(hs[id], gs[id], "refunded")
  BY <1>5 DEF EndsAs
<1>10. Concluded(hs[id], gs[id], ts[id], us[id])
  BY <1>3, <1>6, <1>9 DEF Concluded
<1> QED
  BY <1>4, <1>6, <1>7, <1>8, <1>9, <1>10 DEF Concludes

LEMMA ExecuteConcludes ==
    ASSUME NEW d, NEW id, Waiting(d, id)
    PROVE  Concludes(d, executeDue(d, id), id)
<1> PICK f : f = executeDue(d, id)
  OBVIOUS
<1>2. Tables(d)
  BY DEF Waiting
<1>3. Releases(d, f, id) \/ Executes(d, f, id)
  BY <1>2, ExecuteIs
<1>4. CASE Releases(d, f, id)
  BY <1>4, ReleaseConcludes
<1>5. CASE Executes(d, f, id)
  <2> PICK hs, ts : hs = d.holds /\ ts = d.transfers
    OBVIOUS
  <2> PICK gs, us : gs = f.holds /\ us = f.transfers
    OBVIOUS
  <2>3. HoldsOK(hs) /\ TransfersOK(ts) /\ id \in DOMAIN hs /\ id \in DOMAIN ts /\ ts[id].state = "pending"
    BY DEF Waiting
  <2>4. us = EndTransfer(ts, id, "done") /\ Tables(f) /\ f.incoming = d.incoming
    BY <1>5 DEF Executes
  <2> PICK used : gs = EndHold(hs, id, "committed", used)
    BY <1>5 DEF Executes
  <2>6. Tables(f) /\ f.incoming = d.incoming
    BY <2>4
  <2>7. EndsAs(hs, gs, id, "committed", used)
    <3>1. "committed" \in HoldStates
      BY DEF HoldStates
    <3> QED
      BY <2>3, <3>1, EndHoldIs
  <2>8. Touches(ts, us, {id}) /\ Closed(ts[id], us[id], "done")
    BY <2>3, <2>4, EndsTransfer
  <2>9. us[id].state # "cancelled"
    BY SMT, <2>8 DEF Closed
  <2>10. Touches(hs, gs, {id}) /\ Ended(hs[id], gs[id], "committed")
    BY <2>7 DEF EndsAs
  <2>11. Concluded(hs[id], gs[id], ts[id], us[id])
    BY <2>3, <2>8, <2>10 DEF Concluded
  <2> QED
    BY <2>6, <2>8, <2>9, <2>10, <2>11 DEF Concludes
<1> QED
  BY <1>3, <1>4, <1>5

\* d2 with the transfers of X concluded.
ConcludesAll(d2, d, X) ==
    /\ Tables(d) /\ Touches(d2.holds, d.holds, X) /\ Touches(d2.transfers, d.transfers, X)
    /\ \A id \in X : Concluded(d2.holds[id], d.holds[id], d2.transfers[id], d.transfers[id])

LEMMA ConcludeStep ==
    ASSUME NEW d2, HoldsOK(d2.holds), TransfersOK(d2.transfers), NEW d, NEW X,
           X \subseteq DOMAIN d2.holds, X \subseteq DOMAIN d2.transfers, ConcludesAll(d2, d, X),
           NEW x, x \in DOMAIN d2.holds, x \in DOMAIN d2.transfers, x \notin X,
           d2.transfers[x].state = "pending"
    PROVE  /\ Waiting(d, x) /\ d.transfers[x] = d2.transfers[x] /\ d.holds[x] = d2.holds[x]
           /\ ConcludesAll(d2, executeDue(d, x), X \cup {x})
<1> PICK hs, ts : hs = d.holds /\ ts = d.transfers
  OBVIOUS
<1>2. /\ Tables(d) /\ Touches(d2.holds, hs, X) /\ Touches(d2.transfers, ts, X)
      /\ \A id \in X : Concluded(d2.holds[id], hs[id], d2.transfers[id], ts[id])
  BY DEF ConcludesAll
<1>3. \A id \in X : IsHold(hs[id]) /\ IsTransfer(ts[id])
  BY <1>2 DEF Concluded, Ended, Closed
<1>4. HoldsOK(hs) /\ DOMAIN hs = DOMAIN d2.holds
  BY <1>2, <1>3, TouchedHolds
<1>5. TransfersOK(ts) /\ DOMAIN ts = DOMAIN d2.transfers
  BY <1>2, <1>3, TouchedTransfers
<1>6. ts[x] = d2.transfers[x] /\ hs[x] = d2.holds[x]
  BY <1>2 DEF Touches
<1>7. Waiting(d, x)
  BY <1>2, <1>4, <1>5, <1>6 DEF Waiting
<1> PICK f : f = executeDue(d, x)
  OBVIOUS
<1>9. Concludes(d, f, x)
  BY <1>7, ExecuteConcludes
<1> PICK gs, us : gs = f.holds /\ us = f.transfers
  OBVIOUS
<1>11. /\ Tables(f) /\ Touches(hs, gs, {x}) /\ Touches(ts, us, {x})
       /\ Concluded(hs[x], gs[x], ts[x], us[x])
  BY <1>9 DEF Concludes
<1>12. Touches(d2.holds, gs, X \cup {x}) /\ \A y \in X : y # x => gs[y] = hs[y]
  <2>1. Touches(d2.holds, gs, X \cup {x})
    BY <1>2, <1>11, TouchMore
  <2>2. \A y \in X : y # x => gs[y] = hs[y]
    BY <1>2, <1>11 DEF Touches
  <2> QED
    BY <2>1, <2>2
<1>13. Touches(d2.transfers, us, X \cup {x}) /\ \A y \in X : y # x => us[y] = ts[y]
  <2>1. Touches(d2.transfers, us, X \cup {x})
    BY <1>2, <1>11, TouchMore
  <2>2. \A y \in X : y # x => us[y] = ts[y]
    BY <1>2, <1>11 DEF Touches
  <2> QED
    BY <2>1, <2>2
<1>14. \A id \in X \cup {x} : Concluded(d2.holds[id], gs[id], d2.transfers[id], us[id])
  BY <1>2, <1>6, <1>11, <1>12, <1>13
<1>15. ConcludesAll(d2, f, X \cup {x})
  BY <1>11, <1>12, <1>13, <1>14 DEF ConcludesAll
<1> QED
  BY <1>6, <1>7, <1>15

-----------------------------------------------------------------------------
(* The sweep.                                                              *)

FirstOf(due, i) == {due[j] : j \in 1..i}

\* due lists n rows, each once.
Lists(due, n) == n \in Nat /\ \A i, j \in 1..n : i # j => due[i] # due[j]

LEMMA FirstIs ==
    ASSUME NEW n, NEW due, Lists(due, n)
    PROVE  /\ FirstOf(due, 0) = {} /\ 0 \in 0..n /\ n \in 0..n
           /\ \A i \in 1..n : /\ FirstOf(due, i) = FirstOf(due, i - 1) \cup {due[i]}
                              /\ due[i] \notin FirstOf(due, i - 1)
                              /\ i \in 0..n /\ i - 1 \in 0..n
           /\ \A i \in 0..n : FirstOf(due, i) \subseteq FirstOf(due, n)
<1>1. FirstOf(due, 0) = {} /\ 0 \in 0..n /\ n \in 0..n
  BY SMT DEF FirstOf, Lists
<1>2. ASSUME NEW i \in 1..n
      PROVE  /\ FirstOf(due, i) = FirstOf(due, i - 1) \cup {due[i]}
             /\ due[i] \notin FirstOf(due, i - 1) /\ i \in 0..n /\ i - 1 \in 0..n
  BY SMT DEF FirstOf, Lists
<1>3. ASSUME NEW i \in 0..n PROVE FirstOf(due, i) \subseteq FirstOf(due, n)
  BY SMT DEF FirstOf, Lists
<1> QED
  BY <1>1, <1>2, <1>3

LEMMA LapseAll ==
    ASSUME NEW d1, Tables(d1), HoldsOK(d1.holds), NEW n, NEW due, Lists(due, n),
           NEW r, FinishChain(r, d1, due, n),
           \A i \in 1..n : due[i] \in DOMAIN d1.holds /\ due[i].kind = "service"
    PROVE  Lapses(d1, r[n], FirstOf(due, n))
<1> DEFINE T == {i \in 0..n : Lapses(d1, r[i], FirstOf(due, i))}
<1>1. 0 \in T
  <2>1. Touches(d1.holds, d1.holds, {})
    BY TouchesNone DEF HoldsOK
  <2>2. Lapses(d1, d1, {})
    BY <2>1 DEF Lapses
  <2>3. FirstOf(due, 0) = {} /\ 0 \in 0..n
    BY FirstIs
  <2> QED
    BY <2>2, <2>3 DEF FinishChain
<1>2. ASSUME NEW i \in 1..n, i - 1 \in T PROVE i \in T
  <2> PICK X : X = FirstOf(due, i - 1)
    OBVIOUS
  <2>2. FirstOf(due, i) = X \cup {due[i]} /\ due[i] \notin X /\ i \in 0..n
    BY FirstIs
  <2>3. X \subseteq DOMAIN d1.holds
    BY SMT DEF FirstOf, Lists
  <2>4. Lapses(d1, r[i - 1], X)
    BY <1>2
  <2>5. Lapses(d1, lapse(r[i - 1], due[i]), X \cup {due[i]})
    BY <2>2, <2>3, <2>4, LapseStep
  <2>6. r[i] = lapse(r[i - 1], due[i])
    BY DEF FinishChain, finish
  <2> QED
    BY <2>2, <2>5, <2>6
<1>3. n \in Nat
  BY DEF Lists
<1>4. \A k \in 0..n : k \in T
  <2> HIDE DEF T
  <2> QED
    BY <1>1, <1>2, <1>3, Counting
<1> QED
  BY <1>4, FirstIs

LEMMA ConcludeAll ==
    ASSUME NEW d2, Tables(d2), HoldsOK(d2.holds), TransfersOK(d2.transfers),
           NEW n, NEW due, Lists(due, n), NEW r, FinishChain(r, d2, due, n),
           \A i \in 1..n : /\ due[i] \in DOMAIN d2.holds /\ due[i] \in DOMAIN d2.transfers
                           /\ d2.transfers[due[i]].state = "pending" /\ due[i].kind # "service"
    PROVE  \A i \in 0..n : ConcludesAll(d2, r[i], FirstOf(due, i))
<1> DEFINE T == {i \in 0..n : ConcludesAll(d2, r[i], FirstOf(due, i))}
<1>1. 0 \in T
  <2>1. Touches(d2.holds, d2.holds, {}) /\ Touches(d2.transfers, d2.transfers, {})
    BY TouchesNone DEF HoldsOK, TransfersOK
  <2>2. ConcludesAll(d2, d2, {})
    BY <2>1 DEF ConcludesAll
  <2>3. FirstOf(due, 0) = {} /\ 0 \in 0..n
    BY FirstIs
  <2> QED
    BY <2>2, <2>3 DEF FinishChain
<1>2. ASSUME NEW i \in 1..n, i - 1 \in T PROVE i \in T
  <2> PICK X : X = FirstOf(due, i - 1)
    OBVIOUS
  <2>2. FirstOf(due, i) = X \cup {due[i]} /\ due[i] \notin X /\ i \in 0..n
    BY FirstIs
  <2>3. X \subseteq DOMAIN d2.holds /\ X \subseteq DOMAIN d2.transfers
    BY SMT DEF FirstOf, Lists
  <2>4. ConcludesAll(d2, r[i - 1], X)
    BY <1>2
  <2>5. ConcludesAll(d2, executeDue(r[i - 1], due[i]), X \cup {due[i]})
    BY <2>2, <2>3, <2>4, ConcludeStep
  <2>6. r[i] = executeDue(r[i - 1], due[i])
    BY DEF FinishChain, finish
  <2> QED
    BY <2>2, <2>5, <2>6
<1>3. n \in Nat
  BY DEF Lists
<1>4. \A k \in 0..n : k \in T
  <2> HIDE DEF T
  <2> QED
    BY <1>1, <1>2, <1>3, Counting
<1> QED
  BY <1>4

LEMMA OrderIs ==
    ASSUME NEW S, IsFiniteSet(S), NEW s \in Orders(S), NEW n, n = Cardinality(S)
    PROVE  Lists(s, n) /\ FirstOf(s, n) = S /\ \A i \in 1..n : s[i] \in S
<1>1. n \in Nat
  BY FS_CardinalityType
<1>2. s \in [1..n -> S] /\ IsInjective(s) /\ \A y \in S : \E i \in 1..n : s[i] = y
  BY DEF Orders, Bijection, Injection, Surjection
<1>3. DOMAIN s = 1..n
  BY <1>2
<1>4. \A i, j \in 1..n : i # j => s[i] # s[j]
  BY <1>2, <1>3 DEF IsInjective
<1>5. \A y : y \in FirstOf(s, n) <=> y \in S
  BY <1>2 DEF FirstOf
<1>6. FirstOf(s, n) = S
  BY <1>5
<1> QED
  BY <1>1, <1>2, <1>4, <1>6 DEF Lists

\* A sweep, step by step: d2 is what the lapsing holds leave, r[i] what the
\* first i due transfers do.
SweepRun(d1, d2, n, due, r, keep) ==
    /\ SameRows(db, d1) /\ Lapses(d1, d2, DueRows)
    /\ Lists(due, n) /\ FinishChain(r, d2, due, n)
    /\ \A i \in 1..n : /\ due[i] \in DOMAIN holds /\ due[i] \in DOMAIN transfers
                       /\ transfers[due[i]].state = "pending" /\ due[i] \notin DueRows
                       /\ due[i].kind # "service"
    /\ \A i \in 0..n : ConcludesAll(d2, r[i], FirstOf(due, i))
    /\ Write(decay(r[n], keep))

LEMMA SweepRuns ==
    ASSUME Rows(holds, transfers), Sweep
    PROVE  \E d1, d2, n, due, r, keep : SweepRun(d1, d2, n, due, r, keep)
<1>1. PICK d1 : d1 = expireLots(db, Accounts)
  OBVIOUS
<1>2. PICK L : L = DueHolds(d1)
  OBVIOUS
<1>3. SameRows(db, d1)
  BY <1>1, ExpireIs, DbTables
<1>4. Tables(d1) /\ d1.holds = holds /\ d1.transfers = transfers /\ d1.incoming = incoming
  BY <1>3 DEF SameRows, db
<1>5. L = DueRows /\ L \subseteq DOMAIN holds
  BY <1>2, <1>4 DEF DueHolds, DueRows
<1>6. HoldsOK(holds) /\ TransfersOK(transfers) /\ Linked(holds, transfers)
  BY DEF Rows
<1>7. IsFiniteSet(L)
  BY <1>5, <1>6, FS_Subset DEF HoldsOK
<1>8. PICK m : m = Cardinality(L)
  OBVIOUS
<1>9. PICK d \in Outcomes : Write(d)
  BY DEF Sweep
<1>10. PICK lapsing \in Orders(L) : d \in runTransfers(finishAll(d1, lapsing, m))
  BY <1>1, <1>2, <1>8, <1>9 DEF Outcomes, lapseHolds
<1>11. PICK d2 : d2 = finishAll(d1, lapsing, m)
  OBVIOUS
<1>12. PICK X : X = DueTransfers(d2)
  OBVIOUS
<1>13. PICK n : n = Cardinality(X)
  OBVIOUS
<1>14. PICK due \in ByDue(d2, X) : d \in decayLots(finishAll(d2, due, n))
  BY <1>10, <1>11, <1>12, <1>13 DEF runTransfers
<1>15. PICK keep : d = decay(finishAll(d2, due, n), keep)
  BY <1>14 DEF decayLots
<1>16. Lists(lapsing, m) /\ FirstOf(lapsing, m) = L /\ \A i \in 1..m : lapsing[i] \in L
  BY <1>7, <1>8, OrderIs
<1>17. PICK q : FinishChain(q, d1, lapsing, m) /\ d2 = q[m]
  <2>1. m \in Nat
    BY <1>16 DEF Lists
  <2> QED
    BY <1>11, <2>1, FinishSteps
<1>18. Lapses(d1, d2, L)
  <2>1. \A id \in L : id \in DOMAIN holds /\ id.kind = "service"
    BY <1>5, <1>6 DEF DueRows, Linked, LinkedAt
  <2>2. \A i \in 1..m : lapsing[i] \in DOMAIN d1.holds /\ lapsing[i].kind = "service"
    BY <1>4, <1>16, <2>1
  <2>3. Lapses(d1, q[m], FirstOf(lapsing, m))
    BY <1>4, <1>6, <1>16, <1>17, <2>2, LapseAll
  <2> QED
    BY <1>16, <1>17, <2>3
<1>19. Tables(d2) /\ d2.transfers = transfers /\ Touches(holds, d2.holds, L)
  BY <1>4, <1>18 DEF Lapses
<1>20. HoldsOK(d2.holds) /\ DOMAIN d2.holds = DOMAIN holds
  <2>1. \A id \in L : IsHold(d2.holds[id])
    BY <1>18 DEF Lapses, Lapsed, Ended
  <2> QED
    BY <1>5, <1>6, <1>19, <2>1, TouchedHolds
<1>21. X \subseteq DOMAIN transfers
  BY <1>12, <1>19 DEF DueTransfers
<1>22. Lists(due, n) /\ \A i \in 1..n : due[i] \in X
  <2>1. IsFiniteSet(X) /\ due \in Orders(X)
    BY <1>6, <1>21, FS_Subset DEF TransfersOK, ByDue
  <2> QED
    BY <1>13, <2>1, OrderIs
<1>23. PICK r : FinishChain(r, d2, due, n) /\ finishAll(d2, due, n) = r[n]
  <2>1. n \in Nat
    BY <1>22 DEF Lists
  <2> QED
    BY <2>1, FinishSteps
<1>24. ASSUME NEW i \in 1..n
       PROVE  /\ due[i] \in DOMAIN holds /\ due[i] \in DOMAIN transfers
              /\ transfers[due[i]].state = "pending" /\ due[i] \notin DueRows
              /\ due[i].kind # "service"
  <2>1. due[i] \in DOMAIN transfers /\ transfers[due[i]].state = "pending"
    BY <1>12, <1>19, <1>22 DEF DueTransfers
  <2>2. due[i] \in DOMAIN holds /\ due[i].kind # "service"
    BY <1>6, <2>1 DEF Linked, LinkedAt
  <2>3. holds[due[i]].service = "ledger"
    BY <1>6, <2>2 DEF Linked, LinkedAt
  <2> QED
    BY <2>1, <2>2, <2>3 DEF DueRows
<1>25. \A i \in 0..n : ConcludesAll(d2, r[i], FirstOf(due, i))
  BY <1>6, <1>19, <1>20, <1>22, <1>23, <1>24, ConcludeAll
<1>26. SweepRun(d1, d2, n, due, r, keep)
  BY <1>3, <1>5, <1>9, <1>15, <1>18, <1>22, <1>23, <1>24, <1>25 DEF SweepRun
<1> QED
  BY <1>26

LEMMA SweepRows ==
    ASSUME Rows(holds, transfers), Sweep
    PROVE  SweepRow
<1>1. PICK d1, d2, n, due, r, keep : SweepRun(d1, d2, n, due, r, keep)
  BY SweepRuns
<1> PICK L, X : L = DueRows /\ X = FirstOf(due, n)
  OBVIOUS
<1>3. Lists(due, n) /\ n \in 0..n
  BY <1>1, FirstIs DEF SweepRun
<1>4. ConcludesAll(d2, r[n], X) /\ Lapses(d1, d2, L) /\ SameRows(db, d1)
  BY <1>1, <1>3 DEF SweepRun
<1>5. X \subseteq DOMAIN holds /\ X \subseteq DOMAIN transfers /\ X \cap L = {}
  BY <1>1 DEF SweepRun, FirstOf
<1>6. SameRows(r[n], decay(r[n], keep))
  <2>1. Tables(r[n])
    BY <1>4 DEF ConcludesAll
  <2> QED
    BY <2>1, DecayIs
<1>7. holds' = r[n].holds /\ transfers' = r[n].transfers
  BY <1>1, <1>6 DEF SweepRun, SameRows, Write
<1>8. /\ d2.transfers = transfers /\ Touches(holds, d2.holds, L)
      /\ \A id \in L : Lapsed(holds[id], d2.holds[id])
  BY <1>4 DEF Lapses, SameRows, db
<1>9. /\ Touches(d2.holds, holds', X) /\ Touches(transfers, transfers', X)
      /\ \A id \in X : Concluded(d2.holds[id], holds'[id], transfers[id], transfers'[id])
  BY <1>4, <1>7, <1>8 DEF ConcludesAll
<1>10. L \subseteq DOMAIN holds
  BY DEF DueRows
<1>11. /\ Touches(holds, holds', L \cup X)
       /\ \A id \in L : holds'[id] = d2.holds[id]
       /\ \A id \in X : d2.holds[id] = holds[id]
  BY <1>5, <1>8, <1>9, <1>10 DEF Touches
<1>12. FinishRow(L, X)
  BY <1>5, <1>8, <1>9, <1>10, <1>11 DEF FinishRow
<1> QED
  BY <1>5, <1>12 DEF SweepRow

LEMMA CancelRows ==
    ASSUME Rows(holds, transfers), NEW id, CancelTransfer(id)
    PROVE  FinishRow({}, {id})
<1> PICK f : f = release(db, id)
  OBVIOUS
<1>2. id \in DOMAIN transfers /\ transfers[id].state = "pending" /\ Write(f)
  BY DEF CancelTransfer
<1>3. Waiting(db, id) /\ id \in DOMAIN holds
  BY <1>2, DbTables DEF Rows, Linked, LinkedAt, Waiting, db
<1>4. Concludes(db, f, id)
  BY <1>3, DbTables, ReleaseIs, ReleaseConcludes
<1>5. holds' = f.holds /\ transfers' = f.transfers
  BY <1>2 DEF Write
<1>6. /\ Touches(holds, holds', {id}) /\ Touches(transfers, transfers', {id})
      /\ Concluded(holds[id], holds'[id], transfers[id], transfers'[id])
  BY <1>4, <1>5 DEF Concludes, db
<1>7. {} \cup {id} = {id}
  OBVIOUS
<1> QED
  BY <1>2, <1>3, <1>6, <1>7 DEF FinishRow

-----------------------------------------------------------------------------
(* What counts against a recipient's inbound cap.                          *)

SentTo(ts, day, b) == {id \in DOMAIN ts : /\ ts[id].to = b
                                        /\ ts[id].created \div DayLen = day
                                        /\ ts[id].state # "cancelled"}
Amounts(ts, S) == [id \in S |-> ts[id].amount]
SentSum(ts, day, b) == SumFunction(Amounts(ts, SentTo(ts, day, b)))
InboundAt(ts, inc, day, b) == /\ inc[day][b] = SentSum(ts, day, b)
                              /\ inc[day][b] <= InboundCap
Inbound(ts, inc) == /\ inc \in [Days -> [Accounts -> Nat]]
                    /\ \A day \in Days, b \in Accounts : InboundAt(ts, inc, day, b)

LEMMA AmountAdd ==
    ASSUME NEW ts, NEW us, NEW S, IsFiniteSet(S), NEW id, id \notin S,
           \A x \in S \cup {id} : us[x].amount \in Nat, \A x \in S : us[x] = ts[x]
    PROVE  SumFunction(Amounts(us, S \cup {id})) = us[id].amount + SumFunction(Amounts(ts, S))
<1>1. PICK f, g : f = Amounts(us, S \cup {id}) /\ g = Amounts(ts, S)
  OBVIOUS
<1>2. /\ DOMAIN f = S \cup {id} /\ DOMAIN g = S /\ f[id] = us[id].amount
      /\ \A x \in S \cup {id} : f[x] = us[x].amount
      /\ \A x \in S : f[x] = g[x]
  BY <1>1 DEF Amounts
<1>3. \A x \in S \cup {id} : f[x] \in Int
  BY SMT, <1>2
<1>4. SumFunctionOnSet(f, S \cup {id}) = SumFunctionOnSet(f, S) + f[id]
  BY SMT, <1>3, SumAdd
<1>6. SumFunctionOnSet(f, S) \in Int
  BY SMT, <1>3, SumInt
<1>5. SumFunctionOnSet(f, S) = SumFunctionOnSet(g, S)
  BY SMT, <1>2, SumSame
<1> QED
  BY SMT, <1>1, <1>2, <1>3, <1>4, <1>5, <1>6 DEF SumFunction

LEMMA SentBut ==
    ASSUME NEW ts, NEW us, NEW id, Touches(ts, us, {id}), NEW day, NEW b
    PROVE  \A x : x # id => /\ x \in SentTo(us, day, b) <=> x \in SentTo(ts, day, b)
                            /\ x \in SentTo(ts, day, b) => us[x] = ts[x]
BY DEF SentTo, Touches

LEMMA SentFinite ==
    ASSUME NEW ts, TransfersOK(ts), NEW day, NEW b
    PROVE  /\ IsFiniteSet(SentTo(ts, day, b))
           /\ \A x \in SentTo(ts, day, b) : ts[x].amount \in Nat
<1>1. SentTo(ts, day, b) \subseteq DOMAIN ts /\ IsFiniteSet(DOMAIN ts)
  BY DEF SentTo, TransfersOK
<1>2. \A x \in DOMAIN ts : ts[x].amount \in Nat
  BY SMT DEF TransfersOK, IsTransfer
<1> QED
  BY <1>1, <1>2, FS_Subset

LEMMA SentNeither ==
    ASSUME NEW ts, NEW us, NEW id, Touches(ts, us, {id}), NEW day, NEW b,
           id \notin SentTo(ts, day, b), id \notin SentTo(us, day, b)
    PROVE  SentSum(us, day, b) = SentSum(ts, day, b)
<1>1. \A x : x \in SentTo(us, day, b) <=> x \in SentTo(ts, day, b)
  <2>1. \A x : x # id => (x \in SentTo(us, day, b) <=> x \in SentTo(ts, day, b))
    BY DEF SentTo, Touches
  <2> QED
    BY <2>1
<1>2. \A x \in SentTo(ts, day, b) : us[x].amount = ts[x].amount
  <2>1. \A x : x # id => (x \in SentTo(ts, day, b) => us[x] = ts[x])
    BY DEF SentTo, Touches
  <2> QED
    BY <2>1
<1>3. SentTo(us, day, b) = SentTo(ts, day, b)
  BY <1>1
<1>4. Amounts(us, SentTo(us, day, b)) = Amounts(ts, SentTo(ts, day, b))
  BY <1>2, <1>3 DEF Amounts
<1> QED
  BY <1>4 DEF SentSum

LEMMA SentBoth ==
    ASSUME NEW ts, NEW us, NEW id, Touches(ts, us, {id}), NEW day, NEW b,
           id \in SentTo(ts, day, b), id \in SentTo(us, day, b),
           us[id].amount = ts[id].amount
    PROVE  SentSum(us, day, b) = SentSum(ts, day, b)
<1>1. \A x : x \in SentTo(us, day, b) <=> x \in SentTo(ts, day, b)
  <2>1. \A x : x # id => (x \in SentTo(us, day, b) <=> x \in SentTo(ts, day, b))
    BY DEF SentTo, Touches
  <2> QED
    BY <2>1
<1>2. \A x \in SentTo(ts, day, b) : us[x].amount = ts[x].amount
  <2>1. \A x : x # id => (x \in SentTo(ts, day, b) => us[x] = ts[x])
    BY DEF SentTo, Touches
  <2> QED
    BY <2>1
<1>3. SentTo(us, day, b) = SentTo(ts, day, b)
  BY <1>1
<1>4. Amounts(us, SentTo(us, day, b)) = Amounts(ts, SentTo(ts, day, b))
  BY <1>2, <1>3 DEF Amounts
<1> QED
  BY <1>4 DEF SentSum

LEMMA SentAdds ==
    ASSUME NEW ts, TransfersOK(ts), NEW us, NEW id, Touches(ts, us, {id}), NEW day, NEW b,
           id \notin SentTo(ts, day, b), id \in SentTo(us, day, b), us[id].amount \in Nat
    PROVE  SentSum(us, day, b) = us[id].amount + SentSum(ts, day, b)
<1> PICK S : S = SentTo(ts, day, b)
  OBVIOUS
<1>2. \A x : x \in SentTo(us, day, b) <=> x \in S \cup {id}
  BY SentBut
<1>3. SentTo(us, day, b) = S \cup {id}
  BY <1>2
<1>4. IsFiniteSet(S) /\ id \notin S /\ \A x \in S : ts[x].amount \in Nat
  BY SentFinite
<1>5. \A x \in S : us[x] = ts[x]
  BY SentBut
<1>6. \A x \in S \cup {id} : us[x].amount \in Nat
  BY <1>4, <1>5
<1>7. SumFunction(Amounts(us, S \cup {id})) = us[id].amount + SumFunction(Amounts(ts, S))
  BY SMT, <1>4, <1>5, <1>6, AmountAdd
<1> QED
  BY <1>3, <1>7 DEF SentSum

LEMMA SentDrops ==
    ASSUME NEW ts, TransfersOK(ts), NEW us, NEW id, Touches(ts, us, {id}), NEW day, NEW b,
           id \in SentTo(ts, day, b), id \notin SentTo(us, day, b)
    PROVE  SentSum(ts, day, b) = ts[id].amount + SentSum(us, day, b)
<1> PICK S : S = SentTo(us, day, b)
  OBVIOUS
<1>2. \A x : x \in SentTo(ts, day, b) <=> x \in S \cup {id}
  BY SentBut
<1>3. SentTo(ts, day, b) = S \cup {id}
  BY <1>2
<1>4. IsFiniteSet(S \cup {id}) /\ id \notin S /\ \A x \in S \cup {id} : ts[x].amount \in Nat
  BY <1>3, SentFinite
<1>5. IsFiniteSet(S)
  <2>1. S \subseteq S \cup {id}
    OBVIOUS
  <2> QED
    BY <1>4, <2>1, FS_Subset
<1>6. \A x \in S : ts[x] = us[x]
  BY <1>2, SentBut
<1>7. SumFunction(Amounts(ts, S \cup {id})) = ts[id].amount + SumFunction(Amounts(us, S))
  BY SMT, <1>4, <1>5, <1>6, AmountAdd
<1> QED
  BY <1>3, <1>7 DEF SentSum

LEMMA SentNat ==
    ASSUME NEW ts, TransfersOK(ts), NEW day, NEW b
    PROVE  SentSum(ts, day, b) \in Nat
<1> PICK S : S = SentTo(ts, day, b)
  OBVIOUS
<1> PICK f : f = Amounts(ts, S)
  OBVIOUS
<1>3. IsFiniteSet(S) /\ \A x \in S : ts[x].amount \in Nat
  BY SentFinite
<1>4. DOMAIN f = S /\ \A x \in S : f[x] \in Nat
  BY <1>3 DEF Amounts
<1>5. SumFunctionOnSet(f, S) \in Nat
  BY SMT, <1>3, <1>4, SumNat
<1> QED
  BY <1>4, <1>5 DEF SentSum, SumFunction

\* What the usage of a day and a recipient becomes.
LEMMA CountedAt ==
    ASSUME NEW inc \in [Days -> [Accounts -> Nat]], NEW day, NEW b, NEW n \in Nat
    PROVE  /\ Counted(inc, day, b, n) \in [Days -> [Accounts -> Nat]]
           /\ \A x \in Days, y \in Accounts :
                Counted(inc, day, b, n)[x][y] = IF x = day /\ y = b THEN inc[x][y] + n ELSE inc[x][y]
<1> PICK f : f = Counted(inc, day, b, n)
  OBVIOUS
<1>2. f = [x \in Days |-> IF x = day THEN [inc[x] EXCEPT ![b] = inc[x][b] + n] ELSE inc[x]]
  BY DEF Counted
<1>3. ASSUME NEW x \in Days, NEW y \in Accounts
      PROVE  f[x][y] = IF x = day /\ y = b THEN inc[x][y] + n ELSE inc[x][y]
  BY SMT, <1>2
<1>4. ASSUME NEW x \in Days PROVE f[x] \in [Accounts -> Nat]
  <2>1. inc[x] \in [Accounts -> Nat]
    BY SMT
  <2>2. [inc[x] EXCEPT ![b] = inc[x][b] + n] \in [Accounts -> Nat]
    <3>1. CASE b \in Accounts
      BY SMT, <2>1, <3>1
    <3>2. CASE b \notin Accounts
      BY <2>1, <3>2
    <3> QED
      BY <3>1, <3>2
  <2> QED
    BY SMT, <1>2, <2>1, <2>2
<1>5. f \in [Days -> [Accounts -> Nat]]
  BY <1>2, <1>4
<1> QED
  BY <1>3, <1>5

LEMMA UncountedAt ==
    ASSUME NEW inc \in [Days -> [Accounts -> Nat]], NEW day, NEW b, NEW n \in Nat,
           day \in Days /\ b \in Accounts => inc[day][b] - n \in Nat
    PROVE  /\ Uncounted(inc, day, b, n) \in [Days -> [Accounts -> Nat]]
           /\ \A x \in Days, y \in Accounts :
                Uncounted(inc, day, b, n)[x][y] = IF x = day /\ y = b THEN inc[x][y] - n ELSE inc[x][y]
BY DEF Uncounted

LEMMA SendInbound ==
    ASSUME TransfersOK(transfers), Inbound(transfers, incoming), NEW id, NEW b \in Accounts,
           NEW n \in Nat, NEW state \in {"pending", "done"}, NEW end, SentRow(id, b, n, state, end)
    PROVE  Inbound(transfers', incoming')
<1>1. PICK ts, us, t : ts = transfers /\ us = transfers' /\ t = us[id]
  OBVIOUS
<1>2. PICK inc, inc2 : inc = incoming /\ inc2 = incoming'
  OBVIOUS
<1>3. /\ Touches(ts, us, {id}) /\ id \notin DOMAIN ts /\ inc2 = Counted(inc, today, b, n)
      /\ inc[today][b] + n <= InboundCap /\ t = NewTransfer(b, n, state, end)
      /\ TransfersOK(ts) /\ Inbound(ts, inc)
  BY <1>1, <1>2 DEF SentRow, SendRow
<1>4. t.to = b /\ t.amount = n /\ t.created \div DayLen = today /\ t.state # "cancelled"
  BY SMT, <1>3 DEF NewTransfer, today
<1>5. id \in DOMAIN us
  BY <1>3 DEF Touches
<1>6. inc \in [Days -> [Accounts -> Nat]]
  BY <1>3 DEF Inbound
<1>7. /\ inc2 \in [Days -> [Accounts -> Nat]]
      /\ \A x \in Days, y \in Accounts :
           inc2[x][y] = IF x = today /\ y = b THEN inc[x][y] + n ELSE inc[x][y]
  BY SMT, <1>3, <1>6, CountedAt
<1>8. ASSUME NEW x \in Days, NEW y \in Accounts PROVE InboundAt(us, inc2, x, y)
  <2>1. id \notin SentTo(ts, x, y)
    BY <1>3 DEF SentTo
  <2>2. InboundAt(ts, inc, x, y) /\ inc[x][y] \in Nat
    BY <1>3, <1>6 DEF Inbound
  <2>3. CASE x = today /\ y = b
    <3>1. id \in SentTo(us, x, y)
      BY <1>1, <1>4, <1>5, <2>3 DEF SentTo
    <3>2. us[id].amount \in Nat
      BY <1>1, <1>4
    <3>3. SentSum(us, x, y) = us[id].amount + SentSum(ts, x, y)
      BY SMT, <1>3, <2>1, <3>1, <3>2, SentAdds
    <3>4. SentSum(us, x, y) = n + SentSum(ts, x, y)
      BY <1>1, <1>4, <3>3
    <3>5. inc2[x][y] = inc[x][y] + n /\ inc[x][y] + n <= InboundCap
      BY <1>3, <1>7, <2>3
    <3> QED
      BY SMT, <2>2, <3>4, <3>5 DEF InboundAt
  <2>4. CASE ~(x = today /\ y = b)
    <3>1. id \notin SentTo(us, x, y)
      BY <1>1, <1>4, <2>4 DEF SentTo
    <3>2. SentSum(us, x, y) = SentSum(ts, x, y)
      BY SMT, <1>3, <2>1, <3>1, SentNeither
    <3>3. inc2[x][y] = inc[x][y]
      BY <1>7, <2>4
    <3> QED
      BY <2>2, <3>2, <3>3 DEF InboundAt
  <2> QED
    BY <2>3, <2>4
<1> QED
  BY <1>1, <1>2, <1>7, <1>8 DEF Inbound

LEMMA ConcludeInbound ==
    ASSUME NEW d, NEW id, Waiting(d, id), Inbound(d.transfers, d.incoming),
           NEW f, Concludes(d, f, id)
    PROVE  Inbound(f.transfers, f.incoming)
<1>1. PICK ts, us, t : ts = d.transfers /\ us = f.transfers /\ t = ts[id]
  OBVIOUS
<1>2. PICK inc, inc2 : inc = d.incoming /\ inc2 = f.incoming
  OBVIOUS
<1>3. /\ TransfersOK(ts) /\ id \in DOMAIN ts /\ Inbound(ts, inc) /\ t.state = "pending"
      /\ Touches(ts, us, {id}) /\ (Closed(t, us[id], "done") \/ Closed(t, us[id], "cancelled"))
      /\ inc2 = IF us[id].state = "cancelled"
                THEN Uncounted(inc, t.created \div DayLen, t.to, t.amount) ELSE inc
  BY <1>1, <1>2 DEF Waiting, Concludes, Concluded
<1>4. PICK day, b, n : day = t.created \div DayLen /\ b = t.to /\ n = t.amount
  OBVIOUS
<1>5. n \in Nat /\ t.state # "cancelled" /\ IsTransfer(t)
  <2>1. IsTransfer(t)
    BY <1>1, <1>3 DEF TransfersOK
  <2> QED
    BY SMT, <1>3, <1>4, <2>1 DEF IsTransfer
<1>6. inc \in [Days -> [Accounts -> Nat]] /\ \A x \in Days, y \in Accounts : InboundAt(ts, inc, x, y)
  BY <1>3 DEF Inbound
<1>7. id \in DOMAIN us
  BY <1>3 DEF Touches
<1>8. \A x, y : id \in SentTo(ts, x, y) <=> x = day /\ y = b
  BY <1>1, <1>3, <1>4, <1>5 DEF SentTo
<1>9. CASE Closed(t, us[id], "done")
  <2>1. us[id].to = b /\ us[id].amount = n /\ us[id].created \div DayLen = day /\ us[id].state = "done"
    BY <1>4, <1>9 DEF Closed
  <2>2. "done" # "cancelled"
    BY SMT
  <2>3. \A x, y : id \in SentTo(us, x, y) <=> x = day /\ y = b
    BY <1>7, <2>1, <2>2 DEF SentTo
  <2>4. us[id].amount = ts[id].amount /\ inc2 = inc
    BY <1>1, <1>3, <1>4, <2>1, <2>2
  <2>5. \A x, y : SentSum(us, x, y) = SentSum(ts, x, y)
    <3>1. ASSUME NEW x, NEW y PROVE SentSum(us, x, y) = SentSum(ts, x, y)
      <4>1. CASE x = day /\ y = b
        BY SMT, <1>3, <1>8, <2>3, <2>4, <4>1, SentBoth
      <4>2. CASE ~(x = day /\ y = b)
        <5>1. id \notin SentTo(ts, x, y) /\ id \notin SentTo(us, x, y) /\ Touches(ts, us, {id})
          <6>1. id \notin SentTo(ts, x, y)
            BY SMT, <1>8, <4>2
          <6>2. id \notin SentTo(us, x, y)
            BY SMT, <2>3, <4>2
          <6> QED
            BY <1>3, <6>1, <6>2
        <5> QED
          BY SMT, <5>1, SentNeither
      <4> QED
        BY <4>1, <4>2
    <3> QED
      BY <3>1
  <2>6. \A x \in Days, y \in Accounts : InboundAt(us, inc2, x, y)
    BY <1>6, <2>4, <2>5 DEF InboundAt
  <2> QED
    BY <1>1, <1>2, <1>6, <2>4, <2>6 DEF Inbound
<1>10. CASE Closed(t, us[id], "cancelled")
  <2>1. us[id].state = "cancelled"
    BY <1>10 DEF Closed
  <2>2. \A x, y : id \notin SentTo(us, x, y)
    BY <2>1 DEF SentTo
  <2>3. inc2 = Uncounted(inc, day, b, n)
    BY <1>3, <1>4, <2>1
  <2>4. ASSUME day \in Days, b \in Accounts
        PROVE  /\ inc[day][b] - n \in Nat /\ inc[day][b] - n = SentSum(us, day, b)
               /\ inc[day][b] \in Nat /\ inc[day][b] <= InboundCap
    <3>1. id \in SentTo(ts, day, b) /\ id \notin SentTo(us, day, b)
      BY <1>8, <2>2
    <3>2. SentSum(ts, day, b) = ts[id].amount + SentSum(us, day, b)
      BY SMT, <1>3, <3>1, SentDrops
    <3>3. SentSum(ts, day, b) = n + SentSum(us, day, b)
      BY <1>1, <1>4, <3>2
    <3>4. inc[day][b] = SentSum(ts, day, b) /\ inc[day][b] <= InboundCap /\ inc[day][b] \in Nat
      BY <1>6, <2>4 DEF InboundAt
    <3>5. SentSum(us, day, b) \in Nat
      <4>1. TransfersOK(us)
        <5>1. IsTransfer(us[id])
          BY <1>10 DEF Closed
        <5> QED
          <6>1. {id} \subseteq DOMAIN ts /\ \A x \in {id} : IsTransfer(us[x])
            BY <1>3, <5>1
          <6> QED
            BY <1>3, <6>1, TouchedTransfers
      <4> QED
        BY <4>1, SentNat
    <3> QED
      BY SMT, <1>5, <3>3, <3>4, <3>5
  <2>5. /\ inc2 \in [Days -> [Accounts -> Nat]]
        /\ \A x \in Days, y \in Accounts :
             inc2[x][y] = IF x = day /\ y = b THEN inc[x][y] - n ELSE inc[x][y]
    BY SMT, <1>5, <1>6, <2>3, <2>4, UncountedAt
  <2>6. ASSUME NEW x \in Days, NEW y \in Accounts PROVE InboundAt(us, inc2, x, y)
    <3>1. CASE x = day /\ y = b
      <4>1. inc2[x][y] = inc[x][y] - n
        BY <2>5, <3>1
      <4> QED
        BY SMT, <1>5, <2>4, <3>1, <4>1, LedgerAssumption DEF InboundAt
    <3>2. CASE ~(x = day /\ y = b)
      <4>1. SentSum(us, x, y) = SentSum(ts, x, y)
        <5>1. id \notin SentTo(ts, x, y) /\ id \notin SentTo(us, x, y) /\ Touches(ts, us, {id})
          BY <1>3, <1>8, <2>2, <3>2
        <5> QED
          BY SMT, <5>1, SentNeither
      <4>2. inc2[x][y] = inc[x][y]
        BY <2>5, <3>2
      <4> QED
        BY <1>6, <4>1, <4>2 DEF InboundAt
    <3> QED
      BY <3>1, <3>2
  <2> QED
    BY <1>1, <1>2, <2>5, <2>6 DEF Inbound
<1> QED
  BY <1>3, <1>9, <1>10

KeepsInbound == Inbound(transfers, incoming) => Inbound(transfers', incoming')

LEMMA CancelInbound ==
    ASSUME Rows(holds, transfers), NEW id, CancelTransfer(id)
    PROVE  KeepsInbound
<1> PICK f : f = release(db, id)
  OBVIOUS
<1>2. id \in DOMAIN transfers /\ transfers[id].state = "pending" /\ Write(f)
  BY DEF CancelTransfer
<1>3. Waiting(db, id)
  BY <1>2, DbTables DEF Rows, Linked, LinkedAt, Waiting, db
<1>4. Concludes(db, f, id)
  BY <1>3, DbTables, ReleaseIs, ReleaseConcludes
<1>5. Inbound(db.transfers, db.incoming) => Inbound(f.transfers, f.incoming)
  BY <1>3, <1>4, ConcludeInbound
<1>6. db.transfers = transfers /\ db.incoming = incoming
  BY SMT DEF db
<1>7. f.transfers = transfers' /\ f.incoming = incoming'
  BY <1>2 DEF Write
<1> QED
  BY <1>5, <1>6, <1>7 DEF KeepsInbound

LEMMA SweepInbound ==
    ASSUME Rows(holds, transfers), Sweep
    PROVE  KeepsInbound
<1> SUFFICES ASSUME Inbound(transfers, incoming) PROVE Inbound(transfers', incoming')
  BY DEF KeepsInbound
<1>1. PICK d1, d2, n, due, r, keep : SweepRun(d1, d2, n, due, r, keep)
  BY SweepRuns
<1> PICK L : L = DueRows
  OBVIOUS
<1>3. Lists(due, n) /\ FinishChain(r, d2, due, n)
  BY <1>1 DEF SweepRun
<1>4. /\ Lapses(d1, d2, L) /\ SameRows(db, d1)
      /\ \A i \in 0..n : ConcludesAll(d2, r[i], FirstOf(due, i))
      /\ \A i \in 1..n : /\ due[i] \in DOMAIN holds /\ due[i] \in DOMAIN transfers
                         /\ transfers[due[i]].state = "pending" /\ due[i].kind # "service"
  BY <1>1 DEF SweepRun
<1>5. /\ d2.transfers = transfers /\ d2.incoming = incoming /\ Touches(holds, d2.holds, L)
      /\ \A id \in L : IsHold(d2.holds[id])
  BY <1>4 DEF Lapses, Lapsed, Ended, SameRows, db
<1>6. HoldsOK(holds) /\ TransfersOK(transfers) /\ L \subseteq DOMAIN holds
  BY DEF Rows, DueRows
<1>7. HoldsOK(d2.holds) /\ DOMAIN d2.holds = DOMAIN holds /\ TransfersOK(d2.transfers)
  BY <1>5, <1>6, TouchedHolds
<1> DEFINE T == {i \in 0..n : Inbound(r[i].transfers, r[i].incoming)}
<1>8. 0 \in T
  BY <1>3, <1>5, FirstIs DEF FinishChain
<1>9. ASSUME NEW i \in 1..n, i - 1 \in T PROVE i \in T
  <2>1. i - 1 \in 0..n /\ i \in 0..n /\ Inbound(r[i - 1].transfers, r[i - 1].incoming)
    BY <1>3, <1>9, FirstIs
  <2> PICK d, X, x : d = r[i - 1] /\ X = FirstOf(due, i - 1) /\ x = due[i]
    OBVIOUS
  <2>3. ConcludesAll(d2, d, X)
    BY <1>4, <2>1
  <2>4. X \subseteq DOMAIN d2.holds /\ X \subseteq DOMAIN d2.transfers
    <3>1. \A j \in 1..(i - 1) : j \in 1..n
      BY SMT, <1>3 DEF Lists
    <3> QED
      BY <1>4, <1>5, <1>7, <3>1 DEF FirstOf
  <2>5. x \notin X
    BY <1>3, FirstIs
  <2>6. x \in DOMAIN d2.holds /\ x \in DOMAIN d2.transfers /\ d2.transfers[x].state = "pending"
    BY <1>4, <1>5, <1>7
  <2>7. Waiting(d, x)
    BY <1>7, <2>3, <2>4, <2>5, <2>6, ConcludeStep
  <2>8. Concludes(d, executeDue(d, x), x)
    BY <2>7, ExecuteConcludes
  <2>9. r[i] = executeDue(d, x)
    BY <1>3, <1>4 DEF FinishChain, finish
  <2>10. Concludes(d, r[i], x) /\ Inbound(d.transfers, d.incoming)
    BY <2>1, <2>8, <2>9
  <2>11. Inbound(r[i].transfers, r[i].incoming)
    BY <2>7, <2>10, ConcludeInbound
  <2> QED
    BY <2>1, <2>11
<1>10. n \in Nat
  BY <1>3 DEF Lists
<1>11. \A k \in 0..n : k \in T
  <2> HIDE DEF T
  <2> QED
    BY <1>8, <1>9, <1>10, Counting
<1>12. Inbound(r[n].transfers, r[n].incoming) /\ Tables(r[n])
  BY <1>3, <1>4, <1>11, FirstIs DEF ConcludesAll
<1>13. SameRows(r[n], decay(r[n], keep))
  BY <1>12, DecayIs
<1>14. incoming' = r[n].incoming /\ transfers' = r[n].transfers
  BY <1>1, <1>13 DEF SweepRun, SameRows, Write
<1> QED
  BY <1>12, <1>14

LEMMA SameKeeps ==
    ASSUME SameSent
    PROVE  SameTransfers /\ KeepsInbound
BY DEF SameSent, SameTransfers, KeepsInbound

LEMMA SentKeeps ==
    ASSUME Rows(holds, transfers), NEW id, NEW b \in Accounts, NEW n \in Nat,
           NEW state \in {"pending", "done"}, NEW end, SentRow(id, b, n, state, end)
    PROVE  KeepsInbound /\ SendRow(id, b, n, state, end)
<1>1. TransfersOK(transfers)
  BY DEF Rows
<1>2. SendRow(id, b, n, state, end)
  BY DEF SentRow
<1>3. Inbound(transfers, incoming) => Inbound(transfers', incoming')
  BY <1>1, SendInbound
<1> QED
  BY <1>2, <1>3 DEF KeepsInbound

-----------------------------------------------------------------------------
(* Every step is a step of the rows.                                       *)

\* What a step makes of the rows and of the usage.
Stepped == RowStep /\ KeepsInbound

LEMMA SpendRows ==
    ASSUME NEW a, NEW e, NEW n, NEW w, Spend(a, e, n, w)
    PROVE  Stepped
<1>1. PICK d : d = prelude(db, a, e)
  OBVIOUS
<1>2. PICK parts : parts = planSpend(d.lots, a, e, n, w)
  OBVIOUS
<1>3. Write(debit(d, a, parts))
  BY <1>1, <1>2 DEF Spend
<1>4. SameRows(db, d)
  BY <1>1, PreludeRows, DbTables
<1>5. SameRows(d, debit(d, a, parts))
  BY <1>4, DebitIs DEF SameRows
<1>6. holds' = holds /\ SameSent
  BY <1>3, <1>4, <1>5, SameSame, WriteSame
<1> QED
  BY <1>6, SameKeeps DEF Stepped, RowStep, NoRow, SameTransfers

LEMMA MintRows ==
    ASSUME NEW a, NEW bucket, NEW n, Mint(a, bucket, n)
    PROVE  Stepped
<1>1. Write(mint(db, a, bucket, n))
  BY DEF Mint
<1>2. holds' = holds /\ SameSent
  BY <1>1, DbTables, MintIs, WriteSame
<1> QED
  BY <1>2, SameKeeps DEF Stepped, RowStep, NoRow, SameTransfers

LEMMA UnitsAre == \A n \in Units : n \in Nat
BY SMT, ConstantsAre DEF Units

LEMMA ActiveRows ==
    ASSUME Clock, Rows(holds, transfers), NEW a \in Active, NEW e \in Shares, NEW n \in Units,
           NEW w \in Water,
           \/ Spend(a, e, n, w)
           \/ \E key \in CallKeys \cup DepositKeys : Reserve(a, e, key, n, w)
           \/ \E key \in TransferKeys, b \in Accounts : Transfer(a, b, e, key, n, w)
           \/ \E key \in EscrowKeys, until \in Untils : Escrow(a, e, key, n, until, w)
    PROVE  Stepped
<1>0. a \in Accounts /\ "done" \in {"pending", "done"} /\ "pending" \in {"pending", "done"}
  BY ConstantsAre
<1>1. CASE Spend(a, e, n, w)
  BY <1>1, SpendRows
<1>2. ASSUME NEW key \in CallKeys \cup DepositKeys, Reserve(a, e, key, n, w) PROVE Stepped
  <2>1. /\ OpenRow(Id(a, "service", key), ServiceOf(key), n, now + TTL)
        /\ now + TTL <= Horizon /\ SameSent
    BY <1>2, ReserveRows
  <2>2. now + TTL \in 0..Horizon
    BY SMT, <2>1, ConstantsAre DEF Clock
  <2>3. ReserveRow
    BY <1>0, <2>1, <2>2, SameKeeps DEF ReserveRow
  <2> QED
    BY <2>1, <2>3, SameKeeps DEF Stepped, RowStep
<1>3. ASSUME NEW key \in TransferKeys, NEW b \in Accounts, Transfer(a, b, e, key, n, w)
      PROVE  Stepped
  <2> PICK id : id = Id(a, "transfer", key)
    OBVIOUS
  <2>2. \/ SentRow(id, b, n, "done", now) /\ holds' = holds
        \/ /\ id \notin DOMAIN holds => OpenRow(id, "ledger", n, now + TransferDelay)
           /\ SentRow(id, b, n, "pending", now + TransferDelay)
    BY SMT, <1>3, TransferRows
  <2>3. id.kind = "transfer"
    BY SMT DEF Id
  <2>4. id \notin DOMAIN transfers => id \notin DOMAIN holds
    BY <2>3 DEF Rows, Linked, LinkedAt
  <2>5. id \notin DOMAIN transfers
    BY <2>2 DEF SentRow, SendRow
  <2>6. CASE SentRow(id, b, n, "done", now) /\ holds' = holds
    <3>1. SendRow(id, b, n, "done", now) /\ KeepsInbound
      BY <1>0, <2>6, UnitsAre, SentKeeps
    <3> QED
      BY <1>0, <2>6, <3>1 DEF Stepped, RowStep, DoneRow
  <2>7. CASE SentRow(id, b, n, "pending", now + TransferDelay)
               /\ OpenRow(id, "ledger", n, now + TransferDelay)
    <3>1. SendRow(id, b, n, "pending", now + TransferDelay) /\ KeepsInbound
      BY <1>0, <2>7, UnitsAre, SentKeeps
    <3> QED
      BY <1>0, <2>7, <3>1 DEF Stepped, RowStep, PendRow
  <2> QED
    BY <2>2, <2>4, <2>5, <2>6, <2>7
<1>4. ASSUME NEW key \in EscrowKeys, NEW until \in Untils, Escrow(a, e, key, n, until, w)
      PROVE  Stepped
  <2>1. OpenRow(Id(a, "escrow", key), "ledger", n, until) /\ SameSent
    BY <1>4, EscrowRows
  <2>2. EscrowRow
    BY <1>0, <2>1, SameKeeps DEF EscrowRow
  <2> QED
    BY <2>1, <2>2, SameKeeps DEF Stepped, RowStep
<1> QED
  BY <1>1, <1>2, <1>3, <1>4

LEMMA HoldRows ==
    ASSUME Clock, Rows(holds, transfers), NEW id \in DOMAIN holds,
           \/ \E used \in 0..MaxUnits : Commit(id, used)
           \/ Refund(id)
           \/ Reimburse(id)
           \/ \E b \in Accounts : EscrowPay(id, b)
           \/ EscrowRelease(id)
           \/ \E key \in EscrowKeys, n \in Units, until \in Untils : EscrowSplit(id, key, n, until)
           \/ \E into \in DOMAIN holds : EscrowJoin(id, into)
    PROVE  Stepped
<1>0. HoldsOK(holds)
  BY DEF Rows
<1>1. ASSUME NEW used \in 0..MaxUnits, Commit(id, used) PROVE Stepped
  <2>1. Settleable(id) /\ used <= holds[id].max /\ Write(settle(db, id, used, "committed"))
    BY <1>1 DEF Commit
  <2>2. "committed" \in HoldStates
    BY DEF HoldStates
  <2>3. EndRow(id, "committed", used) /\ SameSent
    BY <1>0, <2>1, <2>2, SettleRows
  <2>4. SettleRow
    BY <2>1, <2>3, SameKeeps DEF SettleRow, Settleable
  <2> QED
    BY <2>3, <2>4, SameKeeps DEF Stepped, RowStep
<1>2. CASE Refund(id)
  <2>1. Settleable(id) /\ Write(settle(db, id, 0, "refunded"))
    BY <1>2 DEF Refund
  <2>2. "refunded" \in HoldStates
    BY DEF HoldStates
  <2>3. EndRow(id, "refunded", 0) /\ SameSent
    BY <1>0, <2>1, <2>2, SettleRows
  <2>4. SettleRow
    BY <2>1, <2>3, SameKeeps DEF SettleRow, Settleable
  <2> QED
    BY <2>3, <2>4, SameKeeps DEF Stepped, RowStep
<1>3. CASE Reimburse(id)
  <2>1. ReimburseRow(id) /\ SameSent
    BY <1>0, <1>3, ReimburseRows
  <2> QED
    BY <2>1, SameKeeps DEF Stepped, RowStep, MarkRow
<1>4. ASSUME NEW b \in Accounts, EscrowPay(id, b) PROVE Stepped
  <2>1. Unpaid(id)
    BY <1>4 DEF EscrowPay
  <2>2. PaidRow(id, b)
    BY <1>0, <1>4, EscrowPayRows
  <2>3. PICK n \in Nat : n = holds[id].max
    <3>1. IsHold(holds[id])
      BY <1>0 DEF HoldsOK
    <3>2. holds[id].max \in Nat
      BY SMT, <3>1 DEF IsHold
    <3> QED
      BY <3>2
  <2>4. "done" \in {"pending", "done"} /\ "pending" \in {"pending", "done"}
    OBVIOUS
  <2>5. CASE /\ Touches(holds, holds', {id}) /\ Ended(holds[id], holds'[id], "committed")
             /\ SentRow(id, b, holds[id].max, "done", now)
    <3>1. SendRow(id, b, n, "done", now) /\ KeepsInbound
      BY <2>3, <2>4, <2>5, SentKeeps
    <3>2. PayRow(id, b)
      BY <2>3, <2>5, <3>1 DEF PayRow
    <3> QED
      BY <2>1, <3>1, <3>2 DEF Stepped, RowStep, PaymentRow
  <2>6. ASSUME NEW execute \in {now, now + TransferDelay}, Delays(holds, holds', id, execute),
               SentRow(id, b, holds[id].max, "pending", execute)
        PROVE  Stepped
    <3>1. SendRow(id, b, n, "pending", execute) /\ KeepsInbound
      BY <2>3, <2>4, <2>6, SentKeeps
    <3>2. PayRow(id, b)
      BY <2>3, <2>6, <3>1 DEF PayRow
    <3> QED
      BY <2>1, <3>1, <3>2 DEF Stepped, RowStep, PaymentRow
  <2> QED
    BY <2>2, <2>5, <2>6 DEF PaidRow
<1>5. CASE EscrowRelease(id)
  <2>1. Unpaid(id)
    BY <1>5 DEF EscrowRelease
  <2>2. EndRow(id, "refunded", holds[id].used) /\ SameSent
    BY <1>0, <1>5, EscrowReleaseRows
  <2>3. ReleaseRow
    BY <2>1, <2>2, SameKeeps DEF ReleaseRow
  <2> QED
    BY <2>2, <2>3, SameKeeps DEF Stepped, RowStep
<1>6. ASSUME NEW key \in EscrowKeys, NEW n \in Units, NEW until \in Untils,
             EscrowSplit(id, key, n, until)
      PROVE  Stepped
  <2>1. /\ Unpaid(id) /\ SameSent
        /\ SplitRow(id, Id(id.account, "escrow", key), n, Lesser(until, holds[id].expires))
    BY <1>0, <1>6, EscrowSplitRows
  <2>2. SplitsRow
    BY <2>1, SameKeeps DEF SplitsRow
  <2> QED
    BY <2>1, <2>2, SameKeeps DEF Stepped, RowStep
<1>7. ASSUME NEW into \in DOMAIN holds, EscrowJoin(id, into) PROVE Stepped
  <2>1. Unpaid(id) /\ Unpaid(into) /\ JoinRow(id, into) /\ SameSent
    BY <1>0, <1>7, EscrowJoinRows
  <2>2. JoinsRow
    BY <2>1, SameKeeps DEF JoinsRow
  <2> QED
    BY <2>1, <2>2, SameKeeps DEF Stepped, RowStep
<1> QED
  BY <1>1, <1>2, <1>3, <1>4, <1>5, <1>6, <1>7

LEMMA StillRows ==
    ASSUME RowStep, now' = now
    PROVE  [RowsNext]_rows
BY DEF RowStep, NoRow, RowsNext, rows

LEMMA NextRows ==
    ASSUME RowsInv, [Next]_vars
    PROVE  [RowsNext]_rows /\ KeepsInbound
<1>0. Clock /\ Rows(holds, transfers)
  BY DEF RowsInv
<1>1. ASSUME Stepped, now' = now PROVE [RowsNext]_rows /\ KeepsInbound
  BY <1>1, StillRows DEF Stepped
<1>2. ASSUME holds' = holds, transfers' = transfers, incoming' = incoming, now' = now
      PROVE  [RowsNext]_rows /\ KeepsInbound
  BY <1>2 DEF rows, KeepsInbound
<1>3. ASSUME NEW a \in Active, NEW e \in Shares, NEW n \in Units, NEW w \in Water,
             \/ Spend(a, e, n, w)
             \/ \E key \in CallKeys \cup DepositKeys : Reserve(a, e, key, n, w)
             \/ \E key \in TransferKeys, b \in Accounts : Transfer(a, b, e, key, n, w)
             \/ \E key \in EscrowKeys, until \in Untils : Escrow(a, e, key, n, until, w)
      PROVE  [RowsNext]_rows /\ KeepsInbound
  <2>1. now' = now
    BY <1>3 DEF Spend, Reserve, Transfer, Escrow
  <2>2. Stepped
    BY <1>0, <1>3, ActiveRows
  <2> QED
    BY <1>1, <2>1, <2>2
<1>4. ASSUME NEW a \in Funded, NEW bucket \in Minted, NEW n \in Units, Mint(a, bucket, n)
      PROVE  [RowsNext]_rows /\ KeepsInbound
  BY <1>1, <1>4, MintRows DEF Mint
<1>5. ASSUME NEW id \in DOMAIN holds,
             \/ \E used \in 0..MaxUnits : Commit(id, used)
             \/ Refund(id)
             \/ Reimburse(id)
             \/ \E b \in Accounts : EscrowPay(id, b)
             \/ EscrowRelease(id)
             \/ \E key \in EscrowKeys, n \in Units, until \in Untils :
                  EscrowSplit(id, key, n, until)
             \/ \E into \in DOMAIN holds : EscrowJoin(id, into)
      PROVE  [RowsNext]_rows /\ KeepsInbound
  <2>1. now' = now
    BY <1>5 DEF Commit, Refund, Reimburse, EscrowPay, EscrowRelease, EscrowSplit, EscrowJoin
  <2>2. Stepped
    BY <1>0, <1>5, HoldRows
  <2> QED
    BY <1>1, <2>1, <2>2
<1>6. ASSUME NEW id \in DOMAIN transfers, CancelTransfer(id)
      PROVE  [RowsNext]_rows /\ KeepsInbound
  <2>1. now' = now
    BY <1>6 DEF CancelTransfer
  <2>2. Stepped
    BY <1>0, <1>6, CancelRows, CancelInbound DEF Stepped, RowStep, CancelRow
  <2> QED
    BY <1>1, <2>1, <2>2
<1>7. CASE Sweep
  <2>1. now' = now
    BY <1>7 DEF Sweep
  <2>2. Stepped
    BY <1>0, <1>7, SweepRows, SweepInbound DEF Stepped, RowStep
  <2> QED
    BY <1>1, <2>1, <2>2
<1>8. ASSUME NEW a, TripBreaker(a) PROVE [RowsNext]_rows /\ KeepsInbound
  BY <1>2, <1>8 DEF TripBreaker
<1>9. ASSUME NEW f, FreezeTransfers(f) PROVE [RowsNext]_rows /\ KeepsInbound
  BY <1>2, <1>9 DEF FreezeTransfers
<1>10. ASSUME NEW c, SetCap(c) PROVE [RowsNext]_rows /\ KeepsInbound
  BY <1>2, <1>10 DEF SetCap
<1>11. CASE Tick
  <2>1. /\ now < Horizon /\ now' = now + 1 /\ holds' = holds /\ transfers' = transfers
        /\ incoming' = incoming
    BY <1>11 DEF Tick
  <2>2. TickRow
    BY <2>1 DEF TickRow
  <2> QED
    BY <2>1, <2>2 DEF RowsNext, KeepsInbound
<1>12. CASE UNCHANGED vars
  BY <1>2, <1>12 DEF vars
<1> QED
  BY <1>3, <1>4, <1>5, <1>6, <1>7, <1>8, <1>9, <1>10, <1>11, <1>12 DEF Next

LEMMA InitRows ==
    ASSUME Init
    PROVE  RowsInit /\ Inbound(transfers, incoming)
<1>1. transfers = <<>> /\ DOMAIN <<>> = {} /\ incoming = [d \in Days |-> [b \in Accounts |-> 0]]
  BY SMT DEF Init
<1>2. InboundCap \in Nat
  BY SMT, ConstantsAre
<1>3. ASSUME NEW day \in Days, NEW b \in Accounts
      PROVE  InboundAt(transfers, incoming, day, b)
  <2> PICK f : f = Amounts(transfers, SentTo(transfers, day, b))
    OBVIOUS
  <2>2. SentTo(transfers, day, b) = {}
    BY <1>1 DEF SentTo
  <2>3. DOMAIN f = {}
    BY <2>2 DEF Amounts
  <2>4. SentSum(transfers, day, b) = 0
    BY <2>3, SumEmpty DEF SentSum, SumFunction
  <2>5. incoming[day][b] = 0
    BY <1>1
  <2> QED
    BY SMT, <1>2, <2>4, <2>5 DEF InboundAt
<1>4. incoming \in [Days -> [Accounts -> Nat]]
  BY SMT, <1>1
<1>5. RowsInit
  BY DEF Init, RowsInit
<1> QED
  BY <1>3, <1>4, <1>5 DEF Inbound

-----------------------------------------------------------------------------
(* LedgerRowsProofs, on this module's rows: its definitions, which it has  *)
(* from LedgerRows too, are the ones used above.                           *)

R == INSTANCE LedgerRowsProofs

USE RowsAssumption

LEMMA SameInv == R!RowsInv <=> RowsInv
BY DEF RowsInv, R!RowsInv, Clock, R!Clock, Rows, R!Rows, HoldsOK, R!HoldsOK, TransfersOK,
       R!TransfersOK, Linked, R!Linked, LinkedAt, R!LinkedAt, Matches, R!Matches, Table,
       R!Table, Ids, R!Ids, IsHold, R!IsHold, HoldStates, R!HoldStates, IsTransfer,
       R!IsTransfer, CallIds, R!CallIds, IsFiniteSet, R!IsFiniteSet

LEMMA SameStep == [R!RowsNext]_(R!rows) <=> [RowsNext]_rows
BY DEF RowsNext, R!RowsNext, ReserveRow, R!ReserveRow, SettleRow, R!SettleRow, MarkRow,
       R!MarkRow, DoneRow, R!DoneRow, PendRow, R!PendRow, EscrowRow, R!EscrowRow, ReleaseRow,
       R!ReleaseRow, PaymentRow, R!PaymentRow, SplitsRow, R!SplitsRow, JoinsRow, R!JoinsRow,
       CancelRow, R!CancelRow, SweepRow, R!SweepRow, TickRow, R!TickRow, FinishRow,
       R!FinishRow, DueRows, R!DueRows, OpenRow, R!OpenRow, EndRow, R!EndRow, SendRow,
       R!SendRow, PayRow, R!PayRow, SplitRow, R!SplitRow, JoinRow, R!JoinRow, ReimburseRow,
       R!ReimburseRow, SameTransfers, R!SameTransfers, Id, R!Id, Ids, R!Ids, Units, R!Units,
       Lesser, R!Lesser, ServiceOf, R!ServiceOf, NewTransfer, R!NewTransfer, IsService,
       R!IsService, Unpaid, R!Unpaid, HoldStates, R!HoldStates, IsHold, R!IsHold, IsTransfer,
       R!IsTransfer, Table, R!Table, Touches, R!Touches, IsNew, R!IsNew, Ended, R!Ended,
       EndsAs, R!EndsAs, Resized, R!Resized, Emptied, R!Emptied, Delayed, R!Delayed, Delays,
       R!Delays, Marked, R!Marked, Lapsed, R!Lapsed, Closed, R!Closed, Concluded, R!Concluded,
       UnpaidOrReleased, R!UnpaidOrReleased, rows, R!rows

LEMMA SameSpec == R!RowsSpec <=> RowsSpec
BY DEF RowsSpec, R!RowsSpec, RowsInit, R!RowsInit,
       RowsNext, R!RowsNext, ReserveRow, R!ReserveRow, SettleRow, R!SettleRow, MarkRow,
       R!MarkRow, DoneRow, R!DoneRow, PendRow, R!PendRow, EscrowRow, R!EscrowRow, ReleaseRow,
       R!ReleaseRow, PaymentRow, R!PaymentRow, SplitsRow, R!SplitsRow, JoinsRow, R!JoinsRow,
       CancelRow, R!CancelRow, SweepRow, R!SweepRow, TickRow, R!TickRow, FinishRow,
       R!FinishRow, DueRows, R!DueRows, OpenRow, R!OpenRow, EndRow, R!EndRow, SendRow,
       R!SendRow, PayRow, R!PayRow, SplitRow, R!SplitRow, JoinRow, R!JoinRow, ReimburseRow,
       R!ReimburseRow, SameTransfers, R!SameTransfers, Id, R!Id, Ids, R!Ids, Units, R!Units,
       Lesser, R!Lesser, ServiceOf, R!ServiceOf, NewTransfer, R!NewTransfer, IsService,
       R!IsService, Unpaid, R!Unpaid, HoldStates, R!HoldStates, IsHold, R!IsHold, IsTransfer,
       R!IsTransfer, Table, R!Table, Touches, R!Touches, IsNew, R!IsNew, Ended, R!Ended,
       EndsAs, R!EndsAs, Resized, R!Resized, Emptied, R!Emptied, Delayed, R!Delayed, Delays,
       R!Delays, Marked, R!Marked, Lapsed, R!Lapsed, Closed, R!Closed, Concluded, R!Concluded,
       UnpaidOrReleased, R!UnpaidOrReleased, rows, R!rows

LEMMA SameMatch == R!TransferMatchesHold <=> TransferMatchesHold
BY DEF TransferMatchesHold, R!TransferMatchesHold

LEMMA SameSettled == R!SettledForGood <=> SettledForGood
BY DEF SettledForGood, R!SettledForGood, Open, R!Open, rows, R!rows

LEMMA SamePromise == R!KeepsPromise <=> KeepsPromise
BY DEF KeepsPromise, R!KeepsPromise,
       CallNow, R!CallNow, CallView, R!CallView, CallOf, R!CallOf, NoCall, R!NoCall, CallIds,
       R!CallIds, Promise!Spec, R!Promise!Spec, Promise!Init, R!Promise!Init, Promise!NoHold,
       R!Promise!NoHold, Promise!Next, R!Promise!Next, Promise!Reserve, R!Promise!Reserve,
       Promise!Commit, R!Promise!Commit, Promise!Refund, R!Promise!Refund, Promise!Lapse,
       R!Promise!Lapse, Promise!Held, R!Promise!Held, Promise!Ended, R!Promise!Ended,
       Promise!Due, R!Promise!Due

LEMMA SameEscrow == R!KeepsEscrow <=> KeepsEscrow
BY DEF KeepsEscrow, R!KeepsEscrow,
       EscrowNow, R!EscrowNow, EscrowView, R!EscrowView, EscrowOf, R!EscrowOf, NoEscrowRow,
       R!NoEscrowRow, EscrowIds, R!EscrowIds, EscrowPromise!Spec, R!EscrowPromise!Spec,
       EscrowPromise!Init, R!EscrowPromise!Init, EscrowPromise!NoEscrow,
       R!EscrowPromise!NoEscrow, EscrowPromise!Next, R!EscrowPromise!Next,
       EscrowPromise!opened, R!EscrowPromise!opened, EscrowPromise!paid, R!EscrowPromise!paid,
       EscrowPromise!ended, R!EscrowPromise!ended, EscrowPromise!split, R!EscrowPromise!split,
       EscrowPromise!joined, R!EscrowPromise!joined, EscrowPromise!In, R!EscrowPromise!In,
       EscrowPromise!Held, R!EscrowPromise!Held, EscrowPromise!Open, R!EscrowPromise!Open,
       EscrowPromise!Pay, R!EscrowPromise!Pay, EscrowPromise!Release, R!EscrowPromise!Release,
       EscrowPromise!End, R!EscrowPromise!End, EscrowPromise!Split, R!EscrowPromise!Split,
       EscrowPromise!Join, R!EscrowPromise!Join

LEMMA InvAtFirst == RowsInit => RowsInv
BY SameInv, R!InitOK DEF RowsInit, R!RowsInit

LEMMA InvKept == RowsInv /\ [RowsNext]_rows => RowsInv'
<1>1. R!RowsInv' <=> RowsInv'
  BY DEF RowsInv, R!RowsInv, Clock, R!Clock, Rows, R!Rows, HoldsOK, R!HoldsOK, TransfersOK,
         R!TransfersOK, Linked, R!Linked, LinkedAt, R!LinkedAt, Matches, R!Matches, Table,
         R!Table, Ids, R!Ids, IsHold, R!IsHold, HoldStates, R!HoldStates, IsTransfer,
         R!IsTransfer, CallIds, R!CallIds, IsFiniteSet, R!IsFiniteSet
<1> QED
  BY <1>1, SameInv, SameStep, R!StepOK

LEMMA RowsKeep ==
    RowsSpec => /\ []RowsInv /\ []TransferMatchesHold
                /\ SettledForGood /\ KeepsPromise /\ KeepsEscrow
BY PTL, R!RowsInvariant, R!RowsMatch, R!RowsSettled, R!RowsKeepPromise, R!RowsKeepEscrow,
   SameSpec, SameInv, SameMatch, SameSettled, SamePromise, SameEscrow

-----------------------------------------------------------------------------
(* What the ledger keeps.                                                  *)

\* Whatever lots the units are on, every operation of the ledger does to the
\* rows of holds and transfers one of the few things LedgerRows allows, or
\* leaves them alone; a sweep (sweep.go) does so in whatever order it takes the
\* holds, by due time for the transfers, and whichever of them are refused.
THEOREM LedgerKeepsRows == Spec => RowsSpec
<1>1. Init => RowsInv
  BY InitRows, InvAtFirst
<1>2. RowsInv /\ [Next]_vars => RowsInv'
  BY NextRows, InvKept
<1>3. Init => RowsInit
  BY InitRows
<1>4. RowsInv /\ [Next]_vars => [RowsNext]_rows
  BY NextRows
<1> QED
  BY <1>1, <1>2, <1>3, <1>4, PTL DEF Spec, RowsSpec

\* In the ledger a transfer and the hold behind it end together: pending while
\* held, done when committed, cancelled when refunded (transfers.go).
THEOREM LedgerMatches == Spec => []TransferMatchesHold
BY LedgerKeepsRows, RowsKeep, PTL

\* A late Commit, a second sweep, a cancellation after the payment change
\* nothing of a settled hold or an ended transfer; a charged call is marked
\* reimbursed at most once (holds.go, transfers.go).
THEOREM LedgerSettled == Spec => SettledForGood
BY LedgerKeepsRows, RowsKeep, PTL

\* The ledger implements what the services engine is built on (CallHolds): a
\* call's hold ends once, for at most what it reserved, charged in full only
\* past its end, when the sweeper ends all that are due.
THEOREM LedgerKeepsPromise == Spec => KeepsPromise
BY LedgerKeepsRows, RowsKeep, PTL

\* The ledger implements what the board's work is built on (EscrowHolds): an
\* escrow is paid or released once, whole, and a payment behind the breaker or
\* the freeze is executed or cancelled once (escrow.go, escrow_split.go).
THEOREM LedgerKeepsEscrow == Spec => KeepsEscrow
BY LedgerKeepsRows, RowsKeep, PTL

\* addUsage and release (transfers.go) keep a recipient's usage of a day at what
\* was sent to it that day and not cancelled, within the inbound cap, also when
\* the transfer is cancelled or refused on another day.
THEOREM LedgerInbound == Spec => []InboundAccounted
<1> DEFINE Inv == Inbound(transfers, incoming)
<1>1. Init => Inv
  BY InitRows
<1>2. RowsInv /\ Inv /\ [Next]_vars => Inv'
  BY NextRows DEF KeepsInbound
<1>3. Inv => InboundAccounted
  BY DEF Inbound, InboundAt, SentSum, SentTo, Amounts, InboundAccounted
<1> HIDE DEF Inv
<1> QED
  BY <1>1, <1>2, <1>3, LedgerKeepsRows, RowsKeep, PTL DEF Spec
=============================================================================
