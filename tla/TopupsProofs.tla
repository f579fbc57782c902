---------------------------- MODULE TopupsProofs ----------------------------
(***************************************************************************)
(* For any authorizations, accounts, operators and caps, and any number of *)
(* failures: credit is minted for money received, once, money that moved   *)
(* is never written off, and the caps of a day hold.                       *)
(*                                                                         *)
(* The first two are not inductive.  What makes them so is where an        *)
(* authorization can be while settleTopup is at a step (at the             *)
(* facilitator, on chain, or neither), that only a row never sent to be    *)
(* settled can be presented again, and what an operator who has read a row *)
(* still knows when they write it.                                         *)
(***************************************************************************)
EXTENDS Topups, FiniteSetTheorems, WellFoundedInduction, TLAPS

-----------------------------------------------------------------------------
(* Sums: what SumFunctionOnSet(f, S) adds up to, for any function f and    *)
(* finite set S, by induction over the subsets of S.  The induction is a   *)
(* least counterexample of the library's well-founded order on finite      *)
(* subsets, for its induction theorems take operators.                     *)

Pick(s) == CHOOSE x \in s : TRUE

\* The recursion of SumFunctionOnSet.
Step(f, g, s) == IF s = {} THEN 0 ELSE f[Pick(s)] + g[s \ {Pick(s)}]
Solves(f, g, S) == g = [s \in SUBSET S |-> Step(f, g, s)]
Partial(f, S) == CHOOSE g : Solves(f, g, S)

LEMMA PickIn ==
    ASSUME NEW s, s # {}
    PROVE  Pick(s) \in s
<1>1. \E x \in s : TRUE
  BY Zenon
<1> QED
  BY <1>1, Zenon DEF Pick

LEMMA Least ==
    ASSUME NEW R, NEW F, IsWellFoundedOn(R, F), NEW B, B \subseteq F, B # {}
    PROVE  \E x \in B : \A y \in B : ~(<<y, x>> \in R)
BY WFMin, Zenon

\* A set of subsets of S that holds a set whenever it holds all smaller ones
\* holds them all.
LEMMA SubsetInduction ==
    ASSUME NEW S, IsFiniteSet(S), NEW T \in SUBSET SUBSET S,
           \A s \in SUBSET S : (\A u \in SUBSET s : u # s => u \in T) => s \in T
    PROVE  T = SUBSET S
<1> DEFINE B == (SUBSET S) \ T
           R == StrictSubsetOrdering(S)
           F == FiniteSubsetsOf(S)
<1>1. IsWellFoundedOn(R, F)
  BY Zenon, FS_StrictSubsetOrderingWellFounded
<1>2. B \subseteq F
  BY Zenon, FS_Subset DEF FiniteSubsetsOf
<1>3. SUFFICES ASSUME B # {} PROVE FALSE
  BY Zenon
<1>4. \E x \in B : \A y \in B : ~(<<y, x>> \in R)
  <2> HIDE DEF B, R, F
  <2> QED
    BY <1>1, <1>2, <1>3, Least
<1>5. PICK x \in B : \A y \in B : ~(<<y, x>> \in R)
  BY Zenon, <1>4
<1>6. ASSUME NEW u \in SUBSET x, u # x PROVE u \in T
  <2>1. <<u, x>> \in R
    BY Zenon, <1>6 DEF StrictSubsetOrdering
  <2> QED
    BY Zenon, <1>5, <2>1
<1> QED
  BY Zenon, <1>6

LEMMA SumIs ==
    ASSUME NEW f, NEW S
    PROVE  SumFunctionOnSet(f, S) = Partial(f, S)[S]
BY Zenon DEF SumFunctionOnSet, FoldFunctionOnSet, MapThenFoldSet, Partial, Solves, Step, Pick

\* What solves the recursion on S solves it on a subset, and is determined.
LEMMA Determined ==
    ASSUME NEW f, NEW S, IsFiniteSet(S), NEW g, NEW h, NEW U, S \subseteq U,
           Solves(f, g, S), Solves(f, h, U)
    PROVE  \A s \in SUBSET S : g[s] = h[s]
<1> DEFINE T == {s \in SUBSET S : g[s] = h[s]}
<1>1. ASSUME NEW s \in SUBSET S, \A u \in SUBSET s : u # s => u \in T PROVE s \in T
  <2>1. g[s] = Step(f, g, s) /\ h[s] = Step(f, h, s)
    BY Zenon DEF Solves
  <2>2. CASE s = {}
    BY Zenon, <2>1, <2>2 DEF Step
  <2>3. CASE s # {}
    <3>1. g[s \ {Pick(s)}] = h[s \ {Pick(s)}]
      BY Zenon, <1>1, <2>3, PickIn
    <3> QED
      BY Zenon, <2>1, <2>3, <3>1 DEF Step
  <2> QED
    BY Zenon, <2>2, <2>3
<1>2. T \in SUBSET SUBSET S
  BY Zenon
<1> HIDE DEF T
<1>3. T = SUBSET S
  BY Zenon, <1>1, <1>2, SubsetInduction
<1> QED
  BY Zenon, <1>3 DEF T

\* The recursion has a solution.
LEMMA Solvable ==
    ASSUME NEW f, NEW S, IsFiniteSet(S)
    PROVE  \A s \in SUBSET S : Solves(f, Partial(f, s), s)
<1> DEFINE T == {s \in SUBSET S : Solves(f, Partial(f, s), s)}
<1>1. ASSUME NEW s \in SUBSET S, \A u \in SUBSET s : u # s => u \in T PROVE s \in T
  <2> DEFINE Whole(u) == Partial(f, u)[u]
             g == [u \in SUBSET s |-> IF u = {} THEN 0 ELSE f[Pick(u)] + Whole(u \ {Pick(u)})]
  <2>1. ASSUME NEW u \in SUBSET s, u # s PROVE g[u] = Whole(u)
    <3>1. Solves(f, Partial(f, u), u)
      BY Zenon, <1>1, <2>1
    <3>2. Whole(u) = Step(f, Partial(f, u), u)
      BY Zenon, <3>1 DEF Solves
    <3>3. CASE u = {}
      BY Zenon, <3>2, <3>3 DEF Step
    <3>4. CASE u # {}
      <4> DEFINE v == u \ {Pick(u)}
      <4>1. v \subseteq u /\ v # u /\ v # s /\ v \in SUBSET s /\ IsFiniteSet(v)
        BY Zenon, <2>1, <3>4, PickIn, FS_Subset
      <4>2. Solves(f, Partial(f, v), v)
        BY Zenon, <1>1, <4>1
      <4>3. Partial(f, v)[v] = Partial(f, u)[v]
        <5> HIDE DEF v
        <5>1. \A w \in SUBSET v : Partial(f, v)[w] = Partial(f, u)[w]
          BY <3>1, <4>1, <4>2, Determined
        <5> QED
          BY Zenon, <5>1
      <4> QED
        BY Zenon, <3>2, <3>4, <4>3 DEF Step
    <3> QED
      BY Zenon, <3>3, <3>4
  <2>2. ASSUME NEW u \in SUBSET s PROVE g[u] = Step(f, g, u)
    <3>1. CASE u = {}
      BY Zenon, <3>1 DEF Step
    <3>2. CASE u # {}
      <4>1. u \ {Pick(u)} \in SUBSET s /\ u \ {Pick(u)} # s
        BY Zenon, <3>2, PickIn
      <4>2. g[u \ {Pick(u)}] = Whole(u \ {Pick(u)})
        BY Zenon, <2>1, <4>1
      <4> QED
        BY Zenon, <3>2, <4>2 DEF Step
    <3> QED
      BY Zenon, <3>1, <3>2
  <2>3. Solves(f, g, s)
    BY Zenon, <2>2 DEF Solves
  <2> HIDE DEF g
  <2>4. \E h : Solves(f, h, s)
    BY Zenon, <2>3
  <2>5. Solves(f, Partial(f, s), s)
    BY <2>4, Zenon DEF Partial
  <2> QED
    BY Zenon, <2>5
<1>2. T \in SUBSET SUBSET S
  BY Zenon
<1> HIDE DEF T
<1>3. T = SUBSET S
  BY Zenon, <1>1, <1>2, SubsetInduction
<1> QED
  BY Zenon, <1>3 DEF T

\* The sum takes one element after another.
LEMMA SumStep ==
    ASSUME NEW f, NEW S, IsFiniteSet(S)
    PROVE  SumFunctionOnSet(f, S) =
             IF S = {} THEN 0 ELSE f[Pick(S)] + SumFunctionOnSet(f, S \ {Pick(S)})
<1>1. \A s \in SUBSET S : Solves(f, Partial(f, s), s)
  BY Zenon, Solvable
<1>2. Partial(f, S)[S] = Step(f, Partial(f, S), S)
  BY Zenon, <1>1 DEF Solves
<1>3. CASE S = {}
  BY Zenon, <1>2, <1>3, SumIs DEF Step
<1>4. CASE S # {}
  <2>1. PICK v : v = S \ {Pick(S)}
    BY Zenon
  <2>2. v \in SUBSET S /\ IsFiniteSet(v)
    BY Zenon, <2>1, FS_Subset
  <2>3. \A w \in SUBSET v : Partial(f, v)[w] = Partial(f, S)[w]
    BY <1>1, <2>2, Determined
  <2>4. Partial(f, v)[v] = Partial(f, S)[v]
    BY Zenon, <2>3
  <2> QED
    BY Zenon, <1>2, <1>4, <2>1, <2>4, SumIs DEF Step
<1> QED
  BY Zenon, <1>3, <1>4

\* A sum of integers is one.
LEMMA SumInt ==
    ASSUME NEW f, NEW S, IsFiniteSet(S), \A x \in S : f[x] \in Int
    PROVE  SumFunctionOnSet(f, S) \in Int
<1> DEFINE T == {s \in SUBSET S : SumFunctionOnSet(f, s) \in Int}
<1>1. ASSUME NEW s \in SUBSET S, \A u \in SUBSET s : u # s => u \in T PROVE s \in T
  <2>1. IsFiniteSet(s)
    BY Zenon, FS_Subset
  <2>2. CASE s = {}
    <3>1. SumFunctionOnSet(f, s) = 0
      BY Zenon, <2>1, <2>2, SumStep
    <3> QED
      BY <3>1
  <2>3. CASE s # {}
    <3>1. Pick(s) \in s /\ SumFunctionOnSet(f, s \ {Pick(s)}) \in Int
      BY Zenon, <1>1, <2>3, PickIn
    <3> QED
      BY <2>1, <2>3, <3>1, SumStep
  <2> QED
    BY Zenon, <2>2, <2>3
<1>2. T \in SUBSET SUBSET S
  BY Zenon
<1> HIDE DEF T
<1>3. T = SUBSET S
  BY Zenon, <1>1, <1>2, SubsetInduction
<1> QED
  BY Zenon, <1>3 DEF T

\* Any element may be taken first.
LEMMA SumRemove ==
    ASSUME NEW f, NEW S, IsFiniteSet(S), \A x \in S : f[x] \in Int, NEW y \in S
    PROVE  SumFunctionOnSet(f, S) = f[y] + SumFunctionOnSet(f, S \ {y})
<1> DEFINE Whole(s) == SumFunctionOnSet(f, s)
           T == {s \in SUBSET S : \A x \in s : Whole(s) = f[x] + Whole(s \ {x})}
<1>1. ASSUME NEW s \in SUBSET S PROVE IsFiniteSet(s) /\ Whole(s) \in Int
  <2>1. IsFiniteSet(s)
    BY Zenon, FS_Subset
  <2> QED
    BY Zenon, <2>1, SumInt
<1>2. ASSUME NEW s \in SUBSET S, s # {} PROVE Pick(s) \in s /\ Whole(s) = f[Pick(s)] + Whole(s \ {Pick(s)})
  BY Zenon, <1>1, <1>2, PickIn, SumStep
<1> HIDE DEF Whole
<1>3. ASSUME NEW s \in SUBSET S, \A u \in SUBSET s : u # s => u \in T PROVE s \in T
  <2> SUFFICES ASSUME NEW x \in s PROVE Whole(s) = f[x] + Whole(s \ {x})
    BY Zenon
  <2>1. PICK p : p = Pick(s)
    BY Zenon
  <2>2. p \in s /\ Whole(s) = f[p] + Whole(s \ {p})
    BY Zenon, <1>2, <2>1
  <2>3. CASE x = p
    BY Zenon, <2>2, <2>3
  <2>4. CASE x # p
    <3>1. s \ {p} \in T /\ x \in s \ {p} /\ s \ {x} \in T /\ p \in s \ {x}
      BY Zenon, <1>3, <2>2, <2>4
    <3>2. PICK rest \in Int : rest = Whole((s \ {p}) \ {x})
      BY Zenon, <1>1
    <3>3. Whole(s \ {p}) = f[x] + rest
      BY Zenon, <3>1, <3>2
    <3>4. (s \ {p}) \ {x} = (s \ {x}) \ {p}
      BY Zenon
    <3>5. Whole(s \ {x}) = f[p] + rest
      BY Zenon, <3>1, <3>2, <3>4
    <3>6. f[x] \in Int /\ f[p] \in Int
      BY Zenon, <2>2
    <3>7. Whole(s) = f[p] + (f[x] + rest) /\ f[x] + Whole(s \ {x}) = f[x] + (f[p] + rest)
      BY Zenon, <2>2, <3>3, <3>5
    <3>8. f[p] + (f[x] + rest) = f[x] + (f[p] + rest)
      BY <3>6
    <3> QED
      BY Zenon, <3>7, <3>8
  <2> QED
    BY Zenon, <2>3, <2>4
<1>4. T \in SUBSET SUBSET S
  BY Zenon
<1>5. \A x \in S : T = SUBSET S => Whole(S) = f[x] + Whole(S \ {x})
  BY Zenon
<1> HIDE DEF T
<1>6. T = SUBSET S
  BY Zenon, <1>3, <1>4, SubsetInduction
<1> QED
  BY Zenon, <1>5, <1>6 DEF Whole

\* One element more.
LEMMA SumAdd ==
    ASSUME NEW f, NEW S, IsFiniteSet(S), NEW y, y \notin S, \A x \in S \cup {y} : f[x] \in Int
    PROVE  SumFunctionOnSet(f, S \cup {y}) = SumFunctionOnSet(f, S) + f[y]
<1>1. PICK U : U = S \cup {y}
  BY Zenon
<1>2. IsFiniteSet(U) /\ y \in U /\ U \ {y} = S /\ \A x \in U : f[x] \in Int
  BY Zenon, <1>1, FS_AddElement
<1>3. SumFunctionOnSet(f, U) = f[y] + SumFunctionOnSet(f, U \ {y})
  BY <1>2, SumRemove
<1>4. SumFunctionOnSet(f, S) \in Int /\ f[y] \in Int
  BY Zenon, SumInt
<1>5. SumFunctionOnSet(f, U) = f[y] + SumFunctionOnSet(f, S)
  BY Zenon, <1>2, <1>3
<1> QED
  BY <1>1, <1>4, <1>5

\* A sum of natural numbers is one, and no smaller than that of a subset.
LEMMA SumSubset ==
    ASSUME NEW f, NEW S, IsFiniteSet(S), \A x \in S : f[x] \in Nat, NEW U \in SUBSET S
    PROVE  /\ SumFunctionOnSet(f, S) \in Nat /\ SumFunctionOnSet(f, U) \in Nat
           /\ SumFunctionOnSet(f, U) <= SumFunctionOnSet(f, S)
<1> DEFINE Whole(s) == SumFunctionOnSet(f, s)
           T == {s \in SUBSET S : /\ Whole(s) \in Nat
                                  /\ \A u \in SUBSET s : Whole(u) <= Whole(s)}
<1>1. ASSUME NEW s \in SUBSET S, NEW x \in s PROVE Whole(s) = f[x] + Whole(s \ {x})
  <2>1. IsFiniteSet(s) /\ \A y \in s : f[y] \in Int
    BY FS_Subset
  <2> QED
    BY <2>1, SumRemove
<1>2. Whole({}) = 0
  BY Zenon, FS_EmptySet, SumStep
<1> HIDE DEF Whole
<1>3. ASSUME NEW s \in SUBSET S, \A u \in SUBSET s : u # s => u \in T PROVE s \in T
  <2>1. ASSUME NEW x \in s PROVE Whole(s \ {x}) \in Nat /\ Whole(s) = f[x] + Whole(s \ {x})
    BY Zenon, <1>1, <1>3
  <2>2. Whole(s) \in Nat
    <3>1. CASE s = {}
      BY <1>2, <3>1
    <3>2. CASE s # {}
      <4>1. PICK x \in s : TRUE
        BY Zenon, <3>2
      <4>2. Whole(s \ {x}) \in Nat /\ Whole(s) = f[x] + Whole(s \ {x}) /\ f[x] \in Nat
        BY Zenon, <2>1
      <4> QED
        BY <4>2
    <3> QED
      BY Zenon, <3>1, <3>2
  <2>3. ASSUME NEW u \in SUBSET s PROVE Whole(u) <= Whole(s)
    <3>1. CASE u = s
      BY <2>2, <3>1
    <3>2. CASE u # s
      <4>1. PICK x \in s : x \notin u
        BY Zenon, <3>2
      <4>2. PICK v : v = s \ {x}
        BY Zenon
      <4>3. v \in T /\ u \in SUBSET v /\ u \in T
        BY Zenon, <1>3, <3>2, <4>1, <4>2
      <4>4. Whole(u) <= Whole(v) /\ Whole(u) \in Nat /\ Whole(v) \in Nat
        BY Zenon, <4>3
      <4>5. Whole(s) = f[x] + Whole(v) /\ f[x] \in Nat
        BY Zenon, <2>1, <4>2
      <4> QED
        BY <4>4, <4>5
    <3> QED
      BY Zenon, <3>1, <3>2
  <2> QED
    BY Zenon, <2>2, <2>3
<1>4. T \in SUBSET SUBSET S
  BY Zenon
<1>5. S \in T /\ U \in T => Whole(S) \in Nat /\ Whole(U) \in Nat /\ Whole(U) <= Whole(S)
  BY Zenon
<1> HIDE DEF T
<1>6. T = SUBSET S
  BY Zenon, <1>3, <1>4, SubsetInduction
<1> QED
  BY Zenon, <1>5, <1>6 DEF Whole

-----------------------------------------------------------------------------
(* Credit and money.                                                       *)

\* The steps of settleTopup: the row is settling; before the facilitator is
\* asked and after it refused the money has not moved and will not; a credit
\* follows money that moved.
TaskInv ==
    \A n \in Auths :
        /\ task[n] # "idle" => In(n, {"settling"})
        /\ task[n] \in {"credit", "uncredited"} => n \in onchain
        /\ task[n] \in {"verify", "settle", "failed", "retryable"}
             => n \notin asked \cup onchain

\* The rows: one that may be presented again was never sent to be settled; a
\* failed one has not moved its money, and can no more.
RowInv ==
    \A n \in Auths :
        /\ In(n, {"none"}) => n \notin asked \cup onchain
        /\ row[n].retryable => In(n, {"failed"}) /\ n \notin asked
        /\ In(n, {"failed"}) => n \notin onchain /\ (n \in asked => n \in lapsed)

\* What an operator has seen stays true: transactions stay on chain, and an
\* authorization that lapsed unused stays unused.
OpInv ==
    \A o \in Operators :
        /\ op[o].pc \in {"clear", "credit"} => op[o].n \in Auths /\ op[o].tx \in onchain
        /\ op[o].pc = "fail" => op[o].n \in Auths /\ op[o].n \in lapsed \ onchain

IInv == TypeOK /\ MintedForMoney /\ TaskInv /\ RowInv /\ OpInv

USE DEF In

\* No row, no request and no money at the start.
LEMMA InitInv == Init => IInv
  BY TopupsAssumption
     DEF Init, IInv, TypeOK, MintedForMoney, TaskInv, RowInv, OpInv, NoRow, Idle, Rows, Tasks

\* A row that is written stays a row, and no other changes.
LEMMA RowWritten ==
  ASSUME row \in [Auths -> Rows], NEW n \in Auths, NEW r \in Rows,
         row' = [row EXCEPT ![n] = r]
  PROVE  /\ row' \in [Auths -> Rows]
         /\ row'[n] = r
         /\ \A m \in Auths \ {n} : row'[m] = row[m]
  BY Zenon

\* What creditTopup writes.
LEMMA Credited ==
  ASSUME row \in [Auths -> Rows], NEW n \in Auths, NEW tx \in Auths, creditTopup(n, tx)
  PROVE  /\ row' \in [Auths -> Rows]
         /\ row'[n].state = "credited" /\ row'[n].retryable = FALSE /\ row'[n].tx = tx
         /\ \A m \in Auths \ {n} : row'[m] = row[m]
  <1> DEFINE r == [row[n] EXCEPT !.state = "credited", !.retryable = FALSE, !.tx = tx]
  <1>1. r \in Rows /\ r.state = "credited" /\ r.retryable = FALSE /\ r.tx = tx
    BY ZenonT(30) DEF Rows
  <1>2. row' = [row EXCEPT ![n] = r]
    BY Zenon DEF creditTopup
  <1> HIDE DEF r
  <1> QED
    BY Zenon, <1>1, <1>2, RowWritten

\* A presented authorization is new, or was never sent to be settled.
LEMMA PresentInv ==
  ASSUME IInv, NEW a \in Accounts, NEW n \in Auths, Present(a, n)
  PROVE  IInv'
  <1>1. TypeOK'
    BY Zenon, TopupsAssumption DEF IInv, TypeOK, Tasks, Rows, Present, Fresh, Settling
  <1>2. MintedForMoney'
    BY Zenon, TopupsAssumption DEF IInv, TypeOK, MintedForMoney, Rows, Present, Fresh, Settling
  <1>3. TaskInv'
    BY Zenon, TopupsAssumption DEF IInv, TypeOK, TaskInv, RowInv, Rows, Present, Fresh, Settling
  <1>4. RowInv'
    BY Zenon, TopupsAssumption DEF IInv, TypeOK, RowInv, TaskInv, Rows, Present, Fresh, Settling
  <1>5. OpInv'
    BY Zenon, TopupsAssumption DEF IInv, TypeOK, OpInv, Rows, Present, Fresh, Settling
  <1> QED
    BY Zenon, <1>1, <1>2, <1>3, <1>4, <1>5 DEF IInv

\* Verifying moves no money.
LEMMA VerifyInv ==
  ASSUME IInv, NEW n \in Auths, Verify(n)
  PROVE  IInv'
  <1>1. TypeOK'
    BY TopupsAssumption DEF IInv, TypeOK, Tasks, Rows, Verify, Goes
  <1>2. MintedForMoney'
    BY TopupsAssumption DEF IInv, TypeOK, MintedForMoney, Rows, Verify, Goes
  <1>3. TaskInv'
    BY ZenonT(30), TopupsAssumption DEF IInv, TypeOK, TaskInv, Rows, Verify, Goes
  <1>4. RowInv'
    BY Zenon, TopupsAssumption DEF IInv, TypeOK, RowInv, Rows, Verify, Goes
  <1>5. OpInv'
    BY Zenon, TopupsAssumption DEF IInv, TypeOK, OpInv, Rows, Verify, Goes
  <1> QED
    BY Zenon, <1>1, <1>2, <1>3, <1>4, <1>5 DEF IInv

\* Once asked, the facilitator may settle: the row is settling by then.
LEMMA AskInv ==
  ASSUME IInv, NEW n \in Auths, AskSettle(n)
  PROVE  IInv'
  <1>1. TypeOK'
    BY Zenon, TopupsAssumption DEF IInv, TypeOK, Tasks, Rows, AskSettle, Goes
  <1>2. MintedForMoney'
    BY Zenon, TopupsAssumption DEF IInv, TypeOK, MintedForMoney, Rows, AskSettle, Goes
  <1>3. TaskInv'
    BY Zenon, TopupsAssumption DEF IInv, TypeOK, TaskInv, Rows, AskSettle, Goes
  <1>4. RowInv'
    BY Zenon, TopupsAssumption DEF IInv, TypeOK, RowInv, TaskInv, Rows, AskSettle, Goes
  <1>5. OpInv'
    BY Zenon, TopupsAssumption DEF IInv, TypeOK, OpInv, Rows, AskSettle, Goes
  <1> QED
    BY Zenon, <1>1, <1>2, <1>3, <1>4, <1>5 DEF IInv

\* The facilitator settles only what it was asked to and has not lapsed.
LEMMA FacilitatorInv ==
  ASSUME IInv, NEW n \in Auths, FacilitatorSettles(n) \/ FacilitatorRefuses(n)
  PROVE  IInv'
  <1>1. TypeOK'
    BY Zenon, TopupsAssumption DEF IInv, TypeOK, Tasks, Rows, FacilitatorSettles, FacilitatorRefuses
  <1>2. MintedForMoney'
    BY Zenon, TopupsAssumption DEF IInv, TypeOK, MintedForMoney, Rows, FacilitatorSettles, FacilitatorRefuses
  <1>3. TaskInv'
    BY Zenon, TopupsAssumption DEF IInv, TypeOK, TaskInv, RowInv, Rows, FacilitatorSettles, FacilitatorRefuses
  <1>4. RowInv'
    BY TopupsAssumption DEF IInv, TypeOK, RowInv, Rows, FacilitatorSettles, FacilitatorRefuses
  <1>5. OpInv'
    BY TopupsAssumption DEF IInv, TypeOK, OpInv, Rows, FacilitatorSettles, FacilitatorRefuses
  <1> QED
    BY Zenon, <1>1, <1>2, <1>3, <1>4, <1>5 DEF IInv

\* A settled answer follows the money, a refusal says it will not move.
LEMMA AnswerInv ==
  ASSUME IInv, NEW n \in Auths, Answer(n)
  PROVE  IInv'
  <1>1. TypeOK'
    BY Zenon, TopupsAssumption DEF IInv, TypeOK, Tasks, Rows, Answer, Goes
  <1>2. MintedForMoney'
    BY ZenonT(30), TopupsAssumption DEF IInv, TypeOK, MintedForMoney, Rows, Answer, Goes
  <1>3. TaskInv'
    BY TopupsAssumption DEF IInv, TypeOK, TaskInv, Rows, Answer, Goes
  <1>4. RowInv'
    BY Zenon, TopupsAssumption DEF IInv, TypeOK, RowInv, Rows, Answer, Goes
  <1>5. OpInv'
    BY Zenon, TopupsAssumption DEF IInv, TypeOK, OpInv, Rows, Answer, Goes
  <1> QED
    BY Zenon, <1>1, <1>2, <1>3, <1>4, <1>5 DEF IInv

\* What is recorded failed was refused, or never sent to be settled.
LEMMA RecordInv ==
  ASSUME IInv, NEW n \in Auths, Record(n)
  PROVE  IInv'
  <1> DEFINE r == [row[n] EXCEPT
                     !.state = IF task[n] = "unknown" THEN "unknown" ELSE "failed",
                     !.retryable = task[n] = "retryable"]
  <1>1. row[n] \in Rows /\ (task[n] = "retryable") \in BOOLEAN
    BY Zenon DEF IInv, TypeOK
  <1>2. /\ r \in Rows /\ r.tx = row[n].tx
        /\ r.state = IF task[n] = "unknown" THEN "unknown" ELSE "failed"
        /\ r.retryable <=> task[n] = "retryable"
    BY ZenonT(30), <1>1 DEF Rows
  <1>3. row' = [row EXCEPT ![n] = r]
    BY Zenon DEF IInv, TaskInv, Record
  <1> HIDE DEF r
  <1>4. /\ row' \in [Auths -> Rows] /\ row'[n] = r
        /\ \A m \in Auths \ {n} : row'[m] = row[m]
    BY Zenon, <1>2, <1>3, RowWritten DEF IInv, TypeOK
  <1>5. TypeOK'
    BY Zenon, <1>2, <1>4 DEF IInv, TypeOK, MintedForMoney, Tasks, Record
  <1>6. MintedForMoney'
    BY <1>2, <1>4 DEF IInv, TypeOK, MintedForMoney, TaskInv, Record
  <1>7. TaskInv'
    BY <1>2, <1>4 DEF IInv, TypeOK, TaskInv, RowInv, Record
  <1>8. RowInv'
    <2>1. UNCHANGED <<asked, onchain, lapsed>>
      BY Zenon DEF Record
    <2>2. /\ r.state \in {"unknown", "failed"} /\ (r.retryable => r.state = "failed")
          /\ r.state = "failed" => n \notin asked \cup onchain
      BY Zenon, <1>2 DEF IInv, TaskInv, Record
    <2> QED
      BY Zenon, <1>4, <2>1, <2>2 DEF IInv, RowInv
  <1>9. OpInv'
    BY Zenon, <1>2, <1>4 DEF IInv, TypeOK, OpInv, Record
  <1> QED
    BY Zenon, <1>5, <1>6, <1>7, <1>8, <1>9 DEF IInv

\* The server credits a settling row with a transaction no other row has.
LEMMA CreditInv ==
  ASSUME IInv, NEW n \in Auths, Credit(n)
  PROVE  IInv'
  <1>1. /\ row' \in [Auths -> Rows]
        /\ row'[n].state = "credited" /\ row'[n].retryable = FALSE /\ row'[n].tx = n
        /\ \A m \in Auths \ {n} : row'[m] = row[m]
    BY ZenonT(30), Credited DEF IInv, TypeOK, Credit
  <1>2. lots' = [lots EXCEPT ![n] = @ + 1] /\ In(n, {"settling"}) /\ HashFree(n, n)
    BY Zenon DEF Credit, Creditable, creditTopup
  <1>3. TypeOK'
    BY <1>1, <1>2 DEF IInv, TypeOK, MintedForMoney, Tasks, Credit, HashFree
  <1>4. MintedForMoney'
    BY <1>1, <1>2 DEF IInv, TypeOK, MintedForMoney, TaskInv, Credit, HashFree
  <1>5. TaskInv'
    BY Zenon, <1>1, <1>2 DEF IInv, TypeOK, TaskInv, RowInv, Credit, HashFree
  <1>6. RowInv'
    BY ZenonT(30), <1>1, <1>2 DEF IInv, TypeOK, RowInv, TaskInv, OpInv, Credit, HashFree
  <1>7. OpInv'
    BY Zenon, <1>1, <1>2 DEF IInv, TypeOK, OpInv, Credit, HashFree
  <1> QED
    BY Zenon, <1>3, <1>4, <1>5, <1>6, <1>7 DEF IInv

\* A credit that fails writes nothing.
LEMMA CreditFailsInv ==
  ASSUME IInv, NEW n \in Auths, CreditFails(n)
  PROVE  IInv'
  <1>1. TypeOK'
    BY TopupsAssumption DEF IInv, TypeOK, Tasks, Rows, CreditFails
  <1>2. MintedForMoney'
    BY Zenon, TopupsAssumption DEF IInv, TypeOK, MintedForMoney, Rows, CreditFails
  <1>3. TaskInv'
    BY Zenon, TopupsAssumption DEF IInv, TypeOK, TaskInv, Rows, CreditFails
  <1>4. RowInv'
    BY Zenon, TopupsAssumption DEF IInv, TypeOK, RowInv, Rows, CreditFails
  <1>5. OpInv'
    BY Zenon, TopupsAssumption DEF IInv, TypeOK, OpInv, Rows, CreditFails
  <1> QED
    BY Zenon, <1>1, <1>2, <1>3, <1>4, <1>5 DEF IInv

\* A settled row that was not credited takes the hash only if no row has it.
LEMMA UncreditedInv ==
  ASSUME IInv, NEW n \in Auths, RecordUncredited(n)
  PROVE  IInv'
  <1> DEFINE r == [row[n] EXCEPT
                     !.state = "unknown",
                     !.tx = IF \E m \in Auths : row[m].tx = n THEN row[n].tx ELSE n]
  <1>1. /\ r \in Rows /\ r.state = "unknown" /\ r.retryable = row[n].retryable
        /\ r.tx = row[n].tx \/ (r.tx = n /\ \A m \in Auths : row[m].tx # n)
    <2>1. row[n] \in Rows
      BY Zenon DEF IInv, TypeOK
    <2>2. CASE \E m \in Auths : row[m].tx = n
      BY ZenonT(30), <2>1, <2>2 DEF Rows
    <2>3. CASE \A m \in Auths : row[m].tx # n
      BY ZenonT(30), <2>1, <2>3 DEF Rows
    <2> QED
      BY Zenon, <2>2, <2>3
  <1>2. row' = [row EXCEPT ![n] = r]
    BY Zenon DEF IInv, TaskInv, RecordUncredited
  <1> HIDE DEF r
  <1>3. /\ row' \in [Auths -> Rows] /\ row'[n] = r
        /\ \A m \in Auths \ {n} : row'[m] = row[m]
    BY Zenon, <1>1, <1>2, RowWritten DEF IInv, TypeOK
  <1>4. TypeOK'
    BY Zenon, TopupsAssumption, <1>1, <1>3 DEF IInv, TypeOK, MintedForMoney, Tasks, RecordUncredited
  <1>5. MintedForMoney'
    <2>1. UNCHANGED <<lots, onchain>> /\ In(n, {"settling"})
      BY Zenon DEF RecordUncredited, IInv, TaskInv
    <2>2. \A m, k \in Auths : m # k /\ row'[m].tx = row'[k].tx => row'[m].tx = None
      BY <1>1, <1>3 DEF IInv, MintedForMoney
    <2> QED
      BY Zenon, <1>1, <1>3, <2>1, <2>2 DEF IInv, MintedForMoney
  <1>6. TaskInv'
    BY TopupsAssumption, <1>1, <1>3 DEF IInv, TypeOK, TaskInv, RowInv, RecordUncredited
  <1>7. RowInv'
    BY TopupsAssumption, <1>1, <1>3 DEF IInv, TypeOK, RowInv, TaskInv, OpInv, RecordUncredited
  <1>8. OpInv'
    BY Zenon, TopupsAssumption, <1>1, <1>3 DEF IInv, TypeOK, OpInv, RecordUncredited
  <1> QED
    BY Zenon, <1>4, <1>5, <1>6, <1>7, <1>8 DEF IInv

\* An outcome that is not recorded leaves the row settling.
LEMMA LostInv ==
  ASSUME IInv, NEW n \in Auths, RecordLost(n)
  PROVE  IInv'
  <1>1. TypeOK'
    BY TopupsAssumption DEF IInv, TypeOK, Tasks, Rows, RecordLost
  <1>2. MintedForMoney'
    BY Zenon, TopupsAssumption DEF IInv, TypeOK, MintedForMoney, Rows, RecordLost
  <1>3. TaskInv'
    BY Zenon, TopupsAssumption DEF IInv, TypeOK, TaskInv, Rows, RecordLost
  <1>4. RowInv'
    BY Zenon, TopupsAssumption DEF IInv, TypeOK, RowInv, Rows, RecordLost
  <1>5. OpInv'
    BY Zenon, TopupsAssumption DEF IInv, TypeOK, OpInv, Rows, RecordLost
  <1> QED
    BY Zenon, <1>1, <1>2, <1>3, <1>4, <1>5 DEF IInv

\* A restart loses every task; what was settling is unknown.
LEMMA RestartInv ==
  ASSUME IInv, Restart
  PROVE  IInv'
  <1>1. TypeOK'
    <2>1. row' \in [Auths -> Rows]
      BY SMTT(30) DEF IInv, TypeOK, Rows, Restart
    <2>2. failures' \in 0..MaxFailures /\ task' \in [Auths -> Tasks]
      BY TopupsAssumption DEF IInv, TypeOK, Tasks, Restart
    <2>3. UNCHANGED <<today, lots, asked, onchain, lapsed, op>>
      BY Zenon DEF Restart
    <2> QED
      BY Zenon, <2>1, <2>2, <2>3 DEF IInv, TypeOK
  <1>2. MintedForMoney'
    BY TopupsAssumption DEF IInv, TypeOK, MintedForMoney, Rows, Restart
  <1>3. TaskInv'
    BY Zenon, TopupsAssumption DEF IInv, TypeOK, TaskInv, Rows, Restart
  <1>4. RowInv'
    BY ZenonT(30), TopupsAssumption DEF IInv, TypeOK, RowInv, Rows, Restart
  <1>5. OpInv'
    BY Zenon, TopupsAssumption DEF IInv, TypeOK, OpInv, Rows, Restart
  <1> QED
    BY Zenon, <1>1, <1>2, <1>3, <1>4, <1>5 DEF IInv

\* The operator acts on a transaction on chain or a lapsed authorization.
LEMMA ReadInv ==
  ASSUME IInv, NEW o \in Operators, NEW n \in Auths, Read(o, n)
  PROVE  IInv'
  <1>1. TypeOK'
    BY TopupsAssumption DEF IInv, TypeOK, Tasks, Rows, Read, At
  <1>2. MintedForMoney'
    BY Zenon, TopupsAssumption DEF IInv, TypeOK, MintedForMoney, Rows, Read, At
  <1>3. TaskInv'
    BY Zenon, TopupsAssumption DEF IInv, TypeOK, TaskInv, Rows, Read, At
  <1>4. RowInv'
    BY Zenon, TopupsAssumption DEF IInv, TypeOK, RowInv, Rows, Read, At
  <1>5. OpInv'
    BY TopupsAssumption DEF IInv, TypeOK, OpInv, Rows, Read, At
  <1> QED
    BY Zenon, <1>1, <1>2, <1>3, <1>4, <1>5 DEF IInv

\* A top-up the operator fails lapsed unused.
LEMMA ResolveFailInv ==
  ASSUME IInv, NEW o \in Operators, ResolveFail(o)
  PROVE  IInv'
  <1> DEFINE n == op[o].n
             r == [row[n] EXCEPT !.state = "failed"]
  <1>1. n \in Auths /\ row[n] \in Rows
    BY Zenon DEF IInv, TypeOK, OpInv, ResolveFail
  <1>2. r \in Rows /\ r.state = "failed" /\ r.tx = row[n].tx /\ r.retryable = row[n].retryable
    BY Zenon, <1>1 DEF Rows
  <1>3. /\ row' \in [Auths -> Rows]
        /\ \A m \in Auths \ {n} : row'[m] = row[m]
        /\ row'[n] = IF In(n, {"unknown"}) THEN r ELSE row[n]
    <2>1. CASE In(n, {"unknown"})
      <3>1. row' = [row EXCEPT ![n] = r]
        BY Zenon, <2>1 DEF ResolveFail
      <3> HIDE DEF r, n
      <3> QED
        BY Zenon, <1>1, <1>2, <2>1, <3>1, RowWritten DEF IInv, TypeOK
    <2>2. CASE ~In(n, {"unknown"})
      BY Zenon, <2>2 DEF ResolveFail, IInv, TypeOK
    <2> QED
      BY Zenon, <2>1, <2>2
  <1>4. op[o].pc = "fail"
    BY Zenon DEF ResolveFail
  <1> HIDE DEF r
  <1>5. TypeOK'
    BY Zenon, TopupsAssumption, <1>1, <1>2, <1>3, <1>4 DEF IInv, TypeOK, MintedForMoney, Tasks, ResolveFail, Done, At
  <1>6. MintedForMoney'
    BY TopupsAssumption, <1>1, <1>2, <1>3, <1>4 DEF IInv, TypeOK, MintedForMoney, TaskInv, ResolveFail, Done, At
  <1>7. TaskInv'
    BY Zenon, TopupsAssumption, <1>1, <1>2, <1>3, <1>4 DEF IInv, TypeOK, TaskInv, RowInv, ResolveFail, Done, At
  <1>8. RowInv'
    BY TopupsAssumption, <1>1, <1>2, <1>3, <1>4 DEF IInv, TypeOK, RowInv, TaskInv, OpInv, ResolveFail, Done, At
  <1>9. OpInv'
    BY Zenon, TopupsAssumption, <1>1, <1>2, <1>3, <1>4 DEF IInv, TypeOK, OpInv, ResolveFail, Done, At
  <1> QED
    BY Zenon, <1>5, <1>6, <1>7, <1>8, <1>9 DEF IInv

\* Clearing a hash leaves the others distinct.
LEMMA ResolveClearInv ==
  ASSUME IInv, NEW o \in Operators, ResolveClear(o)
  PROVE  IInv'
  <1> DEFINE n == op[o].n
             r == [row[n] EXCEPT !.tx = None]
  <1>1. n \in Auths /\ row[n] \in Rows
    BY Zenon DEF IInv, TypeOK, OpInv, ResolveClear
  <1>2. r \in Rows /\ r.tx = None /\ r.state = row[n].state /\ r.retryable = row[n].retryable
    BY Zenon, <1>1 DEF Rows
  <1>3. /\ row' \in [Auths -> Rows]
        /\ \A m \in Auths \ {n} : row'[m] = row[m]
        /\ row'[n] = IF In(n, {"unknown"}) THEN r ELSE row[n]
    <2>1. CASE In(n, {"unknown"})
      <3>1. row' = [row EXCEPT ![n] = r]
        BY Zenon, <2>1 DEF ResolveClear
      <3> HIDE DEF r, n
      <3> QED
        BY Zenon, <1>1, <1>2, <2>1, <3>1, RowWritten DEF IInv, TypeOK
    <2>2. CASE ~In(n, {"unknown"})
      BY Zenon, <2>2 DEF ResolveClear, IInv, TypeOK
    <2> QED
      BY Zenon, <2>1, <2>2
  <1>4. op[o].pc = "clear"
    BY Zenon DEF ResolveClear
  <1> HIDE DEF r
  <1>5. TypeOK'
    BY Zenon, TopupsAssumption, <1>1, <1>2, <1>3, <1>4 DEF IInv, TypeOK, MintedForMoney, Tasks, ResolveClear, Done, At
  <1>6. MintedForMoney'
    BY TopupsAssumption, <1>1, <1>2, <1>3, <1>4 DEF IInv, TypeOK, MintedForMoney, TaskInv, ResolveClear, Done, At
  <1>7. TaskInv'
    BY Zenon, TopupsAssumption, <1>1, <1>2, <1>3, <1>4 DEF IInv, TypeOK, TaskInv, RowInv, ResolveClear, Done, At
  <1>8. RowInv'
    BY TopupsAssumption, <1>1, <1>2, <1>3, <1>4 DEF IInv, TypeOK, RowInv, TaskInv, OpInv, ResolveClear, Done, At
  <1>9. OpInv'
    BY Zenon, TopupsAssumption, <1>1, <1>2, <1>3, <1>4 DEF IInv, TypeOK, OpInv, ResolveClear, Done, At
  <1> QED
    BY Zenon, <1>5, <1>6, <1>7, <1>8, <1>9 DEF IInv

\* The operator credits a row that is still unknown, with a transaction no
\* other row has.
LEMMA ResolveCreditInv ==
  ASSUME IInv, NEW o \in Operators, ResolveCredit(o)
  PROVE  IInv'
  <1> DEFINE n == op[o].n
             tx == op[o].tx
  <1>1. n \in Auths /\ tx \in Auths /\ tx \in onchain
    BY Zenon DEF IInv, TypeOK, OpInv, ResolveCredit
  <1>2. OpInv'
    BY Zenon DEF IInv, TypeOK, OpInv, ResolveCredit, Done, At
  <1>3. CASE Creditable(n, "unknown", tx)
    <2>1. creditTopup(n, tx)
      BY Zenon, <1>3 DEF ResolveCredit
    <2>2. /\ row' \in [Auths -> Rows]
          /\ row'[n].state = "credited" /\ row'[n].retryable = FALSE /\ row'[n].tx = tx
          /\ \A m \in Auths \ {n} : row'[m] = row[m]
      <3> HIDE DEF n, tx
      <3> QED
        BY ZenonT(30), <1>1, <2>1, Credited DEF IInv, TypeOK
    <2>3. lots' = [lots EXCEPT ![n] = @ + 1] /\ In(n, {"unknown"}) /\ HashFree(n, tx)
      BY Zenon, <1>3, <2>1 DEF Creditable, creditTopup
    <2>4. /\ UNCHANGED <<today, failures, task, asked, onchain, lapsed>>
          /\ op' \in [Operators -> [pc : {"idle", "clear", "credit", "fail"},
                                    n : Auths \cup {None}, tx : Auths \cup {None}]]
      BY Zenon DEF ResolveCredit, Done, At, IInv, TypeOK
    <2> HIDE DEF n, tx
    <2>5. TypeOK'
      BY <1>1, <2>2, <2>3, <2>4 DEF IInv, TypeOK, MintedForMoney
    <2>6. MintedForMoney'
      <3>1. \A m, k \in Auths : m # k /\ row'[m].tx = row'[k].tx => row'[m].tx = None
        BY <1>1, <2>2, <2>3 DEF IInv, MintedForMoney, HashFree
      <3>2. \A m \in Auths : (lots'[m] = 1) <=> row'[m].state = "credited"
        BY <1>1, <2>2, <2>3 DEF IInv, TypeOK, MintedForMoney
      <3> QED
        BY Zenon, <1>1, <2>2, <2>4, <3>1, <3>2 DEF IInv, MintedForMoney
    <2>7. TaskInv' /\ RowInv'
      BY ZenonT(30), <1>1, <2>2, <2>3, <2>4 DEF IInv, TypeOK, TaskInv, RowInv
    <2> QED
      BY Zenon, <1>2, <2>5, <2>6, <2>7 DEF IInv
  <1>4. CASE ~Creditable(n, "unknown", tx)
    <2>1. UNCHANGED <<today, failures, row, lots, task, asked, onchain, lapsed>>
      BY Zenon, <1>4 DEF ResolveCredit, Done, At
    <2>2. TypeOK'
      BY Zenon, <2>1 DEF ResolveCredit, Done, At, IInv, TypeOK
    <2>3. MintedForMoney' /\ TaskInv' /\ RowInv'
      BY Zenon, <2>1 DEF IInv, MintedForMoney, TaskInv, RowInv
    <2> QED
      BY Zenon, <1>2, <2>2, <2>3 DEF IInv
  <1> QED
    BY Zenon, <1>3, <1>4

\* A command that stops writes nothing.
LEMMA ResolveStopsInv ==
  ASSUME IInv, NEW o \in Operators, ResolveStops(o)
  PROVE  IInv'
  <1>1. TypeOK'
    BY TopupsAssumption DEF IInv, TypeOK, Tasks, Rows, ResolveStops, Done, At
  <1>2. MintedForMoney'
    BY Zenon, TopupsAssumption DEF IInv, TypeOK, MintedForMoney, Rows, ResolveStops, Done, At
  <1>3. TaskInv'
    BY Zenon, TopupsAssumption DEF IInv, TypeOK, TaskInv, Rows, ResolveStops, Done, At
  <1>4. RowInv'
    BY Zenon, TopupsAssumption DEF IInv, TypeOK, RowInv, Rows, ResolveStops, Done, At
  <1>5. OpInv'
    BY Zenon, TopupsAssumption DEF IInv, TypeOK, OpInv, Rows, ResolveStops, Done, At
  <1> QED
    BY Zenon, <1>1, <1>2, <1>3, <1>4, <1>5 DEF IInv

\* Time only lapses authorizations.
LEMMA ClockInv ==
  ASSUME IInv, Midnight \/ \E n \in Auths : Lapse(n)
  PROVE  IInv'
  <1>1. TypeOK'
    BY TopupsAssumption DEF IInv, TypeOK, Tasks, Rows, Midnight, Lapse
  <1>2. MintedForMoney'
    BY Zenon, TopupsAssumption DEF IInv, TypeOK, MintedForMoney, Rows, Midnight, Lapse
  <1>3. TaskInv'
    BY Zenon, TopupsAssumption DEF IInv, TypeOK, TaskInv, Rows, Midnight, Lapse
  <1>4. RowInv'
    BY Zenon, TopupsAssumption DEF IInv, TypeOK, RowInv, Rows, Midnight, Lapse
  <1>5. OpInv'
    BY Zenon, TopupsAssumption DEF IInv, TypeOK, OpInv, Rows, Midnight, Lapse
  <1> QED
    BY Zenon, <1>1, <1>2, <1>3, <1>4, <1>5 DEF IInv

\* Every step preserves the invariant.
LEMMA NextInv == IInv /\ [Next]_vars => IInv'
  <1> SUFFICES ASSUME IInv, [Next]_vars
               PROVE  IInv'
    BY Zenon
  <1>1. ASSUME NEW n \in Auths, NEW a \in Accounts, Present(a, n) PROVE IInv'
    BY Zenon, <1>1, PresentInv
  <1>2. ASSUME NEW n \in Auths, Settle(n) PROVE IInv'
    BY Zenon, <1>2, VerifyInv, AskInv, AnswerInv, RecordInv, CreditInv, CreditFailsInv,
       UncreditedInv, LostInv DEF Settle
  <1>3. ASSUME NEW n \in Auths, FacilitatorSettles(n) \/ FacilitatorRefuses(n) PROVE IInv'
    BY Zenon, <1>3, FacilitatorInv
  <1>4. ASSUME NEW o \in Operators, Resolve(o) PROVE IInv'
    BY Zenon, <1>4, ReadInv, ResolveFailInv, ResolveClearInv, ResolveCreditInv, ResolveStopsInv
       DEF Resolve
  <1>5. CASE Restart
    BY Zenon, <1>5, RestartInv
  <1>6. CASE Midnight \/ \E n \in Auths : Lapse(n)
    BY Zenon, <1>6, ClockInv
  <1>7. CASE UNCHANGED vars
    BY Zenon, <1>7 DEF vars, IInv, TypeOK, MintedForMoney, TaskInv, RowInv, OpInv
  <1> QED
    BY Zenon, <1>1, <1>2, <1>3, <1>4, <1>5, <1>6, <1>7 DEF Next

\* The invariant holds throughout.
LEMMA Invariant == Spec => []IInv
  BY InitInv, NextInv, PTL DEF Spec

\* The tables of top-ups keep their columns, and no row mints a second lot.
THEOREM TypeCorrect == Spec => []TypeOK
  <1>1. IInv => TypeOK
    BY Zenon DEF IInv
  <1> QED
    BY <1>1, Invariant, PTL

\* Credit is minted for money received, once, whatever the server and the
\* operators' commands do between each other's statements.
THEOREM CreditIsPaidFor == Spec => []MintedForMoney
  <1>1. IInv => MintedForMoney
    BY Zenon DEF IInv
  <1> QED
    BY <1>1, Invariant, PTL

\* A top-up whose money moved is never failed.
THEOREM MoneyIsKept == Spec => []NeverWrittenOff
  <1>1. IInv => NeverWrittenOff
    BY Zenon DEF IInv, TypeOK, Rows, RowInv, NeverWrittenOff
  <1> QED
    BY <1>1, Invariant, PTL

-----------------------------------------------------------------------------
(* The caps of a day.  A row keeps its account and its day until it is     *)
(* presented again, and no outcome makes a row count that did not; so only *)
(* credits.topup adds to a day, and it looks at the sums first.            *)

Taken == {n \in Auths : row[n].state # "none"}
Counts == {"settling", "credited", "unknown"}

\* The caps, also of an account that has no row of that day.
Capped ==
    \A d \in 0..LastDay : /\ Sum(Counted(d)) <= BoardDaily
                          /\ \A a : Sum(CountedOf(a, d)) <= AccountDaily

\* There are only so many rows.
DailyInv == IsFiniteSet(Taken) /\ Capped

\* A step that presents nothing.
NoneAdded ==
    \A n \in Auths :
        /\ row'[n].day = row[n].day /\ row'[n].account = row[n].account
        /\ In(n, Counts)' => In(n, Counts)
        /\ row'[n].state = "none" <=> row[n].state = "none"

\* A sum over some of the rows.
LEMMA SumFewer ==
  ASSUME IsFiniteSet(Taken), NEW S \in SUBSET Taken, NEW U \in SUBSET S
  PROVE  /\ IsFiniteSet(S) /\ Sum(S) \in Nat /\ Sum(U) \in Nat /\ Sum(U) <= Sum(S)
  <1>1. IsFiniteSet(S)
    BY Zenon, FS_Subset
  <1>2. \A n \in S : Amount[n] \in Nat
    BY Zenon, TopupsAssumption DEF Taken
  <1> QED
    BY Zenon, <1>1, <1>2, SumSubset DEF Sum

LEMMA CountedTaken ==
  ASSUME NEW d
  PROVE  /\ Counted(d) \in SUBSET Taken
         /\ \A a : CountedOf(a, d) \in SUBSET Counted(d)
  BY Zenon DEF Counted, CountedOf, Taken

LEMMA NoneAddedDaily ==
  ASSUME IInv, DailyInv, NoneAdded
  PROVE  DailyInv'
  <1>1. Taken' = Taken
    BY Zenon DEF NoneAdded, Taken
  <1>2. ASSUME NEW d \in 0..LastDay PROVE Sum(Counted(d))' <= BoardDaily
    <2>1. PICK S, U : S = Counted(d) /\ U = Counted(d)'
      BY Zenon
    <2>2. U \in SUBSET S /\ S \in SUBSET Taken
      BY Zenon, <2>1, CountedTaken DEF NoneAdded, Counted, Counts
    <2>3. Sum(S) \in Nat /\ Sum(U) \in Nat /\ Sum(U) <= Sum(S) /\ Sum(S) <= BoardDaily
      BY Zenon, <2>1, <2>2, SumFewer DEF DailyInv, Capped
    <2>4. Sum(Counted(d))' = Sum(U)
      BY Zenon, <2>1 DEF Sum
    <2> QED
      BY <2>3, <2>4, TopupsAssumption
  <1>3. ASSUME NEW d \in 0..LastDay, NEW a
        PROVE  Sum(CountedOf(a, d))' <= AccountDaily
    <2>1. PICK S, U : S = CountedOf(a, d) /\ U = CountedOf(a, d)'
      BY Zenon
    <2>2. U \in SUBSET S /\ S \in SUBSET Taken
      BY Zenon, <2>1, CountedTaken DEF NoneAdded, CountedOf, Counted, Counts
    <2>3. Sum(S) \in Nat /\ Sum(U) \in Nat /\ Sum(U) <= Sum(S) /\ Sum(S) <= AccountDaily
      BY Zenon, <2>1, <2>2, SumFewer DEF DailyInv, Capped
    <2>4. Sum(CountedOf(a, d))' = Sum(U)
      BY Zenon, <2>1 DEF Sum
    <2> QED
      BY <2>3, <2>4, TopupsAssumption
  <1> QED
    BY Zenon, <1>1, <1>2, <1>3 DEF DailyInv, Capped

\* A sum with one row more.
LEMMA SumOneMore ==
  ASSUME IsFiniteSet(Taken), NEW S \in SUBSET Taken, NEW n \in Auths, n \notin S
  PROVE  Sum(S \cup {n}) = Sum(S) + Amount[n]
  <1>1. IsFiniteSet(S)
    BY Zenon, FS_Subset
  <1>2. \A m \in S \cup {n} : Amount[m] \in Int
    BY TopupsAssumption DEF Taken
  <1> QED
    BY Zenon, <1>1, <1>2, SumAdd DEF Sum

\* credits.topup adds its amount to sums it has looked at.
LEMMA PresentDaily ==
  ASSUME IInv, DailyInv, NEW a \in Accounts, NEW n \in Auths, Present(a, n)
  PROVE  DailyInv'
  <1>1. /\ row[n].state \in {"none", "failed"}
        /\ Sum(CountedOf(a, today)) + Amount[n] <= AccountDaily
        /\ Sum(Counted(today)) + Amount[n] <= BoardDaily
        /\ row' = [row EXCEPT ![n] = Settling(a, today)]
    BY Zenon DEF Present, Fresh
  <1>2. /\ row'[n].state = "settling" /\ row'[n].account = a /\ row'[n].day = today
        /\ \A m \in Auths \ {n} : row'[m] = row[m]
    BY Zenon, <1>1 DEF IInv, TypeOK, Settling
  <1>3. IsFiniteSet(Taken)'
    <2>1. Taken' = Taken \cup {n}
      BY Zenon, <1>2 DEF Taken
    <2> QED
      BY Zenon, <2>1, FS_AddElement DEF DailyInv
  <1>4. ASSUME NEW d \in 0..LastDay PROVE Sum(Counted(d))' <= BoardDaily
    <2>1. PICK S : S = Counted(d)
      BY Zenon
    <2>2. n \notin S /\ S \in SUBSET Taken
      BY Zenon, <1>1, <2>1, CountedTaken DEF Counted
    <2>3. Counted(d)' = IF d = today THEN S \cup {n} ELSE S
      BY ZenonT(30), <1>1, <1>2, <2>1 DEF Counted
    <2>4. Sum(Counted(d))' = IF d = today THEN Sum(S \cup {n}) ELSE Sum(S)
      BY Zenon, <2>3 DEF Sum
    <2>5. Sum(S \cup {n}) = Sum(S) + Amount[n] /\ Sum(S) <= BoardDaily
      BY Zenon, <2>1, <2>2, SumOneMore DEF DailyInv, Capped
    <2> QED
      BY Zenon, <1>1, <2>1, <2>4, <2>5
  <1>5. ASSUME NEW d \in 0..LastDay, NEW b
        PROVE  Sum(CountedOf(b, d))' <= AccountDaily
    <2>1. PICK S : S = CountedOf(b, d)
      BY Zenon
    <2>2. n \notin S /\ S \in SUBSET Taken
      BY Zenon, <1>1, <2>1, CountedTaken DEF Counted, CountedOf
    <2>3. CountedOf(b, d)' = IF d = today /\ b = a THEN S \cup {n} ELSE S
      BY <1>1, <1>2, <2>1 DEF Counted, CountedOf
    <2>4. Sum(CountedOf(b, d))' = IF d = today /\ b = a THEN Sum(S \cup {n}) ELSE Sum(S)
      BY Zenon, <2>3 DEF Sum
    <2>5. Sum(S \cup {n}) = Sum(S) + Amount[n] /\ Sum(S) <= AccountDaily
      BY Zenon, <2>1, <2>2, SumOneMore DEF DailyInv, Capped
    <2> QED
      BY Zenon, <1>1, <2>1, <2>4, <2>5
  <1> QED
    BY Zenon, <1>3, <1>4, <1>5 DEF DailyInv, Capped

\* A row that is written with the same account and day.
LEMMA WrittenOver ==
  ASSUME row \in [Auths -> Rows], NEW n \in Auths, NEW r, row' = [row EXCEPT ![n] = r],
         r.day = row[n].day, r.account = row[n].account, r.state # "none",
         In(n, {"settling", "unknown"})
  PROVE  NoneAdded
  BY Zenon DEF NoneAdded, Counts

LEMMA RecordAdds ==
  ASSUME IInv, NEW n \in Auths, Record(n)
  PROVE  NoneAdded
  <1> DEFINE r == [row[n] EXCEPT
                     !.state = IF task[n] = "unknown" THEN "unknown" ELSE "failed",
                     !.retryable = task[n] = "retryable"]
  <1>1. row[n] \in Rows /\ row \in [Auths -> Rows] /\ In(n, {"settling"})
    BY Zenon DEF IInv, TypeOK, TaskInv, Record
  <1>2. r.day = row[n].day /\ r.account = row[n].account /\ r.state # "none"
    BY Zenon, <1>1 DEF Rows
  <1>3. row' = [row EXCEPT ![n] = r]
    BY Zenon, <1>1 DEF Record
  <1> HIDE DEF r
  <1> QED
    BY Zenon, <1>1, <1>2, <1>3, WrittenOver

LEMMA CreditAdds ==
  ASSUME IInv, NEW n \in Auths, NEW tx, In(n, {"settling", "unknown"}), creditTopup(n, tx)
  PROVE  NoneAdded
  <1> DEFINE r == [row[n] EXCEPT !.state = "credited", !.retryable = FALSE, !.tx = tx]
  <1>1. row[n] \in Rows /\ row \in [Auths -> Rows]
    BY Zenon DEF IInv, TypeOK
  <1>2. r.day = row[n].day /\ r.account = row[n].account /\ r.state # "none"
    BY Zenon, <1>1 DEF Rows
  <1>3. row' = [row EXCEPT ![n] = r]
    BY Zenon DEF creditTopup
  <1> HIDE DEF r
  <1> QED
    BY Zenon, <1>1, <1>2, <1>3, WrittenOver

LEMMA UncreditedAdds ==
  ASSUME IInv, NEW n \in Auths, RecordUncredited(n)
  PROVE  NoneAdded
  <1>1. PICK tx : tx = IF \E m \in Auths : row[m].tx = n THEN row[n].tx ELSE n
    BY Zenon
  <1> DEFINE r == [row[n] EXCEPT !.state = "unknown", !.tx = tx]
  <1>2. row[n] \in Rows /\ row \in [Auths -> Rows] /\ In(n, {"settling"})
    BY Zenon DEF IInv, TypeOK, TaskInv, RecordUncredited
  <1>3. r.day = row[n].day /\ r.account = row[n].account /\ r.state # "none"
    BY Zenon, <1>2 DEF Rows
  <1>4. row' = [row EXCEPT ![n] = r]
    BY Zenon, <1>1, <1>2 DEF RecordUncredited
  <1> HIDE DEF r
  <1> QED
    BY Zenon, <1>2, <1>3, <1>4, WrittenOver

LEMMA SameRows ==
  ASSUME UNCHANGED row
  PROVE  NoneAdded
  BY Zenon DEF NoneAdded

LEMMA RestartAdds ==
  ASSUME IInv, Restart
  PROVE  NoneAdded
  <1>1. ASSUME NEW n \in Auths
        PROVE  /\ row'[n].day = row[n].day /\ row'[n].account = row[n].account
               /\ row'[n].state = IF In(n, {"settling"}) THEN "unknown" ELSE row[n].state
    <2>1. row'[n] = IF In(n, {"settling"}) THEN [row[n] EXCEPT !.state = "unknown"] ELSE row[n]
      BY Zenon DEF Restart
    <2>2. row[n] \in Rows
      BY Zenon DEF IInv, TypeOK
    <2> QED
      BY Zenon, <2>1, <2>2 DEF Rows
  <1> QED
    BY Zenon, <1>1 DEF NoneAdded, Counts

LEMMA ResolveAdds ==
  ASSUME IInv, NEW o \in Operators, Resolve(o)
  PROVE  NoneAdded
  <1>1. PICK n, tx : n = op[o].n /\ tx = op[o].tx
    BY Zenon
  <1>2. row \in [Auths -> Rows]
    BY Zenon DEF IInv, TypeOK
  <1>3. CASE ResolveFail(o)
    <2>1. n \in Auths
      BY Zenon, <1>1, <1>3 DEF IInv, OpInv, ResolveFail
    <2>2. CASE In(n, {"unknown"})
      <3> DEFINE r == [row[n] EXCEPT !.state = "failed"]
      <3>1. row' = [row EXCEPT ![n] = r]
        BY Zenon, <1>1, <1>3, <2>2 DEF ResolveFail
      <3>2. r.day = row[n].day /\ r.account = row[n].account /\ r.state # "none"
        BY Zenon, <1>2, <2>1 DEF Rows
      <3> HIDE DEF r
      <3> QED
        BY Zenon, <1>2, <2>1, <2>2, <3>1, <3>2, WrittenOver
    <2>3. CASE ~In(n, {"unknown"})
      BY Zenon, <1>1, <1>3, <2>3, SameRows DEF ResolveFail
    <2> QED
      BY Zenon, <2>2, <2>3
  <1>4. CASE ResolveClear(o)
    <2>1. n \in Auths
      BY Zenon, <1>1, <1>4 DEF IInv, OpInv, ResolveClear
    <2>2. CASE In(n, {"unknown"})
      <3> DEFINE r == [row[n] EXCEPT !.tx = None]
      <3>1. row' = [row EXCEPT ![n] = r]
        BY Zenon, <1>1, <1>4, <2>2 DEF ResolveClear
      <3>2. r.day = row[n].day /\ r.account = row[n].account /\ r.state = "unknown"
        BY ZenonT(30), <1>2, <2>1, <2>2 DEF Rows
      <3> HIDE DEF r
      <3> QED
        BY Zenon, <1>2, <2>1, <2>2, <3>1, <3>2, WrittenOver
    <2>3. CASE ~In(n, {"unknown"})
      BY Zenon, <1>1, <1>4, <2>3, SameRows DEF ResolveClear
    <2> QED
      BY Zenon, <2>2, <2>3
  <1>5. CASE ResolveCredit(o)
    <2>1. n \in Auths
      BY Zenon, <1>1, <1>5 DEF IInv, OpInv, ResolveCredit
    <2>2. CASE Creditable(n, "unknown", tx)
      BY <1>1, <1>5, <2>1, <2>2, CreditAdds DEF ResolveCredit, Creditable
    <2>3. CASE ~Creditable(n, "unknown", tx)
      BY Zenon, <1>1, <1>5, <2>3, SameRows DEF ResolveCredit
    <2> QED
      BY Zenon, <2>2, <2>3
  <1>6. CASE ResolveStops(o) \/ \E m \in Auths : Read(o, m)
    BY Zenon, <1>6, SameRows DEF ResolveStops, Read
  <1> QED
    BY Zenon, <1>3, <1>4, <1>5, <1>6 DEF Resolve

\* The caps of a day hold for the board and for every account, however often
\* top-ups are presented again and whenever their outcomes become known.
THEOREM CapsHold == Spec => []WithinDaily
  <1>1. Init => DailyInv
    <2> SUFFICES ASSUME Init PROVE DailyInv
      BY Zenon
    <2>1. Taken = {}
      BY Zenon DEF Init, Taken, NoRow
    <2>2. IsFiniteSet(Taken) /\ Sum({}) = 0
      BY Zenon, <2>1, FS_EmptySet, SumStep DEF Sum
    <2>3. \A d : Counted(d) = {} /\ \A a : CountedOf(a, d) = {}
      BY Zenon, <2>1, CountedTaken
    <2> QED
      BY <2>2, <2>3, TopupsAssumption DEF DailyInv, Capped
  <1>2. IInv /\ DailyInv /\ [Next]_vars => DailyInv'
    <2> SUFFICES ASSUME IInv, DailyInv, [Next]_vars PROVE DailyInv'
      BY Zenon
    <2>1. ASSUME NEW a \in Accounts, NEW n \in Auths, Present(a, n) PROVE DailyInv'
      BY Zenon, <2>1, PresentDaily
    <2>2. ASSUME NEW n \in Auths, Settle(n) PROVE NoneAdded
      <3>1. CASE Record(n) \/ RecordUncredited(n)
        BY Zenon, <3>1, RecordAdds, UncreditedAdds
      <3>2. CASE Credit(n)
        BY <3>2, CreditAdds DEF Credit, Creditable
      <3>3. CASE Verify(n) \/ AskSettle(n) \/ Answer(n) \/ CreditFails(n) \/ RecordLost(n)
        BY Zenon, <3>3, SameRows DEF Verify, AskSettle, Answer, Goes, CreditFails, RecordLost
      <3> QED
        BY Zenon, <2>2, <3>1, <3>2, <3>3 DEF Settle
    <2>3. ASSUME NEW n \in Auths, FacilitatorSettles(n) \/ FacilitatorRefuses(n) \/ Lapse(n)
          PROVE  NoneAdded
      BY Zenon, <2>3, SameRows DEF FacilitatorSettles, FacilitatorRefuses, Lapse
    <2>4. Midnight \/ UNCHANGED vars => NoneAdded
      BY Zenon, SameRows DEF Midnight, vars
    <2> QED
      BY Zenon, <2>1, <2>2, <2>3, <2>4, ResolveAdds, RestartAdds, NoneAddedDaily DEF Next
  <1>3. DailyInv => WithinDaily
    BY Zenon DEF DailyInv, Capped, WithinDaily
  <1> QED
    BY <1>1, <1>2, <1>3, Invariant, PTL DEF Spec
=============================================================================
