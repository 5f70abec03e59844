------------------------- MODULE BillingLedgerProofs -------------------------
(***************************************************************************)
(* Theorems about BillingLedger for every set of installments, payments,   *)
(* refunds and credits, every schedule of amounts and every bound.         *)
(*                                                                         *)
(* The invariant is proved a row at a time: the lemmas below say what each *)
(* way of writing an installment row keeps, and each action is a choice of *)
(* rows and of ways.                                                       *)
(*                                                                         *)
(* What is said of money is a sum over a table.  Each table is turned into *)
(* a function from its rows to what a payment has there, so that a write   *)
(* of one row changes one summand, and each handler comes down to an       *)
(* equation between a few numbers.                                         *)
(***************************************************************************)
EXTENDS BillingLedger, FiniteSetTheorems, TLAPS

(***************************************************************************)
(* SumFunctionOnSet, the sum of a function over a finite set.              *)
(*                                                                         *)
(* The sum is a fold: a function on the subsets of the set, defined by     *)
(* recursion.  Each fact that needs induction is proved by looking at a    *)
(* smallest subset that would refute it.                                   *)
(***************************************************************************)
Pick(s) == CHOOSE x \in s : TRUE

Adds(it, f, S) ==
  it = [s \in SUBSET S |-> IF s = {} THEN 0 ELSE f[Pick(s)] + it[s \ {Pick(s)}]]

\* The community module's definition, unfolded.
LEMMA SumIsFold ==
  ASSUME NEW f, NEW S
  PROVE  SumFunctionOnSet(f, S) = (CHOOSE it : Adds(it, f, S))[S]
BY DEF SumFunctionOnSet, FoldFunctionOnSet, MapThenFoldSet, Adds, Pick

\* A set that is not empty has the element that is picked from it.
LEMMA PickIn == \A s : s # {} => Pick(s) \in s
BY DEF Pick

\* Among subsets of a finite set there is one that contains no other.
LEMMA SmallestSubset ==
  ASSUME NEW S, IsFiniteSet(S), NEW Bad \in SUBSET (SUBSET S), Bad # {}
  PROVE  \E T \in Bad : \A U \in SUBSET T : U # T => U \notin Bad
<1>1. IsWellFoundedOn(StrictSubsetOrdering(S), SUBSET S)
  BY FS_StrictSubsetOrderingWellFounded, FS_FiniteSubsetsOfFinite
<1>2. PICK T \in Bad : \A U \in Bad : ~(<<U, T>> \in StrictSubsetOrdering(S))
  BY <1>1, WFMin
<1>3. ASSUME NEW U \in SUBSET T, U # T PROVE U \notin Bad
  BY <1>2, <1>3 DEF StrictSubsetOrdering
<1> QED BY <1>3

\* Two such functions agree where the functions they add do.
LEMMA AddsAgree ==
  ASSUME NEW S, IsFiniteSet(S), NEW R, NEW T, S \subseteq R, S \subseteq T,
         NEW f, NEW g, \A x \in S : f[x] = g[x],
         NEW it, Adds(it, f, R), NEW jt, Adds(jt, g, T)
  PROVE  it[S] = jt[S]
<1> DEFINE Bad == {s \in SUBSET S : it[s] # jt[s]}
<1> SUFFICES ASSUME Bad # {} PROVE FALSE
  OBVIOUS
<1>1. PICK s \in Bad : \A u \in SUBSET s : u # s => u \notin Bad
  <2>1. Bad \in SUBSET (SUBSET S) OBVIOUS
  <2> HIDE DEF Bad
  <2> QED BY <2>1, SmallestSubset
<1>2. /\ it[s] = IF s = {} THEN 0 ELSE f[Pick(s)] + it[s \ {Pick(s)}]
      /\ jt[s] = IF s = {} THEN 0 ELSE g[Pick(s)] + jt[s \ {Pick(s)}]
  <2>1. s \in SUBSET R /\ s \in SUBSET T BY <1>1
  <2>2. \A u \in SUBSET R : it[u] = IF u = {} THEN 0 ELSE f[Pick(u)] + it[u \ {Pick(u)}]
    BY DEF Adds
  <2>3. \A u \in SUBSET T : jt[u] = IF u = {} THEN 0 ELSE g[Pick(u)] + jt[u \ {Pick(u)}]
    BY DEF Adds
  <2> QED BY <2>1, <2>2, <2>3
<1>3. s # {} BY <1>1, <1>2
<1>4. Pick(s) \in s /\ Pick(s) \in S BY <1>1, <1>3, PickIn
<1>5. it[s \ {Pick(s)}] = jt[s \ {Pick(s)}]
  <2>1. s \ {Pick(s)} \in SUBSET s /\ s \ {Pick(s)} # s /\ s \ {Pick(s)} \in SUBSET S
    BY <1>1, <1>4
  <2>2. s \ {Pick(s)} \notin Bad BY <1>1, <2>1
  <2> QED BY <2>1, <2>2
<1>6. f[Pick(s)] = g[Pick(s)] BY <1>4
<1> QED BY <1>1, <1>2, <1>3, <1>5, <1>6

\* There is such a function on every finite set.
LEMMA AddsExists ==
  ASSUME NEW S, IsFiniteSet(S), NEW f
  PROVE  \E it : Adds(it, f, S)
<1> DEFINE Bad == {s \in SUBSET S : ~ \E it : Adds(it, f, s)}
           At(s) == CHOOSE it : Adds(it, f, s)
<1> SUFFICES ASSUME Bad # {} PROVE FALSE
  OBVIOUS
<1>1. PICK s \in Bad : \A u \in SUBSET s : u # s => u \notin Bad
  <2>1. Bad \in SUBSET (SUBSET S) OBVIOUS
  <2> HIDE DEF Bad
  <2> QED BY <2>1, SmallestSubset
<1> DEFINE it == [u \in SUBSET s |->
                    IF u = {} THEN 0 ELSE f[Pick(u)] + At(u \ {Pick(u)})[u \ {Pick(u)}]]
<1>2. \A u \in SUBSET s : u # s => Adds(At(u), f, u)
  <2> SUFFICES ASSUME NEW u \in SUBSET s, u # s PROVE Adds(At(u), f, u)
    OBVIOUS
  <2>1. u \notin Bad /\ u \in SUBSET S BY <1>1
  <2>2. \E jt : Adds(jt, f, u) BY <2>1
  <2> QED BY <2>2
<1>3. ASSUME NEW u \in SUBSET s, u # s
      PROVE  At(u)[u] = it[u]
  <2>1. At(u)[u] = IF u = {} THEN 0 ELSE f[Pick(u)] + At(u)[u \ {Pick(u)}]
    <3>1. Adds(At(u), f, u) BY <1>2, <1>3
    <3> HIDE DEF At
    <3> QED BY <3>1 DEF Adds
  <2>2. CASE u = {} BY <2>1, <2>2
  <2>3. CASE u # {}
    <3> DEFINE v == u \ {Pick(u)}
    <3>1. Pick(u) \in u BY <2>3, PickIn
    <3>2. v \in SUBSET s /\ v # s /\ v \subseteq u /\ v \in SUBSET S BY <3>1, <1>1
    <3>3. Adds(At(u), f, u) /\ Adds(At(v), f, v) BY <1>2, <1>3, <3>2
    <3>4. IsFiniteSet(v) BY <3>2, FS_Subset
    <3> HIDE DEF At, v
    <3>5. At(u)[v] = At(v)[v] BY <3>2, <3>3, <3>4, AddsAgree
    <3>6. it[u] = f[Pick(u)] + At(v)[v] BY <2>3 DEF v
    <3> QED BY <2>1, <2>3, <3>5, <3>6 DEF v
  <2> QED BY <2>2, <2>3
<1>4. ASSUME NEW u \in SUBSET s
      PROVE  it[u] = IF u = {} THEN 0 ELSE f[Pick(u)] + it[u \ {Pick(u)}]
  <2>1. CASE u = {} BY <2>1
  <2>2. CASE u # {}
    <3> DEFINE v == u \ {Pick(u)}
    <3>1. Pick(u) \in u BY <2>2, PickIn
    <3>2. v \in SUBSET s /\ v # s BY <3>1
    <3>3. At(v)[v] = it[v] BY <1>3, <3>2
    <3>4. it[u] = f[Pick(u)] + At(v)[v] BY <2>2
    <3> QED BY <2>2, <3>3, <3>4
  <2> QED BY <2>1, <2>2
<1>5. Adds(it, f, s)
  <2>1. it = [u \in SUBSET s |-> it[u]] OBVIOUS
  <2> HIDE DEF it
  <2> QED BY <2>1, <1>4 DEF Adds
<1> QED BY <1>1, <1>5

---------------------------------------------------------------------------
(* The sum, one element at a time.                                         *)

\* Nothing adds up to zero.
LEMMA SumEmpty == \A f : SumFunctionOnSet(f, {}) = 0
<1> SUFFICES ASSUME NEW f PROVE SumFunctionOnSet(f, {}) = 0
  OBVIOUS
<1>1. \E it : Adds(it, f, {}) BY FS_EmptySet, AddsExists
<1>2. Adds(CHOOSE it : Adds(it, f, {}), f, {}) BY <1>1
<1>3. (CHOOSE it : Adds(it, f, {}))[{}] = 0 BY <1>2 DEF Adds
<1> QED BY <1>3, SumIsFold

\* The sum depends on the values that are added and on nothing else.
LEMMA SumAgree ==
  ASSUME NEW S, IsFiniteSet(S), NEW f, NEW g, \A x \in S : f[x] = g[x]
  PROVE  SumFunctionOnSet(f, S) = SumFunctionOnSet(g, S)
<1> DEFINE it == CHOOSE it : Adds(it, f, S)
           jt == CHOOSE jt : Adds(jt, g, S)
<1>1. Adds(it, f, S) /\ Adds(jt, g, S) BY AddsExists
<1>2. SumFunctionOnSet(f, S) = it[S] /\ SumFunctionOnSet(g, S) = jt[S] BY SumIsFold
<1> HIDE DEF it, jt
<1> QED BY <1>1, <1>2, AddsAgree

\* The element the fold picks.
LEMMA SumPick ==
  ASSUME NEW S, IsFiniteSet(S), S # {}, NEW f
  PROVE  SumFunctionOnSet(f, S) = f[Pick(S)] + SumFunctionOnSet(f, S \ {Pick(S)})
<1> DEFINE T == S \ {Pick(S)}
           it == CHOOSE it : Adds(it, f, S)
           jt == CHOOSE jt : Adds(jt, f, T)
<1>1. IsFiniteSet(T) BY FS_RemoveElement
<1>2. Adds(it, f, S) /\ Adds(jt, f, T) BY <1>1, AddsExists
<1>3. SumFunctionOnSet(f, S) = it[S] /\ SumFunctionOnSet(f, T) = jt[T] BY SumIsFold
<1> HIDE DEF it, jt
<1>4. it[T] = jt[T] BY <1>1, <1>2, AddsAgree
<1>5. it[S] = f[Pick(S)] + it[T] BY <1>2 DEF Adds
<1> QED BY <1>3, <1>4, <1>5

\* Any element may be taken out of the sum first.
LEMMA SumTake ==
  ASSUME NEW S, IsFiniteSet(S), NEW f, \A y \in S : f[y] \in Int, NEW x \in S
  PROVE  /\ SumFunctionOnSet(f, S) \in Int
         /\ SumFunctionOnSet(f, S) = f[x] + SumFunctionOnSet(f, S \ {x})
<1> DEFINE Over(s) == SumFunctionOnSet(f, s)
           Good(s) == /\ Over(s) \in Int
                      /\ \A y \in s : Over(s) = f[y] + Over(s \ {y})
           Bad == {s \in SUBSET S : ~Good(s)}
<1> SUFFICES ASSUME Bad # {} PROVE FALSE
  <2>1. Bad = {} => Good(S) OBVIOUS
  <2> QED BY <2>1
<1>1. PICK s \in Bad : \A u \in SUBSET s : u # s => u \notin Bad
  <2>1. Bad \in SUBSET (SUBSET S) OBVIOUS
  <2> HIDE DEF Bad
  <2> QED BY <2>1, SmallestSubset
<1>2. s \in SUBSET S /\ IsFiniteSet(s) BY <1>1, FS_Subset
<1>3. ASSUME NEW u \in SUBSET s, u # s PROVE Good(u)
  BY <1>1, <1>2, <1>3
<1> HIDE DEF Bad
<1>4. Over({}) = 0 BY SumEmpty
<1>5. CASE s = {}
  <2>1. Good(s) BY <1>4, <1>5
  <2> QED BY <1>1, <2>1 DEF Bad
<1>6. CASE s # {}
  <2> DEFINE p == Pick(s)
             t == s \ {p}
  <2>1. p \in s /\ p \in S /\ f[p] \in Int BY <1>2, <1>6, PickIn
  <2>2. Over(s) = f[p] + Over(t) BY <1>2, <1>6, SumPick
  <2>3. Good(t) BY <1>3, <2>1
  <2> HIDE DEF p
  <2>4. ASSUME NEW y \in s, y # p PROVE Over(s) = f[y] + Over(s \ {y})
    <3>1. /\ t \ {y} = (s \ {y}) \ {p}
          /\ p \in s \ {y} /\ s \ {y} # s /\ s \ {y} \in SUBSET s
          /\ t \ {y} # s /\ t \ {y} \in SUBSET s /\ y \in t
      BY <2>1, <2>4
    <3>2. Good(s \ {y}) /\ Good(t \ {y}) BY <1>3, <3>1
    <3>3. Over(s \ {y}) = f[p] + Over(t \ {y}) BY <3>1, <3>2
    <3>4. Over(t) = f[y] + Over(t \ {y}) BY <2>3, <3>1
    <3>5. f[y] \in Int /\ Over(t \ {y}) \in Int BY <1>2, <3>2
    <3> HIDE DEF Over, t
    <3> QED BY <2>1, <2>2, <3>3, <3>4, <3>5
  <2>5. Good(s) BY <2>1, <2>2, <2>3, <2>4
  <2> QED BY <1>1, <2>5 DEF Bad
<1> QED BY <1>5, <1>6

\* A sum of integers is an integer.
LEMMA SumInt ==
  ASSUME NEW S, IsFiniteSet(S), NEW f, \A x \in S : f[x] \in Int
  PROVE  SumFunctionOnSet(f, S) \in Int
<1>1. CASE S = {} BY <1>1, SumEmpty
<1>2. CASE S # {} BY <1>2, SumTake
<1> QED BY <1>1, <1>2

\* An element that was not there adds its value.
LEMMA SumPut ==
  ASSUME NEW S, IsFiniteSet(S), NEW x, x \notin S, NEW f, \A y \in S \union {x} : f[y] \in Int
  PROVE  SumFunctionOnSet(f, S \union {x}) = f[x] + SumFunctionOnSet(f, S)
<1>1. IsFiniteSet(S \union {x}) BY FS_AddElement
<1>2. (S \union {x}) \ {x} = S /\ x \in S \union {x} OBVIOUS
<1> QED BY <1>1, <1>2, SumTake

---------------------------------------------------------------------------
(* Sums compared.                                                          *)

\* Adding two functions adds their sums.
LEMMA SumPlus ==
  ASSUME NEW S, IsFiniteSet(S), NEW f, NEW g, NEW h,
         \A x \in S : f[x] \in Int /\ g[x] \in Int /\ h[x] = f[x] + g[x]
  PROVE  SumFunctionOnSet(h, S) = SumFunctionOnSet(f, S) + SumFunctionOnSet(g, S)
<1> DEFINE F(s) == SumFunctionOnSet(f, s)
           G(s) == SumFunctionOnSet(g, s)
           H(s) == SumFunctionOnSet(h, s)
           Bad == {s \in SUBSET S : H(s) # F(s) + G(s)}
<1> SUFFICES ASSUME Bad # {} PROVE FALSE
  OBVIOUS
<1>1. PICK s \in Bad : \A u \in SUBSET s : u # s => u \notin Bad
  <2>1. Bad \in SUBSET (SUBSET S) OBVIOUS
  <2> HIDE DEF Bad
  <2> QED BY <2>1, SmallestSubset
<1>2. s \in SUBSET S /\ IsFiniteSet(s) /\ H(s) # F(s) + G(s) BY <1>1, FS_Subset
<1>3. s # {}
  <2>1. s = {} => H(s) = 0 /\ F(s) = 0 /\ G(s) = 0 BY SumEmpty
  <2> HIDE DEF F, G, H
  <2> QED BY <1>2, <2>1
<1>4. PICK x \in s : TRUE BY <1>3
<1> DEFINE t == s \ {x}
<1>5. H(t) = F(t) + G(t)
  <2>1. t \in SUBSET s /\ t # s /\ t \in SUBSET S BY <1>2, <1>4
  <2>2. t \notin Bad BY <1>1, <2>1
  <2> QED BY <2>1, <2>2
<1>6. \A y \in s : f[y] \in Int /\ g[y] \in Int /\ h[y] \in Int BY <1>2
<1>7. H(s) = h[x] + H(t) /\ F(s) = f[x] + F(t) /\ G(s) = g[x] + G(t)
  BY <1>2, <1>6, SumTake
<1>8. F(t) \in Int /\ G(t) \in Int
  <2>1. IsFiniteSet(t) BY <1>2, FS_RemoveElement
  <2> QED BY <1>6, <2>1, SumInt
<1>9. h[x] = f[x] + g[x] /\ f[x] \in Int /\ g[x] \in Int BY <1>2
<1> HIDE DEF F, G, H, t
<1> QED BY <1>2, <1>5, <1>7, <1>8, <1>9

\* A sum of natural numbers is one.
LEMMA SumNat ==
  ASSUME NEW S, IsFiniteSet(S), NEW f, \A x \in S : f[x] \in Nat
  PROVE  SumFunctionOnSet(f, S) \in Nat
<1> DEFINE F(s) == SumFunctionOnSet(f, s)
           Bad == {s \in SUBSET S : F(s) \notin Nat}
<1> SUFFICES ASSUME Bad # {} PROVE FALSE
  OBVIOUS
<1>1. PICK s \in Bad : \A u \in SUBSET s : u # s => u \notin Bad
  <2>1. Bad \in SUBSET (SUBSET S) OBVIOUS
  <2> HIDE DEF Bad
  <2> QED BY <2>1, SmallestSubset
<1>2. s \in SUBSET S /\ IsFiniteSet(s) /\ F(s) \notin Nat BY <1>1, FS_Subset
<1>3. s # {}
  <2>1. F({}) = 0 BY SumEmpty
  <2> QED BY <1>2, <2>1
<1>4. PICK x \in s : TRUE BY <1>3
<1> DEFINE t == s \ {x}
<1>5. F(t) \in Nat
  <2>1. t \in SUBSET s /\ t # s /\ t \in SUBSET S BY <1>2, <1>4
  <2>2. t \notin Bad BY <1>1, <2>1
  <2> QED BY <2>1, <2>2
<1>6. F(s) = f[x] + F(t)
  <2>1. \A y \in s : f[y] \in Int BY <1>2
  <2> QED BY <1>2, <2>1, SumTake
<1>7. f[x] \in Nat BY <1>2
<1> HIDE DEF F, t
<1> QED BY <1>2, <1>5, <1>6, <1>7

\* Larger values have the larger sum.
LEMMA SumLeq ==
  ASSUME NEW S, IsFiniteSet(S), NEW f, NEW g,
         \A x \in S : f[x] \in Int /\ g[x] \in Int /\ f[x] <= g[x]
  PROVE  SumFunctionOnSet(f, S) <= SumFunctionOnSet(g, S)
<1> DEFINE h == [x \in S |-> g[x] - f[x]]
<1>1. \A x \in S : h[x] \in Nat /\ g[x] = f[x] + h[x] OBVIOUS
<1>2. \A x \in S : f[x] \in Int /\ h[x] \in Int /\ g[x] = f[x] + h[x] BY <1>1
<1> HIDE DEF h
<1>3. SumFunctionOnSet(g, S) = SumFunctionOnSet(f, S) + SumFunctionOnSet(h, S)
  BY <1>2, SumPlus
<1>4. SumFunctionOnSet(h, S) \in Nat BY <1>1, SumNat
<1>5. SumFunctionOnSet(f, S) \in Int BY <1>2, SumInt
<1> QED BY <1>3, <1>4, <1>5

\* Zeros add up to zero.
LEMMA SumZero ==
  ASSUME NEW S, IsFiniteSet(S), NEW f, \A x \in S : f[x] = 0
  PROVE  SumFunctionOnSet(f, S) = 0
<1>1. \A x \in S : f[x] \in Int /\ f[x] = f[x] + f[x] OBVIOUS
<1>2. SumFunctionOnSet(f, S) = SumFunctionOnSet(f, S) + SumFunctionOnSet(f, S)
  BY <1>1, SumPlus
<1>3. SumFunctionOnSet(f, S) \in Int BY <1>1, SumInt
<1>4. \A n \in Int : n = n + n => n = 0 OBVIOUS
<1> QED BY <1>2, <1>3, <1>4

\* One value changes: so does the sum, by as much.
LEMMA SumChange ==
  ASSUME NEW S, IsFiniteSet(S), NEW x \in S, NEW f, NEW g,
         \A y \in S : f[y] \in Int /\ g[y] \in Int,
         \A y \in S : y # x => g[y] = f[y]
  PROVE  SumFunctionOnSet(g, S) = SumFunctionOnSet(f, S) - f[x] + g[x]
<1> DEFINE T == S \ {x}
<1>1. IsFiniteSet(T) BY FS_RemoveElement
<1>2. SumFunctionOnSet(g, T) = SumFunctionOnSet(f, T)
  BY <1>1, SumAgree
<1>3. /\ SumFunctionOnSet(f, S) = f[x] + SumFunctionOnSet(f, T)
      /\ SumFunctionOnSet(g, S) = g[x] + SumFunctionOnSet(g, T)
  BY SumTake
<1>4. SumFunctionOnSet(f, T) \in Int BY <1>1, SumInt
<1> HIDE DEF T
<1> QED BY <1>2, <1>3, <1>4

\* No value is larger than the sum.
LEMMA SumHas ==
  ASSUME NEW S, IsFiniteSet(S), NEW x \in S, NEW f, \A y \in S : f[y] \in Nat
  PROVE  f[x] <= SumFunctionOnSet(f, S)
<1> DEFINE T == S \ {x}
<1>1. IsFiniteSet(T) BY FS_RemoveElement
<1>2. \A y \in S : f[y] \in Int OBVIOUS
<1>3. SumFunctionOnSet(f, S) = f[x] + SumFunctionOnSet(f, T) BY <1>2, SumTake
<1>4. SumFunctionOnSet(f, T) \in Nat BY <1>1, SumNat
<1> HIDE DEF T
<1> QED BY <1>3, <1>4

\* A sum over a subset is a sum over the whole with zeros outside the subset.
LEMMA SumWithin ==
  ASSUME NEW S, IsFiniteSet(S), NEW T \in SUBSET S, NEW f, NEW g,
         \A x \in T : f[x] \in Int /\ g[x] = f[x],
         \A x \in S \ T : g[x] = 0
  PROVE  SumFunctionOnSet(g, S) = SumFunctionOnSet(f, T)
<1> DEFINE G(s) == SumFunctionOnSet(g, s)
           F(s) == SumFunctionOnSet(f, s)
           Bad == {s \in SUBSET S : G(s) # F(s \intersect T)}
<1> SUFFICES ASSUME Bad # {} PROVE FALSE
  <2>1. S \intersect T = T OBVIOUS
  <2>2. Bad = {} => G(S) = F(S \intersect T) OBVIOUS
  <2> QED BY <2>1, <2>2
<1>1. PICK s \in Bad : \A u \in SUBSET s : u # s => u \notin Bad
  <2>1. Bad \in SUBSET (SUBSET S) OBVIOUS
  <2> HIDE DEF Bad
  <2> QED BY <2>1, SmallestSubset
<1>2. s \in SUBSET S /\ IsFiniteSet(s) /\ G(s) # F(s \intersect T) BY <1>1, FS_Subset
<1>3. s # {}
  <2>1. {} \intersect T = {} OBVIOUS
  <2>2. G({}) = 0 /\ F({}) = 0 BY SumEmpty
  <2> HIDE DEF F, G
  <2> QED BY <1>2, <2>1, <2>2
<1>4. PICK x \in s : TRUE BY <1>3
<1> DEFINE t == s \ {x}
<1>5. G(t) = F(t \intersect T)
  <2>1. t \in SUBSET s /\ t # s /\ t \in SUBSET S BY <1>2, <1>4
  <2>2. t \notin Bad BY <1>1, <2>1
  <2> QED BY <2>1, <2>2
<1>6. \A y \in s : g[y] \in Int BY <1>2
<1>7. G(s) = g[x] + G(t) BY <1>2, <1>6, SumTake
<1>8. IsFiniteSet(t) BY <1>2, FS_RemoveElement
<1>9. G(t) \in Int BY <1>6, <1>8, SumInt
<1>10. CASE x \in T
  <2>1. F(s \intersect T) = f[x] + F((s \intersect T) \ {x})
    <3>1. IsFiniteSet(s \intersect T) BY <1>2, FS_Intersection
    <3>2. \A y \in s \intersect T : f[y] \in Int OBVIOUS
    <3> QED BY <1>10, <3>1, <3>2, SumTake
  <2>2. (s \intersect T) \ {x} = t \intersect T OBVIOUS
  <2>3. g[x] = f[x] BY <1>10
  <2> HIDE DEF F, G, t
  <2> QED BY <1>2, <1>5, <1>7, <2>1, <2>2, <2>3
<1>11. CASE x \notin T
  <2>1. s \intersect T = t \intersect T BY <1>11
  <2>2. g[x] = 0 BY <1>2, <1>11
  <2>3. F(s \intersect T) = F(t \intersect T) BY <2>1
  <2> HIDE DEF F, G, t
  <2> QED BY <1>2, <1>5, <1>7, <1>9, <2>2, <2>3
<1> QED BY <1>10, <1>11

\* A part is no more than the whole.
LEMMA SumPart ==
  ASSUME NEW S, IsFiniteSet(S), NEW T \in SUBSET S, NEW f, \A x \in S : f[x] \in Nat
  PROVE  SumFunctionOnSet(f, T) <= SumFunctionOnSet(f, S)
<1> DEFINE g == [x \in S |-> IF x \in T THEN f[x] ELSE 0]
<1>1. /\ \A x \in T : f[x] \in Int /\ g[x] = f[x]
      /\ \A x \in S \ T : g[x] = 0
      /\ \A x \in S : g[x] \in Int /\ f[x] \in Int /\ g[x] <= f[x]
  OBVIOUS
<1> HIDE DEF g
<1>2. SumFunctionOnSet(g, S) = SumFunctionOnSet(f, T) BY <1>1, SumWithin
<1>3. SumFunctionOnSet(g, S) <= SumFunctionOnSet(f, S) BY <1>1, SumLeq
<1> QED BY <1>2, <1>3

\* Natural numbers that add up to zero are all zero.
LEMMA SumNothing ==
  ASSUME NEW S, IsFiniteSet(S), NEW f, \A x \in S : f[x] \in Nat,
         SumFunctionOnSet(f, S) = 0, NEW x \in S
  PROVE  f[x] = 0
<1>1. f[x] <= SumFunctionOnSet(f, S) BY SumHas
<1>2. f[x] \in Nat OBVIOUS
<1> QED BY <1>1, <1>2

---------------------------------------------------------------------------
(* Installment rows.                                                       *)

\* What AmountsAgree and StatusTellsMoney say of one row, with its gross g and
\* the sum a of its adjustments.
RowOK(row, g, a) ==
  /\ row.net = g + a
  /\ row.balance = row.net - row.paid
  /\ row.balance >= 0
  /\ row.status \in {"SCHEDULED", "INVOICED", "DUE", "OVERDUE", "SUSPENDED", "REFUNDED"}
       => row.paid = 0
  /\ row.status = "PARTIAL" => row.paid > 0 /\ row.balance > 0
  /\ row.status = "WAIVED" => row.balance = 0

RowsOK == \A i \in Installment : RowOK(inst[i], Gross[i], adj[i])

LedgerInv == TypeOK /\ RowsOK /\ CreditWithinAmount

---------------------------------------------------------------------------
(* One row.                                                                *)

\* A payment or a credit that lands on a row leaves it in order.
LEMMA SettledRow ==
  ASSUME NEW row \in InstallmentRow, NEW g \in Int, NEW a \in Int, NEW d \in Nat,
         RowOK(row, g, a), d > 0, CanTake(row, d)
  PROVE  Settled(row, d) \in InstallmentRow /\ RowOK(Settled(row, d), g, a)
BY DEF InstallmentRow, RowOK, CanTake, Settled, SettledStatus, Row, InstallmentStatus

\* So does a void that takes money back.
LEMMA VoidedRow ==
  ASSUME NEW row \in InstallmentRow, NEW g \in Int, NEW a \in Int, NEW d \in Nat,
         RowOK(row, g, a), d > 0, d <= row.paid
  PROVE  Voided(row, d) \in InstallmentRow /\ RowOK(Voided(row, d), g, a)
BY DEF InstallmentRow, RowOK, Voided, VoidedStatus, Row, InstallmentStatus

\* So does a refund that takes money back.
LEMMA UnwoundRow ==
  ASSUME NEW row \in InstallmentRow, NEW g \in Int, NEW a \in Int, NEW d \in Nat,
         RowOK(row, g, a), d > 0, d <= row.paid
  PROVE  Unwound(row, d) \in InstallmentRow /\ RowOK(Unwound(row, d), g, a)
BY DEF InstallmentRow, RowOK, Unwound, UnwoundStatus, Row, InstallmentStatus

\* A move of the status alone keeps the money of the row.
LEMMA RelabelledRow ==
  ASSUME NEW row \in InstallmentRow, NEW g \in Int, NEW a \in Int, NEW to \in InstallmentStatus,
         RowOK(row, g, a),
         to = "CANCELLED" \/ (to \in {"INVOICED", "DUE", "OVERDUE", "SUSPENDED"} /\ row.paid = 0)
  PROVE  /\ [row EXCEPT !.status = to] \in InstallmentRow
         /\ RowOK([row EXCEPT !.status = to], g, a)
BY DEF InstallmentRow, RowOK

---------------------------------------------------------------------------
(* All rows, and all credits.                                              *)

CreditsOK(table) ==
  /\ table \in [Credit -> CreditRow]
  /\ \A c \in Credit : /\ table[c].consumed <= table[c].amount
                       /\ table[c].status # "LIVE" => table[c].consumed = 0

\* An amount is a number.
LEMMA AmountNat == \A n \in Amount : n \in Nat /\ n \in Int
BY MaxMinorAssumption DEF Amount

\* What the invariant says of one row.
LEMMA RowFacts ==
  ASSUME TypeOK, RowsOK, NEW i \in Installment
  PROVE  /\ inst[i] \in InstallmentRow /\ adj[i] \in Int /\ Gross[i] \in Int
         /\ RowOK(inst[i], Gross[i], adj[i])
<1>1. inst[i] \in InstallmentRow /\ adj[i] \in Int BY DEF TypeOK
<1>2. Gross[i] \in Int
  <2>1. Gross[i] \in Amount BY GrossAssumption
  <2> QED BY <2>1, AmountNat
<1>3. RowOK(inst[i], Gross[i], adj[i]) BY DEF RowsOK
<1> QED BY <1>1, <1>2, <1>3

\* Money spread over the rows by a payment or a credit leaves them all in order.
LEMMA SettleKeeps ==
  ASSUME TypeOK, RowsOK, NEW d \in [Installment -> Amount], Settle(d), adj' = adj
  PROVE  inst' \in [Installment -> InstallmentRow] /\ RowsOK'
<1>1. inst' = [i \in Installment |-> IF d[i] > 0 THEN Settled(inst[i], d[i]) ELSE inst[i]]
  BY DEF Settle
<1> SUFFICES ASSUME NEW i \in Installment
             PROVE  inst'[i] \in InstallmentRow /\ RowOK(inst'[i], Gross[i], adj[i])
  <2>1. ASSUME \A i \in Installment : inst'[i] \in InstallmentRow
        PROVE  inst' \in [Installment -> InstallmentRow]
    BY <1>1, <2>1
  <2> QED BY <2>1 DEF RowsOK
<1>2. /\ inst[i] \in InstallmentRow /\ adj[i] \in Int /\ Gross[i] \in Int
      /\ RowOK(inst[i], Gross[i], adj[i])
  BY RowFacts
<1> d[i] \in Nat BY AmountNat
<1>3. CASE d[i] > 0
  <2>1. CanTake(inst[i], d[i]) /\ inst'[i] = Settled(inst[i], d[i])
    BY <1>3 DEF Settle
  <2> QED BY <1>2, <1>3, <2>1, SettledRow
<1>4. CASE ~(d[i] > 0)
  BY <1>2, <1>4 DEF Settle
<1> QED BY <1>3, <1>4

\* Reversing credits nothing was spent from leaves the table in order.
LEMMA ReversedKeeps ==
  ASSUME NEW table, CreditsOK(table), NEW cs \in SUBSET Credit,
         \A c \in cs : table[c].consumed = 0
  PROVE  CreditsOK(Reversed(table, cs))
BY DEF CreditsOK, Reversed, CreditRow

\* So does creating a credit.
LEMMA MintsKeeps ==
  ASSUME NEW table, CreditsOK(table), NEW amount \in Nat, NEW source \in Source,
         Mints(table, amount, source)
  PROVE  CreditsOK(credit')
<1>1. CASE amount = 0 BY <1>1 DEF Mints
<1>2. CASE amount > 0
  <2>1. PICK c \in Credit : credit' = [table EXCEPT ![c] = NewCredit(source, amount)]
    BY <1>2 DEF Mints
  <2>2. NewCredit(source, amount) \in CreditRow BY DEF NewCredit, CreditRow
  <2>3. NewCredit(source, amount).consumed = 0 /\ NewCredit(source, amount).amount = amount
    BY DEF NewCredit
  <2> QED BY <2>1, <2>2, <2>3 DEF CreditsOK
<1> QED BY <1>1, <1>2

---------------------------------------------------------------------------
(* One lemma per way the handlers write the tables.                        *)

\* The invariant covers the credit table.
LEMMA CreditsFromInv == LedgerInv => CreditsOK(credit)
BY DEF LedgerInv, TypeOK, CreditWithinAmount, CreditsOK

\* recordPayment, however it spreads the money.
LEMMA ReceiveKeeps ==
  ASSUME LedgerInv, NEW p \in Payment, NEW gross \in Amount,
         NEW order \in [Installment -> Nat], NEW d \in [Installment -> Amount],
         Receive(p, gross, order, d)
  PROVE  LedgerInv'
<1>1. TypeOK /\ RowsOK BY DEF LedgerInv
<1>2. UNCHANGED <<plan, adj, refund, app>> BY DEF Receive
<1>3. inst' \in [Installment -> InstallmentRow] /\ RowsOK'
  BY <1>1, <1>2, SettleKeeps DEF Receive
<1>4. payment' \in [Payment -> PaymentRow]
  <2>1. [status |-> "RECEIVED", gross |-> gross, order |-> order] \in PaymentRow
    BY AmountNat DEF PaymentRow, PaymentStatus
  <2> QED BY <1>1, <2>1 DEF Receive, TypeOK
<1>5. alloc' \in [Payment -> [Installment -> Nat]]
  <2>1. d \in [Installment -> Nat] BY AmountNat
  <2> QED BY <1>1, <2>1 DEF Receive, TypeOK
<1>6. CreditsOK(credit')
  <2>1. PICK overflow \in Amount : Mints(credit, overflow, FromPayment(p)) BY DEF Receive
  <2>2. FromPayment(p) \in Source BY DEF FromPayment, Source
  <2> QED BY <2>1, <2>2, MintsKeeps, CreditsFromInv, AmountNat
<1> QED BY <1>1, <1>2, <1>3, <1>4, <1>5, <1>6
        DEF LedgerInv, TypeOK, CreditWithinAmount, CreditsOK

\* voidPayment: rows, allocations and credits of one payment.
LEMMA VoidPaymentKeeps ==
  ASSUME LedgerInv, NEW p \in Payment, VoidPayment(p)
  PROVE  LedgerInv'
<1>1. TypeOK /\ RowsOK BY DEF LedgerInv
<1>2. UNCHANGED <<plan, adj, refund, app>> BY DEF VoidPayment
<1>3. inst' \in [Installment -> InstallmentRow] /\ RowsOK'
  <2>1. inst' = [i \in Installment |->
                   IF alloc[p][i] > 0 THEN Voided(inst[i], alloc[p][i]) ELSE inst[i]]
    BY DEF VoidPayment
  <2> SUFFICES ASSUME NEW i \in Installment
               PROVE  inst'[i] \in InstallmentRow /\ RowOK(inst'[i], Gross[i], adj[i])
    <3>1. ASSUME \A i \in Installment : inst'[i] \in InstallmentRow
          PROVE  inst' \in [Installment -> InstallmentRow]
      BY <2>1, <3>1
    <3> QED BY <3>1, <1>2 DEF RowsOK
  <2>2. /\ inst[i] \in InstallmentRow /\ adj[i] \in Int /\ Gross[i] \in Int
        /\ RowOK(inst[i], Gross[i], adj[i])
    BY <1>1, RowFacts
  <2>3. alloc[p][i] \in Nat /\ alloc[p][i] <= inst[i].paid BY <1>1 DEF TypeOK, VoidPayment
  <2> QED BY <2>1, <2>2, <2>3, VoidedRow
<1>4. payment' \in [Payment -> PaymentRow]
  BY <1>1 DEF VoidPayment, TypeOK, PaymentRow, PaymentStatus
<1>5. alloc' \in [Payment -> [Installment -> Nat]]
  BY <1>1 DEF VoidPayment, TypeOK, NoRows
<1>6. CreditsOK(credit')
  <2>1. LiveOf(p) \in SUBSET Credit BY DEF LiveOf
  <2> QED BY <2>1, ReversedKeeps, CreditsFromInv DEF VoidPayment
<1> QED BY <1>1, <1>2, <1>3, <1>4, <1>5, <1>6
        DEF LedgerInv, TypeOK, CreditWithinAmount, CreditsOK

\* createRefund writes a refund that names a payment.
LEMMA CreateRefundKeeps ==
  ASSUME LedgerInv, NEW r \in Refund, NEW p \in Payment, NEW amount \in Amount,
         CreateRefund(r, p, amount)
  PROVE  LedgerInv'
<1>1. UNCHANGED <<plan, inst, adj, payment, alloc, credit, app>> BY DEF CreateRefund
<1>2. [status |-> "PENDING", payment |-> p, amount |-> amount] \in RefundRow
  BY AmountNat DEF RefundRow, RefundStatus
<1>3. refund' \in [Refund -> RefundRow]
      /\ \A x \in Refund : refund'[x].status # "NONE" => refund'[x].payment \in Payment
  BY <1>2 DEF LedgerInv, TypeOK, CreateRefund
<1> QED BY <1>1, <1>3 DEF LedgerInv, TypeOK, RowsOK, CreditWithinAmount

\* The flip of a refund that exists.
LEMMA RefundFlips ==
  ASSUME TypeOK, NEW r \in Refund, NEW s \in RefundStatus, refund[r].status # "NONE",
         refund' = [refund EXCEPT ![r].status = s]
  PROVE  refund' \in [Refund -> RefundRow]
         /\ \A x \in Refund : refund'[x].status # "NONE" => refund'[x].payment \in Payment
<1>1. refund \in [Refund -> RefundRow]
      /\ \A x \in Refund : refund[x].status # "NONE" => refund[x].payment \in Payment
  BY DEF TypeOK
<1> QED BY <1>1 DEF RefundRow, RefundStatus

\* markRefundFailed.
LEMMA MarkRefundFailedKeeps ==
  ASSUME LedgerInv, NEW r \in Refund, MarkRefundFailed(r)
  PROVE  LedgerInv'
<1>1. UNCHANGED <<plan, inst, adj, payment, alloc, credit, app>> BY DEF MarkRefundFailed
<1>2. refund' \in [Refund -> RefundRow]
      /\ \A x \in Refund : refund'[x].status # "NONE" => refund'[x].payment \in Payment
  BY RefundFlips DEF MarkRefundFailed, LedgerInv, RefundStatus
<1> QED BY <1>1, <1>2 DEF LedgerInv, TypeOK, RowsOK, CreditWithinAmount

\* completeRefund: the three tables it takes money from, then the flips.
LEMMA CompleteRefundKeeps ==
  ASSUME LedgerInv, NEW r \in Refund, NEW carry \in BOOLEAN, CompleteRefund(r, carry)
  PROVE  LedgerInv'
<1> DEFINE p == refund[r].payment
           amount == refund[r].amount
<1>1. TypeOK /\ RowsOK BY DEF LedgerInv
<1>2. UNCHANGED <<plan, adj, app>> /\ refund[r].status = "PENDING" BY DEF CompleteRefund
<1>3. p \in Payment BY <1>1, <1>2 DEF TypeOK
<1>4. PICK take \in [Credit -> Amount], d \in [Installment -> Amount], surplus \in Amount :
        /\ Retires(take, LiveOf(p), amount)
        /\ \A i \in DOMAIN alloc[p] : d[i] <= alloc[p][i]
        /\ \A i \in Installment : d[i] <= inst[i].paid
        /\ inst' = [i \in Installment |-> IF d[i] > 0 THEN Unwound(inst[i], d[i]) ELSE inst[i]]
        /\ alloc' = [alloc EXCEPT ![p] = [i \in Installment |-> alloc[p][i] - d[i]]]
        /\ Replaces(take, p, r, surplus)
  BY DEF CompleteRefund, Waterfall
<1>5. inst' \in [Installment -> InstallmentRow] /\ RowsOK'
  <2> SUFFICES ASSUME NEW i \in Installment
               PROVE  inst'[i] \in InstallmentRow /\ RowOK(inst'[i], Gross[i], adj[i])
    <3>1. ASSUME \A i \in Installment : inst'[i] \in InstallmentRow
          PROVE  inst' \in [Installment -> InstallmentRow]
      BY <1>4, <3>1
    <3> QED BY <3>1, <1>2 DEF RowsOK
  <2>1. /\ inst[i] \in InstallmentRow /\ adj[i] \in Int /\ Gross[i] \in Int
        /\ RowOK(inst[i], Gross[i], adj[i])
    BY <1>1, RowFacts
  <2>2. d[i] \in Nat /\ d[i] <= inst[i].paid BY <1>4, AmountNat
  <2> QED BY <1>4, <2>1, <2>2, UnwoundRow
<1>6. alloc' \in [Payment -> [Installment -> Nat]]
  <2>1. alloc[p] \in [Installment -> Nat] BY <1>1, <1>3 DEF TypeOK
  <2>2. [i \in Installment |-> alloc[p][i] - d[i]] \in [Installment -> Nat]
    <3> SUFFICES ASSUME NEW i \in Installment PROVE alloc[p][i] - d[i] \in Nat
      OBVIOUS
    <3>1. d[i] \in Nat /\ alloc[p][i] \in Nat BY <2>1, AmountNat
    <3>2. d[i] <= alloc[p][i] BY <1>4, <2>1
    <3> QED BY <3>1, <3>2
  <2> QED BY <1>1, <1>3, <1>4, <2>2 DEF TypeOK
<1>7. CreditsOK(credit')
  <2> DEFINE taken == {c \in Credit : take[c] > 0}
             kept == Reversed(credit, taken)
  <2>1. CreditsOK(kept)
    <3>1. ASSUME NEW c \in taken PROVE credit[c].consumed = 0
      <4>1. take[c] \in Nat /\ take[c] # 0 BY <3>1, <1>4, AmountNat
      <4>2. c \in LiveOf(p) BY <1>4, <4>1 DEF Retires
      <4>3. ~(credit[c].consumed > 0) BY <1>4, <4>1, <4>2 DEF Retires
      <4>4. credit[c].consumed \in Nat BY <1>1, <3>1 DEF TypeOK, CreditRow
      <4> QED BY <4>3, <4>4
    <3>2. taken \in SUBSET Credit OBVIOUS
    <3> QED BY <3>1, <3>2, ReversedKeeps, CreditsFromInv
  <2>2. PICK left \in Amount : \/ Mints(kept, left, FromPayment(p))
                             \/ Mints(kept, surplus, FromRefund(r))
    BY <1>4 DEF Replaces
  <2>3. FromPayment(p) \in Source /\ FromRefund(r) \in Source
    BY <1>3 DEF FromPayment, FromRefund, Source
  <2>4. left \in Nat /\ surplus \in Nat BY AmountNat
  <2> QED BY <2>1, <2>2, <2>3, <2>4, MintsKeeps
<1>8. payment' \in [Payment -> PaymentRow]
  <2>1. AfterRefund(p, amount) \in PaymentStatus BY DEF AfterRefund, PaymentStatus
  <2>2. payment' = [payment EXCEPT ![p].status = AfterRefund(p, amount)]
    BY DEF CompleteRefund
  <2>3. payment \in [Payment -> PaymentRow] BY <1>1 DEF TypeOK
  <2> HIDE DEF p, amount
  <2> QED BY <2>1, <2>2, <2>3 DEF PaymentRow
<1>9. refund' \in [Refund -> RefundRow]
      /\ \A x \in Refund : refund'[x].status # "NONE" => refund'[x].payment \in Payment
  BY <1>1, <1>2, RefundFlips DEF CompleteRefund, RefundStatus
<1> QED BY <1>1, <1>2, <1>5, <1>6, <1>7, <1>8, <1>9
        DEF LedgerInv, TypeOK, CreditWithinAmount, CreditsOK

\* applyAdjustment and the late fee of the cron: one row is worked out afresh.
LEMMA AdjustKeeps ==
  ASSUME LedgerInv, NEW i \in Installment, NEW delta \in Int, NEW s \in InstallmentStatus,
         Adjust(i, delta, s),
         delta >= -inst[i].balance,
         \/ s = inst[i].status /\ delta > -inst[i].balance
         \/ s = inst[i].status /\ s = "PAID"
         \/ s = "PAID"
         \/ s = "WAIVED" /\ delta = -inst[i].balance
  PROVE  LedgerInv'
<1>1. UNCHANGED <<plan, payment, alloc, refund, credit, app>> BY DEF Adjust
<1>2. /\ inst[i] \in InstallmentRow /\ adj[i] \in Int /\ Gross[i] \in Int
      /\ RowOK(inst[i], Gross[i], adj[i])
  BY RowFacts DEF LedgerInv
<1> DEFINE new == Row(s, Gross[i] + adj[i] + delta, inst[i].paid)
<1>3. new \in InstallmentRow BY <1>2 DEF Row, InstallmentRow
<1>4. RowOK(new, Gross[i], adj[i] + delta)
  BY <1>2 DEF Row, RowOK, InstallmentRow, Adjust, ClosedToMoney
<1>5. adj' = [adj EXCEPT ![i] = adj[i] + delta] /\ inst' = [inst EXCEPT ![i] = new]
  BY DEF Adjust
<1>6. adj' \in [Installment -> Int] /\ inst' \in [Installment -> InstallmentRow]
  BY <1>2, <1>3, <1>5 DEF LedgerInv, TypeOK
<1>7. RowsOK' BY <1>4, <1>5 DEF LedgerInv, TypeOK, RowsOK
<1> QED BY <1>1, <1>6, <1>7 DEF LedgerInv, TypeOK, CreditWithinAmount

\* Late fees, discounts and waivers stay within the balance they found.
LEMMA AdjustmentKeeps ==
  ASSUME LedgerInv, NEW i \in Installment, NEW amount \in Amount,
         LateFee(i, amount) \/ Discount(i, amount) \/ Waive(i, amount)
  PROVE  LedgerInv'
<1>1. /\ inst[i].status \in InstallmentStatus /\ inst[i].balance \in Int
      /\ inst[i].balance >= 0 /\ amount \in Int
  BY RowFacts, AmountNat DEF LedgerInv, InstallmentRow, RowOK
<1>2. "PAID" \in InstallmentStatus /\ "WAIVED" \in InstallmentStatus
  BY DEF InstallmentStatus
<1>3. CASE LateFee(i, amount)
  BY <1>1, <1>3, AdjustKeeps DEF LateFee
<1>4. CASE Discount(i, amount)
  <2>1. -amount \in Int /\ -amount >= -inst[i].balance BY <1>1, <1>4 DEF Discount
  <2>2. CASE amount = inst[i].balance /\ inst[i].status # "PAID"
    BY <1>1, <1>2, <1>4, <2>1, <2>2, AdjustKeeps DEF Discount
  <2>3. CASE inst[i].status = "PAID"
    BY <1>1, <1>4, <2>1, <2>3, AdjustKeeps DEF Discount
  <2>4. CASE amount # inst[i].balance
    BY <1>1, <1>4, <2>1, <2>4, AdjustKeeps DEF Discount
  <2> QED BY <2>2, <2>3, <2>4
<1>5. CASE Waive(i, amount)
  <2>1. -amount \in Int /\ -amount >= -inst[i].balance BY <1>1, <1>5 DEF Waive
  <2> QED BY <1>1, <1>2, <1>5, <2>1, AdjustKeeps DEF Waive
<1> QED BY <1>3, <1>4, <1>5

\* applyCredit, however it spreads the credit.
LEMMA SpendKeeps ==
  ASSUME LedgerInv, NEW c \in Credit, NEW d \in [Installment -> Amount], Spend(c, d)
  PROVE  LedgerInv'
<1>1. TypeOK /\ RowsOK BY DEF LedgerInv
<1>2. UNCHANGED <<plan, adj, payment, alloc, refund>> BY DEF Spend
<1>3. inst' \in [Installment -> InstallmentRow] /\ RowsOK'
  BY <1>1, <1>2, SettleKeeps DEF Spend
<1>4. app' \in [Credit -> [Installment -> Nat]]
  <2>1. [i \in Installment |-> app[c][i] + d[i]] \in [Installment -> Nat]
    <3> SUFFICES ASSUME NEW i \in Installment PROVE app[c][i] + d[i] \in Nat
      OBVIOUS
    <3>1. d[i] \in Nat /\ app[c][i] \in Nat BY <1>1, AmountNat DEF TypeOK
    <3> QED BY <3>1
  <2> QED BY <1>1, <2>1 DEF Spend, Applied, TypeOK
<1>5. CreditsOK(credit')
  <2>1. PICK spent \in Amount :
          /\ spent <= Available(c)
          /\ credit' = [credit EXCEPT ![c].consumed = credit[c].consumed + spent]
    BY DEF Spend
  <2>2. CreditsOK(credit) /\ spent \in Nat /\ credit[c].status = "LIVE"
    BY CreditsFromInv, AmountNat DEF Spend
  <2>3. credit[c] \in CreditRow BY <2>2 DEF CreditsOK
  <2>4. /\ credit'[c] \in CreditRow
        /\ credit'[c].consumed <= credit'[c].amount
        /\ credit'[c].status = "LIVE"
    BY <2>1, <2>2, <2>3 DEF CreditsOK, CreditRow, Available
  <2> QED BY <2>1, <2>2, <2>4 DEF CreditsOK
<1> QED BY <1>1, <1>2, <1>3, <1>4, <1>5
        DEF LedgerInv, TypeOK, CreditWithinAmount, CreditsOK

\* reverseCredit reverses a credit nothing was spent from.
LEMMA ReverseCreditKeeps ==
  ASSUME LedgerInv, NEW c \in Credit, ReverseCredit(c)
  PROVE  LedgerInv'
<1>1. CreditsOK(credit') BY ReversedKeeps, CreditsFromInv DEF ReverseCredit
<1>2. UNCHANGED <<plan, inst, adj, payment, alloc, refund, app>> BY DEF ReverseCredit
<1> QED BY <1>1, <1>2 DEF LedgerInv, TypeOK, RowsOK, CreditWithinAmount, CreditsOK

---------------------------------------------------------------------------
(* Moves of the status alone, by the cron and by the plan.                 *)

\* A bulk move of statuses that hold no money, or to CANCELLED, keeps every row.
LEMMA RelabelledKeeps ==
  ASSUME LedgerInv, NEW from, NEW to \in InstallmentStatus,
         \A i \in Installment : inst[i].status \in from =>
           to = "CANCELLED" \/ (to \in {"INVOICED", "DUE", "OVERDUE", "SUSPENDED"}
                                 /\ inst[i].paid = 0),
         NEW i \in Installment
  PROVE  /\ Relabelled(from, to)[i] \in InstallmentRow
         /\ RowOK(Relabelled(from, to)[i], Gross[i], adj[i])
<1>1. /\ inst[i] \in InstallmentRow /\ adj[i] \in Int /\ Gross[i] \in Int
      /\ RowOK(inst[i], Gross[i], adj[i])
  BY RowFacts DEF LedgerInv
<1>2. CASE inst[i].status \in from
  <2>1. Relabelled(from, to)[i] = [inst[i] EXCEPT !.status = to] BY <1>2 DEF Relabelled
  <2> QED BY <1>1, <1>2, <2>1, RelabelledRow
<1>3. CASE inst[i].status \notin from
  BY <1>1, <1>3 DEF Relabelled
<1> QED BY <1>2, <1>3

\* What is left to show of an action that writes only the plan and the rows.
LEMMA RowsSuffice ==
  ASSUME LedgerInv, plan' \in PlanRow, adj' \in [Installment -> Int],
         UNCHANGED <<payment, alloc, refund, credit, app>>,
         NEW f, inst' = [i \in Installment |-> f[i]],
         \A i \in Installment : f[i] \in InstallmentRow /\ RowOK(f[i], Gross[i], adj'[i])
  PROVE  LedgerInv'
<1>1. inst' \in [Installment -> InstallmentRow] /\ RowsOK' BY DEF RowsOK
<1> QED BY <1>1 DEF LedgerInv, TypeOK, CreditWithinAmount

\* One guarded move of the cron.
LEMMA MoveKeeps ==
  ASSUME LedgerInv, NEW i \in Installment,
         NEW from \in {"SCHEDULED", "INVOICED", "DUE"},
         NEW to \in {"INVOICED", "DUE", "OVERDUE"}, Move(i, from, to)
  PROVE  LedgerInv'
<1>1. UNCHANGED <<plan, adj, payment, alloc, refund, credit, app>> BY DEF Move
<1>2. /\ inst[i] \in InstallmentRow /\ adj[i] \in Int /\ Gross[i] \in Int
      /\ RowOK(inst[i], Gross[i], adj[i])
  BY RowFacts DEF LedgerInv
<1>3. inst[i].paid = 0 BY <1>2 DEF Move, RowOK
<1> DEFINE new == [inst[i] EXCEPT !.status = to]
<1>4. new \in InstallmentRow /\ RowOK(new, Gross[i], adj[i])
  BY <1>2, <1>3, RelabelledRow DEF InstallmentStatus
<1>5. inst' = [inst EXCEPT ![i] = new] BY DEF Move
<1> HIDE DEF new
<1>6. inst' \in [Installment -> InstallmentRow] BY <1>4, <1>5 DEF LedgerInv, TypeOK
<1>7. RowsOK' BY <1>1, <1>4, <1>5 DEF LedgerInv, TypeOK, RowsOK
<1> QED BY <1>1, <1>6, <1>7 DEF LedgerInv, TypeOK, CreditWithinAmount

\* Rows that were never settled hold no money.
LEMMA UnsettledEmpty ==
  ASSUME RowsOK, NEW i \in Installment,
         inst[i].status \in {"SCHEDULED", "INVOICED", "DUE", "OVERDUE", "SUSPENDED"}
  PROVE  inst[i].paid = 0
BY DEF RowsOK, RowOK

\* A plan that takes a status is well formed.
LEMMA BecomesTyped ==
  ASSUME TypeOK, NEW status \in PlanStatus
  PROVE  Becomes(status) \in PlanRow
BY DEF TypeOK, PlanRow, Becomes

\* pausePlan, resumePlan and cancelPlan.
LEMMA PlanKeeps ==
  ASSUME LedgerInv, PlanNext
  PROVE  LedgerInv'
<1>1. CASE PausePlan
  <2>1. inst' = Relabelled({"SCHEDULED", "INVOICED"}, "SUSPENDED") BY <1>1 DEF PausePlan
  <2>2. \A i \in Installment :
          Relabelled({"SCHEDULED", "INVOICED"}, "SUSPENDED")[i] \in InstallmentRow
          /\ RowOK(Relabelled({"SCHEDULED", "INVOICED"}, "SUSPENDED")[i], Gross[i], adj[i])
    BY RelabelledKeeps, UnsettledEmpty DEF LedgerInv, InstallmentStatus
  <2>3. UNCHANGED <<adj, payment, alloc, refund, credit, app>> /\ plan' \in PlanRow
        /\ adj' \in [Installment -> Int]
    BY <1>1, BecomesTyped DEF PausePlan, PlanStatus, LedgerInv, TypeOK
  <2>4. inst' = [i \in Installment |-> inst'[i]] BY <2>1 DEF Relabelled
  <2> QED BY <2>1, <2>2, <2>3, <2>4, RowsSuffice
<1>2. CASE ResumePlan
  <2>1. inst' = Relabelled({"SUSPENDED"}, "INVOICED") BY <1>2 DEF ResumePlan
  <2>2. \A i \in Installment :
          Relabelled({"SUSPENDED"}, "INVOICED")[i] \in InstallmentRow
          /\ RowOK(Relabelled({"SUSPENDED"}, "INVOICED")[i], Gross[i], adj[i])
    BY RelabelledKeeps, UnsettledEmpty DEF LedgerInv, InstallmentStatus
  <2>3. UNCHANGED <<adj, payment, alloc, refund, credit, app>> /\ plan' \in PlanRow
        /\ adj' \in [Installment -> Int]
    BY <1>2, BecomesTyped DEF ResumePlan, PlanStatus, LedgerInv, TypeOK
  <2>4. inst' = [i \in Installment |-> inst'[i]] BY <2>1 DEF Relabelled
  <2> QED BY <2>1, <2>2, <2>3, <2>4, RowsSuffice
<1>3. ASSUME NEW waive \in BOOLEAN, CancelPlan(waive)
      PROVE  LedgerInv'
  <2> DEFINE swept == Relabelled(OpenStatus \union {"SUSPENDED"}, "CANCELLED")
             forgiven == Forgiven(waive)
  <2>1. /\ adj' = [i \in Installment |->
                     IF i \in forgiven THEN adj[i] - inst[i].balance ELSE adj[i]]
        /\ inst' = [i \in Installment |->
                      IF i \in forgiven THEN Row("WAIVED", inst[i].paid, inst[i].paid)
                      ELSE swept[i]]
        /\ UNCHANGED <<payment, alloc, refund, credit, app>>
        /\ plan' \in PlanRow
    BY <1>3, BecomesTyped DEF CancelPlan, PlanStatus, LedgerInv
  <2>2. ASSUME NEW i \in Installment
        PROVE  /\ adj'[i] \in Int
               /\ inst'[i] \in InstallmentRow /\ RowOK(inst'[i], Gross[i], adj'[i])
    <3>1. /\ inst[i] \in InstallmentRow /\ adj[i] \in Int /\ Gross[i] \in Int
          /\ RowOK(inst[i], Gross[i], adj[i])
      BY RowFacts DEF LedgerInv
    <3>2. CASE i \in forgiven
      <4>1. adj'[i] = adj[i] - inst[i].balance
            /\ inst'[i] = Row("WAIVED", inst[i].paid, inst[i].paid)
        BY <2>1, <3>2
      <4> QED BY <3>1, <4>1 DEF Row, RowOK, InstallmentRow, InstallmentStatus
    <3>3. CASE i \notin forgiven
      <4>1. adj'[i] = adj[i] /\ inst'[i] = swept[i] BY <2>1, <3>3
      <4>2. swept[i] \in InstallmentRow /\ RowOK(swept[i], Gross[i], adj[i])
        BY RelabelledKeeps DEF InstallmentStatus
      <4> QED BY <3>1, <4>1, <4>2
    <3> QED BY <3>2, <3>3
  <2> HIDE DEF swept, forgiven
  <2>3. adj' \in [Installment -> Int] BY <2>1, <2>2
  <2>4. inst' = [i \in Installment |-> inst'[i]] BY <2>1
  <2> QED BY <2>1, <2>2, <2>3, <2>4, RowsSuffice
<1> QED BY <1>1, <1>2, <1>3 DEF PlanNext
---------------------------------------------------------------------------
(* The invariant.                                                          *)

\* A new plan owes its gross and holds no money.
LEMMA InitInv == Init => LedgerInv
<1> SUFFICES ASSUME Init PROVE LedgerInv
  OBVIOUS
<1>1. \A i \in Installment : Gross[i] \in Nat /\ DueRank[i] \in Nat
  <2>1. \A i \in Installment : Gross[i] \in Amount BY GrossAssumption
  <2> QED BY <2>1, AmountNat, DueRankAssumption
<1>2. plan \in PlanRow /\ adj \in [Installment -> Int]
  BY DEF Init, PlanRow, PlanStatus
<1>3. inst \in [Installment -> InstallmentRow]
  BY <1>1 DEF Init, InstallmentRow, InstallmentStatus
<1>4. payment \in [Payment -> PaymentRow]
  BY DueRankAssumption DEF Init, PaymentRow
<1>5. alloc \in [Payment -> [Installment -> Nat]] /\ app \in [Credit -> [Installment -> Nat]]
  BY DEF Init, NoRows
<1>6. refund \in [Refund -> RefundRow] /\ \A r \in Refund : refund[r].status = "NONE"
  BY DEF Init, RefundRow
<1>7. credit \in [Credit -> CreditRow] /\ CreditWithinAmount
  BY DEF Init, CreditRow, Source, NoSource, CreditWithinAmount
<1>8. RowsOK
  BY <1>1 DEF Init, RowsOK, RowOK
<1> QED BY <1>2, <1>3, <1>4, <1>5, <1>6, <1>7, <1>8 DEF LedgerInv, TypeOK

\* The orders a caller may choose rank every row.
LEMMA OrdersTyped == Orders \subseteq [Installment -> Nat]
<1> SUFFICES ASSUME NEW f \in [Range(DueRank) -> Range(DueRank)]
             PROVE  [i \in Installment |-> f[DueRank[i]]] \in [Installment -> Nat]
  BY DEF Orders
<1>1. \A i \in Installment : DueRank[i] \in Range(DueRank)
  BY DueRankAssumption DEF Range
<1>2. Range(DueRank) \subseteq Nat BY DueRankAssumption DEF Range
<1> QED BY <1>1, <1>2

\* Every handler keeps the invariant.
LEMMA NextInv == LedgerInv /\ [Next]_vars => LedgerInv'
<1> SUFFICES ASSUME LedgerInv, [Next]_vars PROVE LedgerInv'
  OBVIOUS
<1>1. CASE ReceiptNext
  <2>1. ASSUME NEW p \in Payment, NEW gross \in Amount, RecordPaymentFifo(p, gross)
        PROVE  LedgerInv'
    BY <2>1, ReceiveKeeps, DueRankAssumption DEF RecordPaymentFifo
  <2>2. ASSUME NEW p \in Payment, NEW gross \in Amount, NEW order \in Orders,
               NEW d \in [Installment -> Amount], RecordPaymentManual(p, gross, order, d)
        PROVE  LedgerInv'
    BY <2>2, ReceiveKeeps, OrdersTyped DEF RecordPaymentManual
  <2> QED BY <1>1, <2>1, <2>2 DEF ReceiptNext
<1>2. CASE RefundNext
  BY <1>2, CreateRefundKeeps, MarkRefundFailedKeeps DEF RefundNext
<1>3. CASE ReversalNext
  BY <1>3, VoidPaymentKeeps, CompleteRefundKeeps DEF ReversalNext
<1>4. CASE AdjustmentNext
  BY <1>4, AdjustmentKeeps DEF AdjustmentNext
<1>5. CASE CreditNext
  BY <1>5, SpendKeeps, ReverseCreditKeeps
     DEF CreditNext, ApplyCreditExplicit, ApplyCreditFifo
<1>6. CASE CronNext
  <2>1. ASSUME NEW i \in Installment, CronInvoice(i) \/ CronDue(i) \/ CronOverdue(i)
        PROVE  LedgerInv'
    BY <2>1, MoveKeeps DEF CronInvoice, CronDue, CronOverdue
  <2>2. ASSUME NEW i \in Installment, NEW amount \in Amount, CronLateFee(i, amount)
        PROVE  LedgerInv'
    BY <2>2, AdjustmentKeeps DEF CronLateFee
  <2>3. CASE CronComplete
    <3>1. UNCHANGED <<inst, adj, payment, alloc, refund, credit, app>> /\ plan' \in PlanRow
      BY <2>3, BecomesTyped DEF CronComplete, PlanStatus, LedgerInv
    <3> QED BY <3>1 DEF LedgerInv, TypeOK, RowsOK, CreditWithinAmount
  <2> QED BY <1>6, <2>1, <2>2, <2>3 DEF CronNext
<1>7. CASE PlanNext
  BY <1>7, PlanKeeps
<1>8. CASE UNCHANGED vars
  BY <1>8 DEF vars, LedgerInv, TypeOK, RowsOK, CreditWithinAmount
<1> QED BY <1>1, <1>2, <1>3, <1>4, <1>5, <1>6, <1>7, <1>8 DEF Next

\* The invariant always holds.
LEMMA SpecInv == Spec => []LedgerInv
BY InitInv, NextInv, PTL DEF Spec

\* Every row of every table stays well formed, whatever handlers run.
THEOREM TypeCorrect == Spec => []TypeOK
<1>1. LedgerInv => TypeOK BY DEF LedgerInv
<1> QED BY <1>1, SpecInv, PTL

\* The CHECK constraints on net, paid and balance hold by the handlers' own
\* arithmetic: PostgreSQL never has to refuse a write of theirs.
THEOREM AmountsCorrect == Spec => []AmountsAgree
<1>1. LedgerInv => AmountsAgree BY DEF LedgerInv, RowsOK, RowOK, AmountsAgree
<1> QED BY <1>1, SpecInv, PTL

\* The status of an installment never contradicts its money.
THEOREM StatusCorrect == Spec => []StatusTellsMoney
<1>1. LedgerInv => StatusTellsMoney BY DEF LedgerInv, RowsOK, RowOK, StatusTellsMoney
<1> QED BY <1>1, SpecInv, PTL

\* No credit is overdrawn, and none is reversed once it has paid for something.
THEOREM CreditCorrect == Spec => []CreditWithinAmount
<1>1. LedgerInv => CreditWithinAmount BY DEF LedgerInv
<1> QED BY <1>1, SpecInv, PTL

---------------------------------------------------------------------------
(* The money of one payment, summed over the rows of each table.           *)

HeldIn(table, p) == SumFunctionOnSet(table[p], Installment)

CreditsOf(table, p) ==
  [c \in Credit |-> IF table[c].status = "LIVE" /\ table[c].source = FromPayment(p)
                    THEN table[c].amount ELSE 0]
CreditedIn(table, p) == SumFunctionOnSet(CreditsOf(table, p), Credit)

Counts(row, p, statuses) ==
  IF row.payment = p /\ row.status \in statuses THEN row.amount ELSE 0
RefundsIn(table, p, statuses) == [r \in Refund |-> Counts(table[r], p, statuses)]
RefundedIn(table, p, statuses) == SumFunctionOnSet(RefundsIn(table, p, statuses), Refund)

\* What PaymentConserved, RefundsWithinGross and PaymentStatusTellsRefunds say of
\* one payment, with the money it holds in installments, the money it holds in
\* credits, what was given back and what was given back or promised.
PaymentOK(row, held, credited, back, promised) ==
  /\ held + credited + back <= row.gross
  /\ row.status = "VOIDED" => held + credited + back = 0
  /\ promised <= row.gross
  /\ row.status \in {"NONE", "RECEIVED", "VOIDED"} => back = 0
  /\ row.status = "PARTIALLY_REFUNDED" => 0 < back /\ back < row.gross
  /\ row.status = "REFUNDED" => back = row.gross

Promise == {"PENDING", "COMPLETED"}

PaymentsOK ==
  \A p \in Payment :
    PaymentOK(payment[p], HeldIn(alloc, p), CreditedIn(credit, p),
              RefundedIn(refund, p, {"COMPLETED"}), RefundedIn(refund, p, Promise))

\* Nothing refers to a payment that was not received yet.
FreshPayments ==
  \A p \in Payment :
    payment[p].status = "NONE" =>
      /\ alloc[p] = NoRows
      /\ \A c \in Credit : credit[c].status = "LIVE" => credit[c].source # FromPayment(p)
      /\ \A r \in Refund : refund[r].status # "NONE" => refund[r].payment # p

RefundsPositive == \A r \in Refund : refund[r].status # "NONE" => refund[r].amount > 0

MoneyInv ==
  /\ LedgerInv
  /\ PaidIsFunded
  /\ ConsumedIsApplied
  /\ OneLiveCreditPerPayment
  /\ PaymentsOK
  /\ FreshPayments
  /\ RefundsPositive

\* A sum over a function is the sum over its domain.
LEMMA SumIs ==
  ASSUME NEW S, NEW T, NEW f \in [S -> T]
  PROVE  Sum(f) = SumFunctionOnSet(f, S)
BY DEF Sum, SumFunction

\* The totals are natural numbers, and the sums the code computes.
LEMMA HeldNat ==
  ASSUME NEW table \in [Payment -> [Installment -> Nat]], NEW p \in Payment
  PROVE  /\ HeldIn(table, p) \in Nat
         /\ HeldIn(table, p) = Sum(table[p])
<1>1. table[p] \in [Installment -> Nat] OBVIOUS
<1>2. \A i \in Installment : table[p][i] \in Nat BY <1>1
<1> QED BY <1>1, <1>2, FiniteAssumption, SumNat, SumIs DEF HeldIn

\* Each summand is a natural number.
LEMMA CreditsOfNat ==
  ASSUME NEW table \in [Credit -> CreditRow], NEW p
  PROVE  \A c \in Credit : CreditsOf(table, p)[c] \in Nat /\ CreditsOf(table, p)[c] \in Int
BY DEF CreditsOf, CreditRow

\* A payment's live credits add up to a natural number, whichever way they are summed.
LEMMA CreditedNat ==
  ASSUME NEW table \in [Credit -> CreditRow], NEW p
  PROVE  /\ CreditedIn(table, p) \in Nat
         /\ CreditedIn(table, p) =
              SumFunctionOnSet([c \in Credit |-> table[c].amount],
                {c \in Credit : table[c].status = "LIVE" /\ table[c].source = FromPayment(p)})
<1>1. CreditedIn(table, p) \in Nat BY CreditsOfNat, FiniteAssumption, SumNat DEF CreditedIn
<1> DEFINE live == {c \in Credit : table[c].status = "LIVE" /\ table[c].source = FromPayment(p)}
           amounts == [c \in Credit |-> table[c].amount]
<1>2. live \in SUBSET Credit OBVIOUS
<1>3. \A c \in live : amounts[c] \in Int /\ CreditsOf(table, p)[c] = amounts[c]
  BY DEF CreditRow, CreditsOf
<1>4. \A c \in Credit \ live : CreditsOf(table, p)[c] = 0
  BY DEF CreditsOf
<1> HIDE DEF live, amounts
<1>5. SumFunctionOnSet(CreditsOf(table, p), Credit) = SumFunctionOnSet(amounts, live)
  BY <1>2, <1>3, <1>4, FiniteAssumption, SumWithin
<1> QED BY <1>1, <1>5 DEF CreditedIn, live, amounts

\* Each summand is a natural number.
LEMMA RefundsInNat ==
  ASSUME NEW table \in [Refund -> RefundRow], NEW p, NEW st
  PROVE  \A r \in Refund : RefundsIn(table, p, st)[r] \in Nat /\ RefundsIn(table, p, st)[r] \in Int
BY DEF RefundsIn, Counts, RefundRow

\* So do its refunds in any of the statuses st.
LEMMA RefundedNat ==
  ASSUME NEW table \in [Refund -> RefundRow], NEW p, NEW st
  PROVE  /\ RefundedIn(table, p, st) \in Nat
         /\ RefundedIn(table, p, st) =
              SumFunctionOnSet([r \in Refund |-> table[r].amount],
                {r \in Refund : table[r].payment = p /\ table[r].status \in st})
<1>1. RefundedIn(table, p, st) \in Nat BY RefundsInNat, FiniteAssumption, SumNat DEF RefundedIn
<1> DEFINE those == {r \in Refund : table[r].payment = p /\ table[r].status \in st}
           amounts == [r \in Refund |-> table[r].amount]
<1>2. those \in SUBSET Refund OBVIOUS
<1>3. \A r \in those : amounts[r] \in Int /\ RefundsIn(table, p, st)[r] = amounts[r]
  BY DEF RefundRow, RefundsIn, Counts
<1>4. \A r \in Refund \ those : RefundsIn(table, p, st)[r] = 0
  BY DEF RefundsIn, Counts
<1> HIDE DEF those, amounts
<1>5. SumFunctionOnSet(RefundsIn(table, p, st), Refund) = SumFunctionOnSet(amounts, those)
  BY <1>2, <1>3, <1>4, FiniteAssumption, SumWithin
<1> QED BY <1>1, <1>5 DEF RefundedIn, those, amounts

\* The totals of the properties are these, in every state that is well typed.
LEMMA Totals ==
  ASSUME TypeOK, NEW p \in Payment
  PROVE  /\ Sum(alloc[p]) = HeldIn(alloc, p)
         /\ \A st : RefundsOf(p, st) = RefundedIn(refund, p, st)
         /\ Claimed(p) = HeldIn(alloc, p) + CreditedIn(credit, p)
                           + RefundedIn(refund, p, {"COMPLETED"})
<1>1. Sum(alloc[p]) = HeldIn(alloc, p) BY HeldNat DEF TypeOK
<1>2. SumFunctionOnSet([c \in Credit |-> credit[c].amount], LiveOf(p)) = CreditedIn(credit, p)
  BY CreditedNat DEF TypeOK, LiveOf
<1>3. ASSUME NEW st PROVE RefundsOf(p, st) = RefundedIn(refund, p, st)
  <2>1. refund \in [Refund -> RefundRow] BY DEF TypeOK
  <2> QED BY <2>1, RefundedNat DEF RefundsOf
<1> QED BY <1>1, <1>2, <1>3 DEF Claimed

\* And in the state after a step.
LEMMA TotalsNext ==
  ASSUME TypeOK', NEW p \in Payment
  PROVE  Claimed(p)' = HeldIn(alloc', p) + CreditedIn(credit', p)
                         + RefundedIn(refund', p, {"COMPLETED"})
<1>1. Sum(alloc'[p]) = HeldIn(alloc', p) BY HeldNat DEF TypeOK
<1>2. SumFunctionOnSet([c \in Credit |-> credit'[c].amount], LiveOf(p)') = CreditedIn(credit', p)
  BY CreditedNat DEF TypeOK, LiveOf
<1>3. RefundsOf(p, {"COMPLETED"})' = RefundedIn(refund', p, {"COMPLETED"})
  <2>1. refund' \in [Refund -> RefundRow] BY DEF TypeOK
  <2>2. RefundsOf(p, {"COMPLETED"})' =
          SumFunctionOnSet([r \in Refund |-> refund'[r].amount],
            {r \in Refund : refund'[r].payment = p /\ refund'[r].status \in {"COMPLETED"}})
    BY DEF RefundsOf
  <2> QED BY <2>1, <2>2, RefundedNat
<1> QED BY <1>1, <1>2, <1>3 DEF Claimed

---------------------------------------------------------------------------
(* What a write to one table does to the totals.                           *)

\* The allocations of one payment are written anew.
LEMMA AllocWritten ==
  ASSUME TypeOK, NEW p \in Payment, NEW d, alloc' = [alloc EXCEPT ![p] = d], NEW q \in Payment
  PROVE  HeldIn(alloc', q) = IF q = p THEN SumFunctionOnSet(d, Installment) ELSE HeldIn(alloc, q)
BY DEF HeldIn, TypeOK

\* What a table over S gives to one installment.
Column(S, table, i) == Sum([x \in S |-> table[x][i]])

\* What rows were paid is the money of a table of allocations and one of
\* applications: PaidIsFunded, of any two tables.
FundedBy(rows, table, drawn) ==
  \A i \in Installment : rows[i].paid = Column(Payment, table, i) + Column(Credit, drawn, i)

\* A column adds up to an integer.
LEMMA ColumnInt ==
  ASSUME NEW S, IsFiniteSet(S), NEW table, NEW i, \A x \in S : table[x][i] \in Int
  PROVE  Column(S, table, i) \in Int
<1> DEFINE old == [x \in S |-> table[x][i]]
<1>1. \A x \in S : old[x] \in Int OBVIOUS
<1>2. old \in [S -> Int] BY <1>1
<1>3. Column(S, table, i) = Sum(old) BY DEF Column
<1> HIDE DEF old
<1>4. Sum(old) = SumFunctionOnSet(old, S) BY <1>2, SumIs
<1> QED BY <1>1, <1>3, <1>4, SumInt

\* Every entry of a table is an integer.
Entries(S, table) == \A x \in S, i \in Installment : table[x][i] \in Int

\* A column changes by what one of its entries does.
LEMMA ColumnChange ==
  ASSUME NEW S, IsFiniteSet(S), NEW table, NEW after, Entries(S, table), Entries(S, after),
         NEW y \in S, \A x \in S, i \in Installment : x # y => after[x][i] = table[x][i],
         NEW i \in Installment
  PROVE  Column(S, after, i) = Column(S, table, i) - table[y][i] + after[y][i]
<1> DEFINE old == [x \in S |-> table[x][i]]
           new == [x \in S |-> after[x][i]]
<1>1. \A x \in S : old[x] \in Int /\ old[x] = table[x][i] BY DEF Entries
<1>2. \A x \in S : new[x] \in Int /\ new[x] = after[x][i] BY DEF Entries
<1>3. \A x \in S : x # y => new[x] = old[x] OBVIOUS
<1>4. old \in [S -> Int] /\ new \in [S -> Int] BY <1>1, <1>2
<1>5. Column(S, table, i) = Sum(old) /\ Column(S, after, i) = Sum(new) BY DEF Column
<1> HIDE DEF old, new
<1>6. Sum(old) = SumFunctionOnSet(old, S) /\ Sum(new) = SumFunctionOnSet(new, S)
  BY <1>4, SumIs
<1>7. SumFunctionOnSet(new, S) = SumFunctionOnSet(old, S) - old[y] + new[y]
  BY <1>1, <1>2, <1>3, SumChange
<1> QED BY <1>1, <1>2, <1>5, <1>6, <1>7

\* Rows whose money changes by what one payment's part of the table does stay funded.
LEMMA FundedByPayment ==
  ASSUME NEW rows, NEW new, NEW table, NEW after, NEW drawn,
         Entries(Payment, table), Entries(Payment, after), Entries(Credit, drawn),
         FundedBy(rows, table, drawn), NEW p \in Payment,
         \A q \in Payment, i \in Installment : q # p => after[q][i] = table[q][i],
         \A i \in Installment : new[i].paid = rows[i].paid - table[p][i] + after[p][i]
  PROVE  FundedBy(new, after, drawn)
<1> SUFFICES ASSUME NEW i \in Installment
             PROVE  new[i].paid = Column(Payment, after, i) + Column(Credit, drawn, i)
  BY DEF FundedBy
<1>1. rows[i].paid = Column(Payment, table, i) + Column(Credit, drawn, i) BY DEF FundedBy
<1>2. /\ \A q \in Payment : table[q][i] \in Int /\ after[q][i] \in Int
      /\ \A c \in Credit : drawn[c][i] \in Int
  BY DEF Entries
<1>3. Column(Payment, after, i) = Column(Payment, table, i) - table[p][i] + after[p][i]
  BY FiniteAssumption, ColumnChange
<1>4. Column(Payment, table, i) \in Int /\ Column(Credit, drawn, i) \in Int
  BY <1>2, FiniteAssumption, ColumnInt
<1>5. new[i].paid = rows[i].paid - table[p][i] + after[p][i] OBVIOUS
<1> QED BY <1>1, <1>2, <1>3, <1>4, <1>5

\* Rows whose money grows by what a credit's applications do stay funded.
LEMMA FundedByCredit ==
  ASSUME NEW rows, NEW new, NEW table, NEW drawn, NEW after,
         Entries(Payment, table), Entries(Credit, drawn), Entries(Credit, after),
         FundedBy(rows, table, drawn), NEW c \in Credit,
         \A x \in Credit, i \in Installment : x # c => after[x][i] = drawn[x][i],
         \A i \in Installment : new[i].paid = rows[i].paid - drawn[c][i] + after[c][i]
  PROVE  FundedBy(new, table, after)
<1> SUFFICES ASSUME NEW i \in Installment
             PROVE  new[i].paid = Column(Payment, table, i) + Column(Credit, after, i)
  BY DEF FundedBy
<1>1. rows[i].paid = Column(Payment, table, i) + Column(Credit, drawn, i) BY DEF FundedBy
<1>2. /\ \A q \in Payment : table[q][i] \in Int
      /\ \A x \in Credit : drawn[x][i] \in Int /\ after[x][i] \in Int
  BY DEF Entries
<1>3. Column(Credit, after, i) = Column(Credit, drawn, i) - drawn[c][i] + after[c][i]
  BY FiniteAssumption, ColumnChange
<1>4. Column(Payment, table, i) \in Int /\ Column(Credit, drawn, i) \in Int
  BY <1>2, FiniteAssumption, ColumnInt
<1>5. new[i].paid = rows[i].paid - drawn[c][i] + after[c][i] OBVIOUS
<1> QED BY <1>1, <1>2, <1>3, <1>4, <1>5

\* The tables as they are.
LEMMA TablesInt ==
  ASSUME TypeOK
  PROVE  /\ Entries(Payment, alloc) /\ Entries(Credit, app)
         /\ PaidIsFunded <=> FundedBy(inst, alloc, app)
<1>1. (\A p \in Payment : alloc[p] \in [Installment -> Nat])
      /\ (\A c \in Credit : app[c] \in [Installment -> Nat])
  BY DEF TypeOK
<1>2. Entries(Payment, alloc) /\ Entries(Credit, app) BY <1>1 DEF Entries
<1> QED BY <1>2 DEF PaidIsFunded, FundedBy, Column

\* And after a step.
LEMMA TablesIntNext ==
  ASSUME TypeOK'
  PROVE  /\ Entries(Payment, alloc') /\ Entries(Credit, app')
         /\ PaidIsFunded' <=> FundedBy(inst', alloc', app')
<1>1. (\A p \in Payment : alloc'[p] \in [Installment -> Nat])
      /\ (\A c \in Credit : app'[c] \in [Installment -> Nat])
  BY DEF TypeOK
<1>2. Entries(Payment, alloc') /\ Entries(Credit, app') BY <1>1 DEF Entries
<1> QED BY <1>2 DEF PaidIsFunded, FundedBy, Column

\* Only a payment's own money is its own.
LEMMA SourcesDiffer ==
  /\ \A p, q : FromPayment(p) = FromPayment(q) => p = q
  /\ \A p, r : FromPayment(p) # FromRefund(r)
BY DEF FromPayment, FromRefund

\* A credit that is created adds its amount to the money of the payment it is from.
LEMMA CreditMinted ==
  ASSUME NEW table \in [Credit -> CreditRow], NEW amount \in Nat, NEW source \in Source,
         Mints(table, amount, source), NEW q
  PROVE  CreditedIn(credit', q)
           = CreditedIn(table, q) + (IF source = FromPayment(q) THEN amount ELSE 0)
<1>1. CreditedIn(table, q) \in Nat BY CreditedNat
<1>2. CASE amount = 0
  <2>1. credit' = table BY <1>2 DEF Mints
  <2> QED BY <1>1, <1>2, <2>1
<1>3. CASE amount > 0
  <2>1. PICK c \in Credit : /\ table[c].status = "NONE"
                            /\ credit' = [table EXCEPT ![c] = NewCredit(source, amount)]
    BY <1>3 DEF Mints, IsNext, Unused
  <2>2. credit' \in [Credit -> CreditRow]
    <3>1. NewCredit(source, amount) \in CreditRow BY DEF NewCredit, CreditRow
    <3> QED BY <2>1, <3>1
  <2> DEFINE old == CreditsOf(table, q)
             new == CreditsOf(credit', q)
  <2>3. \A x \in Credit : old[x] \in Int /\ new[x] \in Int BY <2>2, CreditsOfNat
  <2>4. \A x \in Credit : x # c => new[x] = old[x] BY <2>1 DEF CreditsOf
  <2>5. old[c] = 0 BY <2>1 DEF CreditsOf
  <2>6. new[c] = IF source = FromPayment(q) THEN amount ELSE 0
    BY <2>1 DEF CreditsOf, NewCredit
  <2> HIDE DEF old, new
  <2>7. SumFunctionOnSet(new, Credit) = SumFunctionOnSet(old, Credit) - old[c] + new[c]
    BY <2>3, <2>4, FiniteAssumption, SumChange
  <2>8. SumFunctionOnSet(old, Credit) = CreditedIn(table, q)
        /\ SumFunctionOnSet(new, Credit) = CreditedIn(credit', q)
    BY DEF old, new, CreditedIn
  <2> QED BY <1>1, <2>3, <2>5, <2>6, <2>7, <2>8
<1> QED BY <1>2, <1>3

\* What is taken from the money of a payment when live credits are reversed.
LEMMA CreditsReversed ==
  ASSUME NEW table \in [Credit -> CreditRow], NEW cs \in SUBSET Credit, NEW q
  PROVE  /\ Reversed(table, cs) \in [Credit -> CreditRow]
         /\ SumFunctionOnSet(CreditsOf(table, q), cs) \in Int
         /\ CreditedIn(Reversed(table, cs), q)
              = CreditedIn(table, q) - SumFunctionOnSet(CreditsOf(table, q), cs)
<1> DEFINE new == CreditsOf(Reversed(table, cs), q)
           old == CreditsOf(table, q)
           gone == [c \in Credit |-> IF c \in cs THEN old[c] ELSE 0]
<1>1. Reversed(table, cs) \in [Credit -> CreditRow] BY DEF Reversed, CreditRow
<1>2. \A c \in Credit : new[c] \in Int /\ old[c] \in Int BY <1>1, CreditsOfNat
<1>3. \A c \in Credit : new[c] = IF c \in cs THEN 0 ELSE old[c]
  BY DEF CreditsOf, Reversed, CreditRow
<1> HIDE DEF new, old
<1>4. \A c \in Credit : gone[c] \in Int /\ old[c] = new[c] + gone[c] BY <1>2, <1>3
<1>5. /\ \A c \in cs : old[c] \in Int /\ gone[c] = old[c]
      /\ \A c \in Credit \ cs : gone[c] = 0
  BY <1>2
<1> HIDE DEF gone
<1>6. SumFunctionOnSet(old, Credit)
        = SumFunctionOnSet(new, Credit) + SumFunctionOnSet(gone, Credit)
  BY <1>2, <1>4, FiniteAssumption, SumPlus
<1>7. SumFunctionOnSet(gone, Credit) = SumFunctionOnSet(old, cs)
  BY <1>5, FiniteAssumption, SumWithin
<1>8. SumFunctionOnSet(new, Credit) \in Int /\ SumFunctionOnSet(gone, Credit) \in Int
  BY <1>2, <1>4, FiniteAssumption, SumInt
<1>9. SumFunctionOnSet(old, Credit) = CreditedIn(table, q)
      /\ SumFunctionOnSet(new, Credit) = CreditedIn(Reversed(table, cs), q)
  BY DEF old, new, CreditedIn
<1>10. SumFunctionOnSet(old, cs) = SumFunctionOnSet(CreditsOf(table, q), cs) BY DEF old
<1> QED BY <1>1, <1>6, <1>7, <1>8, <1>9, <1>10

\* One refund is written.
LEMMA RefundWritten ==
  ASSUME TypeOK, NEW r \in Refund, NEW row \in RefundRow, refund' = [refund EXCEPT ![r] = row],
         NEW q, NEW st
  PROVE  /\ RefundedIn(refund', q, st)
              = RefundedIn(refund, q, st) - Counts(refund[r], q, st) + Counts(row, q, st)
         /\ RefundedIn(refund, q, st) \in Nat
         /\ Counts(refund[r], q, st) \in Nat /\ Counts(row, q, st) \in Nat
<1> DEFINE old == RefundsIn(refund, q, st)
           new == RefundsIn(refund', q, st)
<1>1. refund \in [Refund -> RefundRow] /\ refund' \in [Refund -> RefundRow] BY DEF TypeOK
<1>2. \A x \in Refund : old[x] \in Int /\ new[x] \in Int BY <1>1, RefundsInNat
<1>3. \A x \in Refund : x # r => new[x] = old[x] BY <1>1 DEF RefundsIn
<1>4. old[r] = Counts(refund[r], q, st) BY DEF RefundsIn
<1>5. new[r] = Counts(row, q, st) BY <1>1 DEF RefundsIn
<1>6. RefundedIn(refund, q, st) = SumFunctionOnSet(old, Refund)
      /\ RefundedIn(refund', q, st) = SumFunctionOnSet(new, Refund)
  BY DEF RefundedIn
<1> HIDE DEF old, new
<1>7. SumFunctionOnSet(new, Refund) = SumFunctionOnSet(old, Refund) - old[r] + new[r]
  BY <1>2, <1>3, FiniteAssumption, SumChange
<1>8. Counts(refund[r], q, st) \in Nat /\ Counts(row, q, st) \in Nat
  BY <1>1 DEF Counts, RefundRow
<1>9. RefundedIn(refund, q, st) \in Nat BY <1>1, RefundedNat
<1> QED BY <1>4, <1>5, <1>6, <1>7, <1>8, <1>9

\* A payment is worth no less to the books than before.
NothingLost ==
  \A q \in Payment : payment'[q].status # "VOIDED" => Claimed(q) <= Claimed(q)'

\* What was given back was promised first.
LEMMA BackIsPromised ==
  ASSUME NEW table \in [Refund -> RefundRow], NEW p
  PROVE  RefundedIn(table, p, {"COMPLETED"}) <= RefundedIn(table, p, Promise)
<1>1. \A r \in Refund :
        /\ RefundsIn(table, p, {"COMPLETED"})[r] \in Int
        /\ RefundsIn(table, p, Promise)[r] \in Int
        /\ RefundsIn(table, p, {"COMPLETED"})[r] <= RefundsIn(table, p, Promise)[r]
  BY DEF RefundsIn, Counts, Promise, RefundRow
<1> QED BY <1>1, FiniteAssumption, SumLeq DEF RefundedIn

\* The totals of a payment are natural numbers.
LEMMA TotalsNat ==
  ASSUME TypeOK, NEW p \in Payment
  PROVE  /\ HeldIn(alloc, p) \in Nat /\ CreditedIn(credit, p) \in Nat
         /\ \A st : RefundedIn(refund, p, st) \in Nat
         /\ payment[p] \in PaymentRow /\ payment[p].gross \in Nat
<1>1. /\ alloc \in [Payment -> [Installment -> Nat]] /\ credit \in [Credit -> CreditRow]
      /\ refund \in [Refund -> RefundRow] /\ payment[p] \in PaymentRow
  BY DEF TypeOK
<1>2. payment[p].gross \in Nat BY <1>1 DEF PaymentRow
<1> QED BY <1>1, <1>2, HeldNat, CreditedNat, RefundedNat

\* A payment that was not received has no money anywhere.
LEMMA FreshTotals ==
  ASSUME FreshPayments, NEW p \in Payment, payment[p].status = "NONE"
  PROVE  /\ HeldIn(alloc, p) = 0 /\ CreditedIn(credit, p) = 0
         /\ RefundedIn(refund, p, {"COMPLETED"}) = 0 /\ RefundedIn(refund, p, Promise) = 0
<1>1. /\ alloc[p] = NoRows
      /\ \A c \in Credit : credit[c].status = "LIVE" => credit[c].source # FromPayment(p)
      /\ \A r \in Refund : refund[r].status # "NONE" => refund[r].payment # p
  BY DEF FreshPayments
<1>2. \A i \in Installment : alloc[p][i] = 0 BY <1>1 DEF NoRows
<1>3. \A c \in Credit : CreditsOf(credit, p)[c] = 0 BY <1>1 DEF CreditsOf
<1>4. \A r \in Refund : /\ RefundsIn(refund, p, {"COMPLETED"})[r] = 0
                        /\ RefundsIn(refund, p, Promise)[r] = 0
  BY <1>1 DEF RefundsIn, Counts, Promise
<1>5. HeldIn(alloc, p) = 0 BY <1>2, FiniteAssumption, SumZero DEF HeldIn
<1>6. CreditedIn(credit, p) = 0 BY <1>3, FiniteAssumption, SumZero DEF CreditedIn
<1>7. RefundedIn(refund, p, {"COMPLETED"}) = 0 /\ RefundedIn(refund, p, Promise) = 0
  BY <1>4, FiniteAssumption, SumZero DEF RefundedIn
<1> QED BY <1>5, <1>6, <1>7

\* A handler that leaves the money tables and what rows have been paid alone.
LEMMA QuietMoney ==
  ASSUME MoneyInv, LedgerInv', UNCHANGED <<payment, alloc, refund, credit, app>>,
         \A i \in Installment : inst'[i].paid = inst[i].paid
  PROVE  MoneyInv' /\ NothingLost
<1>1. PaidIsFunded' BY DEF MoneyInv, PaidIsFunded
<1>2. ConsumedIsApplied' BY DEF MoneyInv, ConsumedIsApplied
<1>3. OneLiveCreditPerPayment' BY DEF MoneyInv, OneLiveCreditPerPayment, LiveOf
<1>4. PaymentsOK' BY DEF MoneyInv, PaymentsOK
<1>5. FreshPayments' /\ RefundsPositive' BY DEF MoneyInv, FreshPayments, RefundsPositive
<1>6. NothingLost
  <2> SUFFICES ASSUME NEW q \in Payment PROVE Claimed(q) <= Claimed(q)'
    BY DEF NothingLost
  <2>1. TypeOK /\ TypeOK' BY DEF MoneyInv, LedgerInv
  <2>2. Claimed(q)' = Claimed(q) BY <2>1, Totals, TotalsNext
  <2>3. Claimed(q) \in Nat BY <2>1, Totals, TotalsNat
  <2> QED BY <2>2, <2>3
<1> QED BY <1>1, <1>2, <1>3, <1>4, <1>5, <1>6 DEF MoneyInv

\* Money that lands on the rows shows in what they have been paid.
LEMMA SettlePaid ==
  ASSUME TypeOK, NEW d \in [Installment -> Amount], Settle(d), NEW i \in Installment
  PROVE  inst'[i].paid = inst[i].paid + d[i]
<1>1. inst[i].paid \in Nat BY DEF TypeOK, InstallmentRow
<1>2. d[i] \in Nat BY AmountNat
<1>3. inst'[i] = IF d[i] > 0 THEN Settled(inst[i], d[i]) ELSE inst[i] BY DEF Settle
<1>4. Settled(inst[i], d[i]).paid = inst[i].paid + d[i] BY DEF Settled, Row
<1> QED BY <1>1, <1>2, <1>3, <1>4

\* A credit table that differs from the ledger's in statuses alone.
SameMoney(table) ==
  /\ table \in [Credit -> CreditRow]
  /\ \A c \in Credit : /\ table[c].source = credit[c].source
                       /\ table[c].amount = credit[c].amount
                       /\ table[c].consumed = credit[c].consumed
                       /\ table[c].status = credit[c].status \/ table[c].status = "REVERSED"
                       /\ table[c].status = "NONE" <=> credit[c].status = "NONE"

\* Reversing credits changes their status alone.
LEMMA ReversedSame ==
  ASSUME TypeOK, NEW cs \in SUBSET Credit, \A c \in cs : credit[c].status # "NONE"
  PROVE  SameMoney(Reversed(credit, cs))
<1>1. credit \in [Credit -> CreditRow] BY DEF TypeOK
<1>2. Reversed(credit, cs) \in [Credit -> CreditRow] BY <1>1 DEF Reversed, CreditRow
<1>3. \A c \in Credit : credit[c] \in CreditRow BY <1>1
<1> QED BY <1>2, <1>3 DEF SameMoney, Reversed, CreditRow

\* The table as it is differs in nothing.
LEMMA UnchangedSame == TypeOK => SameMoney(credit)
BY DEF SameMoney, TypeOK

\* A new credit has paid for nothing.
LEMMA MintedUnspent ==
  ASSUME CreditWithinAmount, ConsumedIsApplied, NEW table, SameMoney(table), app' = app,
         NEW amount, NEW source, Mints(table, amount, source)
  PROVE  ConsumedIsApplied'
<1> SUFFICES ASSUME NEW c \in Credit PROVE credit'[c].consumed = Sum(app[c])
  BY DEF ConsumedIsApplied
<1>1. credit[c].consumed = Sum(app[c]) BY DEF ConsumedIsApplied
<1>2. credit[c].status # "LIVE" => credit[c].consumed = 0 BY DEF CreditWithinAmount
<1>3. table[c].consumed = credit[c].consumed BY DEF SameMoney
<1>4. CASE credit' = table BY <1>1, <1>3, <1>4
<1>5. CASE credit' # table
  <2>1. PICK x \in Credit : /\ table[x].status = "NONE"
                            /\ credit' = [table EXCEPT ![x] = NewCredit(source, amount)]
    BY <1>5 DEF Mints, IsNext, Unused
  <2>2. table \in [Credit -> CreditRow] BY DEF SameMoney
  <2>3. credit'[c].consumed = IF c = x THEN 0 ELSE table[c].consumed
    BY <2>1, <2>2 DEF NewCredit
  <2> QED BY <1>1, <1>2, <1>3, <2>1, <2>3 DEF SameMoney
<1> QED BY <1>4, <1>5

\* What is live after a credit was created: the credits that were, and it.
LEMMA MintedLive ==
  ASSUME NEW table \in [Credit -> CreditRow],
         NEW amount, NEW source, Mints(table, amount, source)
  PROVE  \/ credit' = table
         \/ \E x \in Credit : \A c \in Credit :
              /\ c = x => credit'[c].source = source
              /\ c # x => credit'[c] = table[c]
BY DEF Mints, NewCredit

\* A payment has one live credit after a credit is created if it had none before.
LEMMA MintedSingly ==
  ASSUME NEW table \in [Credit -> CreditRow],
         NEW amount, NEW source, Mints(table, amount, source),
         \A p \in Payment, c1, c2 \in Credit :
           /\ table[c1].status = "LIVE" /\ table[c1].source = FromPayment(p)
           /\ table[c2].status = "LIVE" /\ table[c2].source = FromPayment(p)
           => c1 = c2,
         \A p \in Payment, c \in Credit :
           source = FromPayment(p) /\ table[c].status = "LIVE" => table[c].source # FromPayment(p)
  PROVE  OneLiveCreditPerPayment'
<1> SUFFICES ASSUME NEW p \in Payment, NEW c1 \in Credit, NEW c2 \in Credit,
                    credit'[c1].status = "LIVE", credit'[c1].source = FromPayment(p),
                    credit'[c2].status = "LIVE", credit'[c2].source = FromPayment(p)
             PROVE  c1 = c2
  BY DEF OneLiveCreditPerPayment, LiveOf
<1>1. CASE credit' = table BY <1>1
<1>2. ASSUME NEW x \in Credit,
             \A c \in Credit : /\ c = x => credit'[c].source = source
                               /\ c # x => credit'[c] = table[c]
      PROVE  c1 = c2
  <2>1. c1 = x \/ c2 = x => source = FromPayment(p) BY <1>2
  <2>2. /\ c1 # x => table[c1].status = "LIVE" /\ table[c1].source = FromPayment(p)
        /\ c2 # x => table[c2].status = "LIVE" /\ table[c2].source = FromPayment(p)
    BY <1>2
  <2> QED BY <2>1, <2>2
<1> QED BY <1>1, <1>2, MintedLive

\* A handler that moves the money of one payment.
LEMMA OnePayment ==
  ASSUME MoneyInv, LedgerInv', NEW p \in Payment,
         \A q \in Payment : q # p =>
           /\ payment'[q] = payment[q]
           /\ HeldIn(alloc', q) = HeldIn(alloc, q)
           /\ CreditedIn(credit', q) = CreditedIn(credit, q)
           /\ RefundedIn(refund', q, {"COMPLETED"}) = RefundedIn(refund, q, {"COMPLETED"})
           /\ RefundedIn(refund', q, Promise) = RefundedIn(refund, q, Promise),
         PaymentOK(payment'[p], HeldIn(alloc', p), CreditedIn(credit', p),
                   RefundedIn(refund', p, {"COMPLETED"}), RefundedIn(refund', p, Promise)),
         payment'[p].status # "VOIDED" =>
           HeldIn(alloc, p) + CreditedIn(credit, p) + RefundedIn(refund, p, {"COMPLETED"})
             <= HeldIn(alloc', p) + CreditedIn(credit', p) + RefundedIn(refund', p, {"COMPLETED"})
  PROVE  PaymentsOK' /\ NothingLost
<1>1. TypeOK /\ TypeOK' BY DEF MoneyInv, LedgerInv
<1>2. PaymentsOK'
  <2> SUFFICES ASSUME NEW q \in Payment
               PROVE  PaymentOK(payment'[q], HeldIn(alloc', q), CreditedIn(credit', q),
                        RefundedIn(refund', q, {"COMPLETED"}), RefundedIn(refund', q, Promise))
    BY DEF PaymentsOK
  <2>1. CASE q = p BY <2>1
  <2>2. CASE q # p BY <2>2 DEF MoneyInv, PaymentsOK
  <2> QED BY <2>1, <2>2
<1>3. NothingLost
  <2> SUFFICES ASSUME NEW q \in Payment, payment'[q].status # "VOIDED"
               PROVE  Claimed(q) <= Claimed(q)'
    BY DEF NothingLost
  <2>1. /\ Claimed(q) = HeldIn(alloc, q) + CreditedIn(credit, q) + RefundedIn(refund, q, {"COMPLETED"})
        /\ Claimed(q)' = HeldIn(alloc', q) + CreditedIn(credit', q) + RefundedIn(refund', q, {"COMPLETED"})
    BY <1>1, Totals, TotalsNext
  <2>2. Claimed(q) \in Nat BY <1>1, <2>1, TotalsNat
  <2>3. CASE q = p BY <2>1, <2>3
  <2>4. CASE q # p BY <2>1, <2>2, <2>4
  <2> QED BY <2>3, <2>4
<1> QED BY <1>2, <1>3

\* The credits of a payment as a set, in the invariant and after a step.
LEMMA SinglyLive ==
  ASSUME OneLiveCreditPerPayment
  PROVE  \A q \in Payment, c1, c2 \in Credit :
           /\ credit[c1].status = "LIVE" /\ credit[c1].source = FromPayment(q)
           /\ credit[c2].status = "LIVE" /\ credit[c2].source = FromPayment(q)
           => c1 = c2
BY DEF OneLiveCreditPerPayment, LiveOf

\* No credit becomes live and none changes hands: nothing that hangs on the live
\* credits of a payment is disturbed.
LEMMA FewerLive ==
  ASSUME OneLiveCreditPerPayment, FreshPayments,
         \A c \in Credit : credit'[c].status = "LIVE" =>
           credit[c].status = "LIVE" /\ credit'[c].source = credit[c].source,
         \A q \in Payment : payment'[q].status = "NONE" => payment[q].status = "NONE",
         \A q \in Payment : payment'[q].status = "NONE" => alloc'[q] = NoRows,
         refund' = refund
  PROVE  OneLiveCreditPerPayment' /\ FreshPayments'
<1>1. OneLiveCreditPerPayment'
  <2> SUFFICES ASSUME NEW q \in Payment, NEW c1 \in Credit, NEW c2 \in Credit,
                      credit'[c1].status = "LIVE", credit'[c1].source = FromPayment(q),
                      credit'[c2].status = "LIVE", credit'[c2].source = FromPayment(q)
               PROVE  c1 = c2
    BY DEF OneLiveCreditPerPayment, LiveOf
  <2> QED BY SinglyLive
<1>2. FreshPayments' BY DEF FreshPayments, NoRows
<1> QED BY <1>1, <1>2

---------------------------------------------------------------------------
(* What each handler does to the credits and to what refers to a payment.  *)
(* Nothing here rests on a balance: it holds beside overlapping reversals. *)

\* recordPayment writes of a payment nothing referred to.
LEMMA ReceiveCredits ==
  ASSUME LedgerInv, ConsumedIsApplied, OneLiveCreditPerPayment, FreshPayments,
         NEW p \in Payment, NEW gross \in Amount, NEW order \in [Installment -> Nat],
         NEW d \in [Installment -> Amount], Receive(p, gross, order, d)
  PROVE  ConsumedIsApplied' /\ OneLiveCreditPerPayment' /\ FreshPayments'
<1>1. TypeOK /\ CreditWithinAmount BY DEF LedgerInv
<1>2. payment[p].status = "NONE" /\ UNCHANGED <<refund, app>> BY DEF Receive, IsNext, Unused
<1>3. PICK overflow \in Amount : Mints(credit, overflow, FromPayment(p)) BY DEF Receive
<1>4. /\ alloc' = [alloc EXCEPT ![p] = d]
      /\ payment' = [payment EXCEPT ![p] =
                       [status |-> "RECEIVED", gross |-> gross, order |-> order]]
      /\ credit \in [Credit -> CreditRow] /\ payment \in [Payment -> PaymentRow]
  BY <1>1 DEF Receive, TypeOK
<1>5. ConsumedIsApplied'
  <2>1. SameMoney(credit) BY <1>1, UnchangedSame
  <2> QED BY <1>1, <1>2, <1>3, <2>1, MintedUnspent
<1>6. \A c \in Credit : credit[c].status = "LIVE" => credit[c].source # FromPayment(p)
  BY <1>2 DEF FreshPayments
<1>7. OneLiveCreditPerPayment'
  <2>1. \A q \in Payment, c1, c2 \in Credit :
          /\ credit[c1].status = "LIVE" /\ credit[c1].source = FromPayment(q)
          /\ credit[c2].status = "LIVE" /\ credit[c2].source = FromPayment(q)
          => c1 = c2
    BY SinglyLive
  <2>2. \A q \in Payment, c \in Credit :
          FromPayment(p) = FromPayment(q) /\ credit[c].status = "LIVE"
            => credit[c].source # FromPayment(q)
    BY <1>6
  <2> QED BY <1>3, <1>4, <2>1, <2>2, MintedSingly
<1>8. FreshPayments'
  <2> SUFFICES ASSUME NEW q \in Payment, payment'[q].status = "NONE"
               PROVE  /\ alloc'[q] = NoRows
                      /\ \A c \in Credit : credit'[c].status = "LIVE" => credit'[c].source # FromPayment(q)
                      /\ \A r \in Refund : refund'[r].status # "NONE" => refund'[r].payment # q
    BY DEF FreshPayments, NoRows
  <2>1. q # p /\ payment[q].status = "NONE" BY <1>4
  <2>2. alloc'[q] = alloc[q] BY <1>1, <1>4, <2>1 DEF TypeOK
  <2>3. FromPayment(p) # FromPayment(q) BY <2>1, SourcesDiffer
  <2>4. \A c \in Credit : credit[c].status = "LIVE" => credit[c].source # FromPayment(q)
    BY <2>1 DEF FreshPayments
  <2>5. \A c \in Credit : credit'[c].status = "LIVE" => credit'[c].source # FromPayment(q)
    BY <1>3, <1>4, <2>3, <2>4, MintedLive
  <2> QED BY <1>2, <2>1, <2>2, <2>5 DEF FreshPayments
<1> QED BY <1>5, <1>7, <1>8

\* applyCredit counts what it applies.
LEMMA SpendCredits ==
  ASSUME TypeOK, ConsumedIsApplied, OneLiveCreditPerPayment, FreshPayments,
         NEW c \in Credit, NEW d \in [Installment -> Amount], Spend(c, d)
  PROVE  ConsumedIsApplied' /\ OneLiveCreditPerPayment' /\ FreshPayments'
<1>1. UNCHANGED <<payment, alloc, refund>> BY DEF Spend
<1>2. d \in [Installment -> Nat] BY AmountNat
<1>3. PICK spent \in Amount :
        /\ spent = Sum(d)
        /\ credit' = [credit EXCEPT ![c].consumed = credit[c].consumed + spent]
  BY DEF Spend
<1>4. app' = [app EXCEPT ![c] = [i \in Installment |-> app[c][i] + d[i]]]
  BY DEF Spend, Applied
<1>5. \A x \in Credit : /\ credit'[x].status = credit[x].status
                        /\ credit'[x].source = credit[x].source
                        /\ x # c => credit'[x].consumed = credit[x].consumed
                        /\ credit'[c].consumed = credit[c].consumed + spent
  BY <1>3 DEF TypeOK, CreditRow
<1>6. app \in [Credit -> [Installment -> Nat]] BY DEF TypeOK
<1>7. ConsumedIsApplied'
  <2> SUFFICES ASSUME NEW x \in Credit PROVE credit'[x].consumed = Sum(app'[x])
    BY DEF ConsumedIsApplied
  <2>1. credit[x].consumed = Sum(app[x]) BY DEF ConsumedIsApplied
  <2>2. CASE x # c
    <3>1. app'[x] = app[x] BY <1>4, <1>6, <2>2
    <3> QED BY <1>5, <2>1, <2>2, <3>1
  <2>3. CASE x = c
    <3> DEFINE sum == [i \in Installment |-> app[c][i] + d[i]]
    <3>1. app'[c] = sum BY <1>4, <1>6
    <3>2. app[c] \in [Installment -> Nat] BY <1>6
    <3>3. \A i \in Installment :
            app[c][i] \in Int /\ d[i] \in Int /\ sum[i] = app[c][i] + d[i] /\ sum[i] \in Int
      BY <1>2, <3>2
    <3>4. Sum(sum) = SumFunctionOnSet(sum, Installment) BY <3>3, SumIs
    <3>5. Sum(app[c]) = SumFunctionOnSet(app[c], Installment) BY <3>2, SumIs
    <3>6. Sum(d) = SumFunctionOnSet(d, Installment) BY <1>2, SumIs
    <3> HIDE DEF sum
    <3>7. Sum(sum) = Sum(app[c]) + Sum(d) BY <3>3, <3>4, <3>5, <3>6, FiniteAssumption, SumPlus
    <3> QED BY <1>3, <1>5, <2>1, <2>3, <3>1, <3>7
  <2> QED BY <2>2, <2>3
<1>8. OneLiveCreditPerPayment' /\ FreshPayments'
  BY <1>1, <1>5, FewerLive DEF FreshPayments
<1> QED BY <1>7, <1>8

\* reverseCredit closes one.
LEMMA ReverseCreditCredits ==
  ASSUME TypeOK, ConsumedIsApplied, OneLiveCreditPerPayment, FreshPayments,
         NEW c \in Credit, ReverseCredit(c)
  PROVE  ConsumedIsApplied' /\ OneLiveCreditPerPayment' /\ FreshPayments'
<1>1. /\ UNCHANGED <<payment, alloc, refund, app>> /\ credit[c].status = "LIVE"
      /\ credit' = Reversed(credit, {c})
  BY DEF ReverseCredit
<1>2. SameMoney(credit')
  <2>1. \A x \in {c} : credit[x].status # "NONE" BY <1>1
  <2> QED BY <1>1, <2>1, ReversedSame
<1>3. ConsumedIsApplied' BY <1>1, <1>2 DEF ConsumedIsApplied, SameMoney
<1>4. OneLiveCreditPerPayment' /\ FreshPayments'
  <2>1. \A x \in Credit : credit'[x].status = "LIVE" =>
          credit[x].status = "LIVE" /\ credit'[x].source = credit[x].source
    BY <1>2 DEF SameMoney
  <2>2. \A q \in Payment : payment[q].status = "NONE" => alloc[q] = NoRows
    BY DEF FreshPayments
  <2> QED BY <1>1, <2>1, <2>2, FewerLive
<1> QED BY <1>3, <1>4

\* voidPayment closes those of its payment.
LEMMA VoidPaymentCredits ==
  ASSUME TypeOK, ConsumedIsApplied, OneLiveCreditPerPayment, FreshPayments,
         NEW p \in Payment, VoidPayment(p)
  PROVE  ConsumedIsApplied' /\ OneLiveCreditPerPayment' /\ FreshPayments'
<1>1. /\ payment[p].status = "RECEIVED" /\ UNCHANGED <<refund, app>>
      /\ alloc' = [alloc EXCEPT ![p] = NoRows]
      /\ payment' = [payment EXCEPT ![p].status = "VOIDED"]
      /\ credit' = Reversed(credit, LiveOf(p))
  BY DEF VoidPayment
<1>2. LiveOf(p) \in SUBSET Credit /\ \A c \in LiveOf(p) : credit[c].status # "NONE"
  BY DEF LiveOf
<1>3. SameMoney(credit') BY <1>1, <1>2, ReversedSame
<1>4. ConsumedIsApplied' BY <1>1, <1>3 DEF ConsumedIsApplied, SameMoney
<1>5. \A c \in Credit : credit'[c].status = "LIVE" =>
        credit[c].status = "LIVE" /\ credit'[c].source = credit[c].source
  BY <1>3 DEF SameMoney
<1>6. payment \in [Payment -> PaymentRow] BY DEF TypeOK
<1>7. \A q \in Payment : payment'[q].status = "NONE" => q # p /\ payment[q].status = "NONE"
  BY <1>1, <1>6 DEF PaymentRow
<1>8. \A q \in Payment : payment'[q].status = "NONE" => alloc'[q] = NoRows
  BY <1>1, <1>7 DEF FreshPayments, TypeOK
<1>9. OneLiveCreditPerPayment' /\ FreshPayments' BY <1>1, <1>5, <1>7, <1>8, FewerLive
<1> QED BY <1>4, <1>9

Taken(take) == {c \in Credit : take[c] > 0}

\* A refund that reverses the payment's live credits leaves it one at most: what is
\* left of them is credited anew only if there were any.
LEMMA ReplacesCredits ==
  ASSUME TypeOK, CreditWithinAmount, ConsumedIsApplied, OneLiveCreditPerPayment, app' = app,
         NEW p \in Payment, NEW r \in Refund, NEW take, NEW surplus,
         Taken(take) \in SUBSET Credit,
         \A c \in Taken(take) : credit[c].status = "LIVE" /\ credit[c].source = FromPayment(p),
         Replaces(take, p, r, surplus)
  PROVE  /\ ConsumedIsApplied' /\ OneLiveCreditPerPayment'
         /\ \A q \in Payment :
              /\ q # p
              /\ \A c \in Credit : credit[c].status = "LIVE" => credit[c].source # FromPayment(q)
              => \A c \in Credit : credit'[c].status = "LIVE" => credit'[c].source # FromPayment(q)
<1> DEFINE kept == Reversed(credit, Taken(take))
<1>1. \A c \in Taken(take) : credit[c].status # "NONE" OBVIOUS
<1>2. SameMoney(kept) BY <1>1, ReversedSame
<1>3. PICK rest \in Amount :
        \/ rest > 0 /\ Mints(kept, rest, FromPayment(p))
           /\ rest = SumFunctionOnSet([c \in Credit |-> credit[c].amount - take[c]], Taken(take))
        \/ Mints(kept, surplus, FromRefund(r))
  BY DEF Replaces, Taken
<1>4. \A c \in Taken(take) : kept[c].status = "REVERSED" BY DEF Reversed, TypeOK, CreditRow
<1> HIDE DEF kept
<1>5. ConsumedIsApplied' BY <1>2, <1>3, MintedUnspent
<1>6. \A q \in Payment, c1, c2 \in Credit :
          /\ kept[c1].status = "LIVE" /\ kept[c1].source = FromPayment(q)
          /\ kept[c2].status = "LIVE" /\ kept[c2].source = FromPayment(q)
          => c1 = c2
  <2>1. \A c \in Credit : kept[c].status = "LIVE" =>
          credit[c].status = "LIVE" /\ credit[c].source = kept[c].source
    BY <1>2 DEF SameMoney
  <2>2. \A q \in Payment, c1, c2 \in Credit :
          /\ credit[c1].status = "LIVE" /\ credit[c1].source = FromPayment(q)
          /\ credit[c2].status = "LIVE" /\ credit[c2].source = FromPayment(q)
          => c1 = c2
    BY SinglyLive
  <2> QED BY <2>1, <2>2
<1>7. OneLiveCreditPerPayment'
  <2>1. kept \in [Credit -> CreditRow] BY <1>2 DEF SameMoney
  <2>2. CASE rest > 0 /\ Mints(kept, rest, FromPayment(p))
             /\ rest = SumFunctionOnSet([c \in Credit |-> credit[c].amount - take[c]], Taken(take))
    <3>1. Taken(take) # {}
      <4> SUFFICES ASSUME Taken(take) = {} PROVE FALSE
        OBVIOUS
      <4>1. rest = 0 BY <2>2, SumEmpty
      <4> QED BY <2>2, <4>1
    <3>2. PICK x \in Credit : x \in Taken(take) BY <3>1
    <3>3. ASSUME NEW c \in Credit, kept[c].status = "LIVE", kept[c].source = FromPayment(p)
          PROVE  FALSE
      <4>1. credit[c].status = "LIVE" /\ credit[c].source = FromPayment(p)
        BY <1>2, <3>3 DEF SameMoney
      <4>2. credit[x].status = "LIVE" /\ credit[x].source = FromPayment(p) BY <3>2
      <4>3. c = x BY <4>1, <4>2, SinglyLive
      <4> QED BY <1>4, <3>2, <3>3, <4>3
    <3>4. \A q \in Payment, c \in Credit :
            FromPayment(p) = FromPayment(q) /\ kept[c].status = "LIVE"
              => kept[c].source # FromPayment(q)
      BY <3>3
    <3> QED BY <1>6, <2>1, <2>2, <3>4, MintedSingly
  <2>3. CASE Mints(kept, surplus, FromRefund(r))
    <3>1. \A q \in Payment, c \in Credit :
            FromRefund(r) = FromPayment(q) /\ kept[c].status = "LIVE"
              => kept[c].source # FromPayment(q)
      BY SourcesDiffer
    <3> QED BY <1>6, <2>1, <2>3, <3>1, MintedSingly
  <2> QED BY <1>3, <2>2, <2>3
<1>8. ASSUME NEW q \in Payment, q # p,
             \A c \in Credit : credit[c].status = "LIVE" => credit[c].source # FromPayment(q)
      PROVE  \A c \in Credit : credit'[c].status = "LIVE" => credit'[c].source # FromPayment(q)
  <2>1. FromPayment(p) # FromPayment(q) /\ FromRefund(r) # FromPayment(q)
    BY <1>8, SourcesDiffer
  <2>2. \A c \in Credit : kept[c].status = "LIVE" => kept[c].source # FromPayment(q)
    BY <1>2, <1>8 DEF SameMoney
  <2>3. kept \in [Credit -> CreditRow] BY <1>2 DEF SameMoney
  <2> QED BY <1>3, <2>1, <2>2, <2>3, MintedLive
<1> QED BY <1>5, <1>7, <1>8

---------------------------------------------------------------------------
(* What each handler does to the money.                                    *)

\* recordPayment: every unit received goes to a row or to the credit.
LEMMA ReceiveMoney ==
  ASSUME MoneyInv, LedgerInv', NEW p \in Payment, NEW gross \in Amount,
         NEW order \in [Installment -> Nat], NEW d \in [Installment -> Amount],
         Receive(p, gross, order, d)
  PROVE  MoneyInv' /\ NothingLost
<1>1. TypeOK /\ TypeOK' /\ PaidIsFunded BY DEF MoneyInv, LedgerInv
<1>2. payment[p].status = "NONE" /\ UNCHANGED <<refund, app>> BY DEF Receive, IsNext, Unused
<1>3. PICK overflow \in Amount :
        gross = Sum(d) + overflow /\ Mints(credit, overflow, FromPayment(p))
  BY DEF Receive
<1>4. d \in [Installment -> Nat] BY AmountNat
<1>5. /\ alloc' = [alloc EXCEPT ![p] = d]
      /\ payment' = [payment EXCEPT ![p] =
                       [status |-> "RECEIVED", gross |-> gross, order |-> order]]
  BY DEF Receive
<1>6. /\ credit \in [Credit -> CreditRow] /\ payment \in [Payment -> PaymentRow]
      /\ FromPayment(p) \in Source /\ overflow \in Nat /\ gross \in Nat
  BY <1>1, AmountNat DEF TypeOK, FromPayment, Source
<1>7. PaidIsFunded'
  <2>1. \A i \in Installment : alloc[p][i] = 0
    BY <1>2 DEF MoneyInv, FreshPayments, NoRows
  <2>2. /\ \A i \in Installment : alloc'[p][i] = d[i]
        /\ \A q \in Payment, i \in Installment : q # p => alloc'[q][i] = alloc[q][i]
    BY <1>1, <1>5 DEF TypeOK
  <2>3. ASSUME NEW i \in Installment
        PROVE  inst'[i].paid = inst[i].paid - alloc[p][i] + alloc'[p][i]
    <3>1. inst'[i].paid = inst[i].paid + d[i] BY <1>1, SettlePaid DEF Receive
    <3>2. inst[i].paid \in Nat BY <1>1 DEF TypeOK, InstallmentRow
    <3> QED BY <2>1, <2>2, <3>1, <3>2
  <2> QED BY <1>1, <1>2, <2>2, <2>3, TablesInt, TablesIntNext, FundedByPayment
<1>8. ConsumedIsApplied' /\ OneLiveCreditPerPayment' /\ FreshPayments'
  BY ReceiveCredits DEF MoneyInv
<1>12. RefundsPositive' BY <1>2 DEF MoneyInv, RefundsPositive
<1>13. /\ HeldIn(alloc', p) = Sum(d)
       /\ CreditedIn(credit', p) = CreditedIn(credit, p) + overflow
       /\ \A q \in Payment : q # p =>
            HeldIn(alloc', q) = HeldIn(alloc, q) /\ CreditedIn(credit', q) = CreditedIn(credit, q)
  <2>1. Sum(d) = SumFunctionOnSet(d, Installment) BY SumIs
  <2>2. \A q \in Payment :
          HeldIn(alloc', q) = IF q = p THEN SumFunctionOnSet(d, Installment) ELSE HeldIn(alloc, q)
    BY <1>1, <1>5, AllocWritten
  <2>3. \A q \in Payment :
          CreditedIn(credit', q)
            = CreditedIn(credit, q) + (IF FromPayment(p) = FromPayment(q) THEN overflow ELSE 0)
    BY <1>3, <1>6, CreditMinted
  <2>4. \A q \in Payment : CreditedIn(credit, q) \in Nat BY <1>1, TotalsNat
  <2>5. \A q \in Payment : q # p => FromPayment(p) # FromPayment(q) BY SourcesDiffer
  <2> QED BY <2>1, <2>2, <2>3, <2>4, <2>5
<1>14. /\ HeldIn(alloc, p) = 0 /\ CreditedIn(credit, p) = 0
       /\ RefundedIn(refund, p, {"COMPLETED"}) = 0 /\ RefundedIn(refund, p, Promise) = 0
  BY <1>2, FreshTotals DEF MoneyInv
<1>15. Sum(d) \in Nat
  <2>1. Sum(d) = SumFunctionOnSet(d, Installment) BY SumIs
  <2>2. \A i \in Installment : d[i] \in Nat BY <1>4
  <2> QED BY <2>1, <2>2, FiniteAssumption, SumNat
<1>16. PaymentsOK' /\ NothingLost
  <2>1. payment'[p].status = "RECEIVED" /\ payment'[p].gross = gross
        /\ \A q \in Payment : q # p => payment'[q] = payment[q]
    BY <1>5, <1>6
  <2>2. refund' = refund BY <1>2
  <2>3. PaymentOK(payment'[p], HeldIn(alloc', p), CreditedIn(credit', p),
                  RefundedIn(refund', p, {"COMPLETED"}), RefundedIn(refund', p, Promise))
    BY <1>3, <1>6, <1>13, <1>14, <1>15, <2>1, <2>2 DEF PaymentOK
  <2>4. HeldIn(alloc, p) + CreditedIn(credit, p) + RefundedIn(refund, p, {"COMPLETED"})
          <= HeldIn(alloc', p) + CreditedIn(credit', p) + RefundedIn(refund', p, {"COMPLETED"})
    BY <1>6, <1>13, <1>14, <1>15, <2>2
  <2> QED BY <1>13, <2>1, <2>2, <2>3, <2>4, OnePayment
<1> QED BY <1>7, <1>8, <1>12, <1>16 DEF MoneyInv

\* voidPayment takes all of the payment's money back.
LEMMA VoidPaymentMoney ==
  ASSUME MoneyInv, LedgerInv', NEW p \in Payment, VoidPayment(p)
  PROVE  MoneyInv' /\ NothingLost
<1>1. TypeOK /\ TypeOK' /\ PaidIsFunded BY DEF MoneyInv, LedgerInv
<1>2. payment[p].status = "RECEIVED" /\ UNCHANGED <<refund, app>> BY DEF VoidPayment
<1>3. /\ alloc' = [alloc EXCEPT ![p] = NoRows]
      /\ payment' = [payment EXCEPT ![p].status = "VOIDED"]
      /\ credit' = Reversed(credit, LiveOf(p))
      /\ inst' = [i \in Installment |->
                    IF alloc[p][i] > 0 THEN Voided(inst[i], alloc[p][i]) ELSE inst[i]]
  BY DEF VoidPayment
<1>4. /\ credit \in [Credit -> CreditRow] /\ payment \in [Payment -> PaymentRow]
      /\ LiveOf(p) \in SUBSET Credit /\ \A c \in LiveOf(p) : credit[c].status = "LIVE"
  BY <1>1 DEF TypeOK, LiveOf
<1>5. NoRows \in [Installment -> Nat] /\ \A i \in Installment : NoRows[i] = 0 BY DEF NoRows
<1>6. PaidIsFunded'
  <2>1. /\ \A i \in Installment : alloc'[p][i] = 0
        /\ \A q \in Payment, i \in Installment : q # p => alloc'[q][i] = alloc[q][i]
    BY <1>1, <1>3, <1>5 DEF TypeOK
  <2>2. ASSUME NEW i \in Installment
        PROVE  inst'[i].paid = inst[i].paid - alloc[p][i] + alloc'[p][i]
    <3>1. inst[i].paid \in Nat /\ alloc[p][i] \in Nat BY <1>1 DEF TypeOK, InstallmentRow
    <3>2. Voided(inst[i], alloc[p][i]).paid = inst[i].paid - alloc[p][i] BY DEF Voided, Row
    <3> QED BY <1>3, <2>1, <3>1, <3>2
  <2> QED BY <1>1, <1>2, <2>1, <2>2, TablesInt, TablesIntNext, FundedByPayment
<1>9. ConsumedIsApplied' /\ OneLiveCreditPerPayment' /\ FreshPayments'
  BY <1>1, VoidPaymentCredits DEF MoneyInv
<1>10. \A q \in Payment : HeldIn(alloc', q) = IF q = p THEN 0 ELSE HeldIn(alloc, q)
  <2>1. SumFunctionOnSet(NoRows, Installment) = 0 BY <1>5, FiniteAssumption, SumZero
  <2> QED BY <1>1, <1>3, <2>1, AllocWritten
<1>11. CreditedIn(credit', p) = 0
  <2>1. \A c \in Credit : CreditsOf(credit', p)[c] = 0
    BY <1>3, <1>4 DEF CreditsOf, Reversed, CreditRow, LiveOf
  <2> QED BY <2>1, FiniteAssumption, SumZero DEF CreditedIn
<1>12. ASSUME NEW q \in Payment, q # p PROVE CreditedIn(credit', q) = CreditedIn(credit, q)
  <2>1. FromPayment(q) # FromPayment(p) BY <1>12, SourcesDiffer
  <2>2. \A c \in LiveOf(p) : CreditsOf(credit, q)[c] = 0 BY <2>1 DEF CreditsOf, LiveOf
  <2>3. IsFiniteSet(LiveOf(p)) BY <1>4, FiniteAssumption, FS_Subset
  <2>4. SumFunctionOnSet(CreditsOf(credit, q), LiveOf(p)) = 0 BY <2>2, <2>3, SumZero
  <2>5. CreditedIn(credit, q) \in Nat BY <1>4, CreditedNat
  <2>6. CreditedIn(credit', q)
          = CreditedIn(credit, q) - SumFunctionOnSet(CreditsOf(credit, q), LiveOf(p))
    BY <1>3, <1>4, CreditsReversed
  <2> QED BY <2>4, <2>5, <2>6
<1>13. /\ payment'[p].status = "VOIDED" /\ payment'[p].gross = payment[p].gross
       /\ \A q \in Payment : q # p => payment'[q] = payment[q]
  BY <1>3, <1>4 DEF PaymentRow
<1>14. PaymentsOK' /\ NothingLost
  <2>1. /\ RefundedIn(refund, p, {"COMPLETED"}) = 0
        /\ RefundedIn(refund, p, Promise) <= payment[p].gross
    BY <1>2 DEF MoneyInv, PaymentsOK, PaymentOK
  <2>2. payment[p].gross \in Nat BY <1>1, TotalsNat
  <2>3. PaymentOK(payment'[p], HeldIn(alloc', p), CreditedIn(credit', p),
                  RefundedIn(refund, p, {"COMPLETED"}), RefundedIn(refund, p, Promise))
    BY <1>10, <1>11, <1>13, <2>1, <2>2 DEF PaymentOK
  <2> QED BY <1>2, <1>10, <1>12, <1>13, <2>3, OnePayment
<1> QED BY <1>2, <1>6, <1>9, <1>14 DEF MoneyInv, RefundsPositive

\* A handler that writes one refund and nothing else.
LEMMA RefundOnly ==
  ASSUME MoneyInv, LedgerInv', UNCHANGED <<inst, payment, alloc, credit, app>>,
         NEW r \in Refund, NEW row \in RefundRow, refund' = [refund EXCEPT ![r] = row],
         row.amount > 0, row.payment \in Payment, payment[row.payment].status # "NONE",
         row.status \in {"PENDING", "FAILED"},
         refund[r].status # "NONE" => refund[r].payment = row.payment,
         refund[r].status # "COMPLETED",
         RefundedIn(refund', row.payment, Promise) <= payment[row.payment].gross
  PROVE  MoneyInv' /\ NothingLost
<1> DEFINE p == row.payment
<1>1. TypeOK /\ TypeOK' BY DEF MoneyInv, LedgerInv
<1>2. refund \in [Refund -> RefundRow] BY <1>1 DEF TypeOK
<1>3. \A x \in Refund : x # r => refund'[x] = refund[x] BY <1>2
<1>4. refund'[r] = row BY <1>2
<1>5. PaidIsFunded' BY DEF MoneyInv, PaidIsFunded
<1>6. ConsumedIsApplied' BY DEF MoneyInv, ConsumedIsApplied
<1>7. OneLiveCreditPerPayment' BY DEF MoneyInv, OneLiveCreditPerPayment, LiveOf
<1>8. RefundsPositive' BY <1>3, <1>4 DEF MoneyInv, RefundsPositive
<1>9. FreshPayments'
  <2> SUFFICES ASSUME NEW q \in Payment, payment[q].status = "NONE",
                      NEW x \in Refund, refund'[x].status # "NONE"
               PROVE  refund'[x].payment # q
    BY DEF MoneyInv, FreshPayments, NoRows
  <2> QED BY <1>3, <1>4 DEF MoneyInv, FreshPayments
<1>10. \A q : RefundedIn(refund', q, {"COMPLETED"}) = RefundedIn(refund, q, {"COMPLETED"})
  <2> SUFFICES ASSUME NEW q
               PROVE  RefundedIn(refund', q, {"COMPLETED"}) = RefundedIn(refund, q, {"COMPLETED"})
    OBVIOUS
  <2>1. Counts(refund[r], q, {"COMPLETED"}) = 0 /\ Counts(row, q, {"COMPLETED"}) = 0
    BY DEF Counts
  <2>2. TypeOK BY <1>1
  <2>3. /\ RefundedIn(refund', q, {"COMPLETED"})
             = RefundedIn(refund, q, {"COMPLETED"}) - Counts(refund[r], q, {"COMPLETED"})
                 + Counts(row, q, {"COMPLETED"})
        /\ RefundedIn(refund, q, {"COMPLETED"}) \in Nat
    BY <2>2, RefundWritten, Zenon
  <2> QED BY <2>1, <2>3
<1>11. \A q : q # p => RefundedIn(refund', q, Promise) = RefundedIn(refund, q, Promise)
  <2> SUFFICES ASSUME NEW q, q # p
               PROVE  RefundedIn(refund', q, Promise) = RefundedIn(refund, q, Promise)
    OBVIOUS
  <2>1. Counts(refund[r], q, Promise) = 0 /\ Counts(row, q, Promise) = 0
    BY DEF Counts, Promise
  <2>2. TypeOK BY <1>1
  <2>3. /\ RefundedIn(refund', q, Promise)
             = RefundedIn(refund, q, Promise) - Counts(refund[r], q, Promise)
                 + Counts(row, q, Promise)
        /\ RefundedIn(refund, q, Promise) \in Nat
    BY <2>2, RefundWritten, Zenon
  <2> QED BY <2>1, <2>3
<1>12. PaymentOK(payment[p], HeldIn(alloc, p), CreditedIn(credit, p),
                 RefundedIn(refund', p, {"COMPLETED"}), RefundedIn(refund', p, Promise))
  BY <1>10 DEF MoneyInv, PaymentsOK, PaymentOK
<1>13. PaymentsOK' /\ NothingLost
  <2>1. /\ HeldIn(alloc, p) \in Nat /\ CreditedIn(credit, p) \in Nat
        /\ RefundedIn(refund, p, {"COMPLETED"}) \in Nat
    BY <1>1, TotalsNat
  <2> HIDE DEF p
  <2>2. RefundedIn(refund', p, {"COMPLETED"}) = RefundedIn(refund, p, {"COMPLETED"}) BY <1>10
  <2>3. HeldIn(alloc, p) + CreditedIn(credit, p) + RefundedIn(refund, p, {"COMPLETED"})
          <= HeldIn(alloc, p) + CreditedIn(credit, p) + RefundedIn(refund', p, {"COMPLETED"})
    BY <2>1, <2>2
  <2> QED BY <1>10, <1>11, <1>12, <2>3, OnePayment DEF p
<1> QED BY <1>5, <1>6, <1>7, <1>8, <1>9, <1>13 DEF MoneyInv

\* createRefund promises no more than is left of the payment.
LEMMA CreateRefundMoney ==
  ASSUME MoneyInv, LedgerInv', NEW r \in Refund, NEW p \in Payment, NEW amount \in Amount,
         CreateRefund(r, p, amount)
  PROVE  MoneyInv' /\ NothingLost
<1> DEFINE row == [status |-> "PENDING", payment |-> p, amount |-> amount]
<1>1. TypeOK BY DEF MoneyInv, LedgerInv
<1>2. /\ UNCHANGED <<inst, payment, alloc, credit, app>> /\ refund' = [refund EXCEPT ![r] = row]
      /\ refund[r].status = "NONE" /\ payment[p].status # "NONE" /\ amount > 0
      /\ RefundsOf(p, {"PENDING", "COMPLETED"}) + amount <= payment[p].gross
  BY DEF CreateRefund, IsNext, Unused
<1>3. row \in RefundRow BY AmountNat DEF RefundRow, RefundStatus
<1>4. row.amount = amount /\ row.payment = p /\ row.status = "PENDING" OBVIOUS
<1> HIDE DEF row
<1>5. RefundedIn(refund', p, Promise) <= payment[p].gross
  <2>1. RefundsOf(p, {"PENDING", "COMPLETED"}) = RefundedIn(refund, p, Promise)
    BY <1>1, Totals DEF Promise
  <2>2. Counts(refund[r], p, Promise) = 0 BY <1>2 DEF Counts, Promise
  <2>3. Counts(row, p, Promise) = amount BY <1>4 DEF Counts, Promise
  <2>4. /\ RefundedIn(refund', p, Promise)
             = RefundedIn(refund, p, Promise) - Counts(refund[r], p, Promise)
                 + Counts(row, p, Promise)
        /\ RefundedIn(refund, p, Promise) \in Nat
    BY <1>1, <1>2, <1>3, RefundWritten, Zenon
  <2> QED BY <1>2, <2>1, <2>2, <2>3, <2>4, AmountNat
<1> QED BY <1>2, <1>3, <1>4, <1>5, RefundOnly

\* A failed refund was never given back.
LEMMA MarkRefundFailedMoney ==
  ASSUME MoneyInv, LedgerInv', NEW r \in Refund, MarkRefundFailed(r)
  PROVE  MoneyInv' /\ NothingLost
<1> DEFINE row == [refund[r] EXCEPT !.status = "FAILED"]
           p == refund[r].payment
<1>1. TypeOK BY DEF MoneyInv, LedgerInv
<1>2. /\ UNCHANGED <<inst, payment, alloc, credit, app>> /\ refund[r].status = "PENDING"
      /\ refund' = [refund EXCEPT ![r] = row]
  BY DEF MarkRefundFailed
<1>3. refund[r] \in RefundRow BY <1>1 DEF TypeOK
<1>4. /\ row \in RefundRow /\ row.amount = refund[r].amount /\ row.payment = p
      /\ row.status = "FAILED"
  BY <1>3 DEF RefundRow, RefundStatus
<1>5. p \in Payment BY <1>1, <1>2 DEF TypeOK
<1>6. refund[r].amount > 0 BY <1>2 DEF MoneyInv, RefundsPositive
<1>7. payment[p].status # "NONE" BY <1>2, <1>5 DEF MoneyInv, FreshPayments
<1> HIDE DEF row
<1>8. RefundedIn(refund', p, Promise) <= payment[p].gross
  <2>1. RefundedIn(refund, p, Promise) <= payment[p].gross
    BY <1>5 DEF MoneyInv, PaymentsOK, PaymentOK
  <2>2. Counts(row, p, Promise) = 0 BY <1>4 DEF Counts, Promise
  <2> HIDE DEF p
  <2>3. /\ RefundedIn(refund', p, Promise)
             = RefundedIn(refund, p, Promise) - Counts(refund[r], p, Promise)
                 + Counts(row, p, Promise)
        /\ RefundedIn(refund, p, Promise) \in Nat /\ Counts(refund[r], p, Promise) \in Nat
    BY <1>1, <1>2, <1>4, RefundWritten, Zenon
  <2>4. payment[p].gross \in Nat BY <1>1, <1>5, TotalsNat
  <2> QED BY <2>1, <2>2, <2>3, <2>4
<1> QED BY <1>2, <1>4, <1>5, <1>6, <1>7, <1>8, RefundOnly

\* applyCredit moves money from a credit to rows.
LEMMA SpendMoney ==
  ASSUME MoneyInv, LedgerInv', NEW c \in Credit, NEW d \in [Installment -> Amount], Spend(c, d)
  PROVE  MoneyInv' /\ NothingLost
<1>1. TypeOK /\ TypeOK' /\ PaidIsFunded BY DEF MoneyInv, LedgerInv
<1>2. UNCHANGED <<payment, alloc, refund>> BY DEF Spend
<1>3. d \in [Installment -> Nat] BY AmountNat
<1>4. PICK spent \in Amount :
        /\ spent = Sum(d)
        /\ credit' = [credit EXCEPT ![c].consumed = credit[c].consumed + spent]
  BY DEF Spend
<1>5. app' = [app EXCEPT ![c] = [i \in Installment |-> app[c][i] + d[i]]]
  BY DEF Spend, Applied
<1>6. /\ credit \in [Credit -> CreditRow] /\ credit' \in [Credit -> CreditRow]
      /\ app \in [Credit -> [Installment -> Nat]]
  BY <1>1 DEF TypeOK
<1>7. PaidIsFunded'
  <2>1. \A i \in Installment : inst'[i].paid = inst[i].paid + d[i]
    BY <1>1, SettlePaid DEF Spend
  <2>2. /\ \A i \in Installment : app'[c][i] = app[c][i] + d[i]
        /\ \A x \in Credit, i \in Installment : x # c => app'[x][i] = app[x][i]
    BY <1>5, <1>6
  <2>3. ASSUME NEW i \in Installment
        PROVE  inst'[i].paid = inst[i].paid - app[c][i] + app'[c][i]
    <3>1. inst[i].paid \in Nat /\ app[c][i] \in Nat BY <1>1 DEF TypeOK, InstallmentRow
    <3>2. d[i] \in Int BY <1>3
    <3> QED BY <2>1, <2>2, <3>1, <3>2
  <2> QED BY <1>1, <1>2, <2>2, <2>3, TablesInt, TablesIntNext, FundedByCredit
<1>8. \A x \in Credit : /\ credit'[x].status = credit[x].status
                        /\ credit'[x].source = credit[x].source
                        /\ credit'[x].amount = credit[x].amount
  BY <1>4, <1>6 DEF CreditRow
<1>9. RefundsPositive' BY <1>2 DEF MoneyInv, RefundsPositive
<1>10. ConsumedIsApplied' /\ OneLiveCreditPerPayment' /\ FreshPayments'
  BY <1>1, SpendCredits DEF MoneyInv
<1>12. \A q : CreditedIn(credit', q) = CreditedIn(credit, q)
  <2> SUFFICES ASSUME NEW q PROVE CreditedIn(credit', q) = CreditedIn(credit, q)
    OBVIOUS
  <2>1. CreditsOf(credit', q) = CreditsOf(credit, q) BY <1>8 DEF CreditsOf
  <2> QED BY <2>1 DEF CreditedIn
<1>13. PaymentsOK' BY <1>2, <1>12 DEF MoneyInv, PaymentsOK
<1>14. NothingLost
  <2> SUFFICES ASSUME NEW q \in Payment PROVE Claimed(q) <= Claimed(q)'
    BY DEF NothingLost
  <2>1. Claimed(q)' = Claimed(q) BY <1>1, <1>2, <1>12, Totals, TotalsNext
  <2>2. Claimed(q) \in Nat BY <1>1, Totals, TotalsNat
  <2> QED BY <2>1, <2>2
<1> QED BY <1>7, <1>9, <1>10, <1>13, <1>14 DEF MoneyInv

\* A payment some of whose credit is gone is still in order.
LEMMA LessCredited ==
  ASSUME NEW row, row.gross \in Nat, NEW held \in Nat, NEW credited \in Nat, NEW less \in Nat,
         NEW back \in Nat, NEW promised, PaymentOK(row, held, credited, back, promised),
         less <= credited
  PROVE  PaymentOK(row, held, less, back, promised)
BY DEF PaymentOK

\* reverseCredit is the one handler that takes money of a standing payment out of
\* the books.
LEMMA ReverseCreditMoney ==
  ASSUME MoneyInv, LedgerInv', NEW c \in Credit, ReverseCredit(c)
  PROVE  MoneyInv'
<1>1. TypeOK /\ TypeOK' BY DEF MoneyInv, LedgerInv
<1>2. /\ UNCHANGED <<inst, payment, alloc, refund, app>> /\ credit[c].status = "LIVE"
      /\ credit' = Reversed(credit, {c})
  BY DEF ReverseCredit
<1>3. credit \in [Credit -> CreditRow] BY <1>1 DEF TypeOK
<1>4. SameMoney(credit')
  <2>1. \A x \in {c} : credit[x].status # "NONE" BY <1>2
  <2> QED BY <1>1, <1>2, <2>1, ReversedSame
<1>5. PaidIsFunded' BY <1>2 DEF MoneyInv, PaidIsFunded
<1>6. RefundsPositive' BY <1>2 DEF MoneyInv, RefundsPositive
<1>7. ConsumedIsApplied' /\ OneLiveCreditPerPayment' /\ FreshPayments'
  BY <1>1, ReverseCreditCredits DEF MoneyInv
<1>8. PaymentsOK'
  <2> SUFFICES ASSUME NEW q \in Payment
               PROVE  PaymentOK(payment[q], HeldIn(alloc, q), CreditedIn(credit', q),
                        RefundedIn(refund, q, {"COMPLETED"}), RefundedIn(refund, q, Promise))
    BY <1>2 DEF PaymentsOK
  <2>1. CreditedIn(credit', q) <= CreditedIn(credit, q)
    <3>1. \A x \in Credit : /\ CreditsOf(credit', q)[x] \in Int /\ CreditsOf(credit, q)[x] \in Int
                            /\ CreditsOf(credit', q)[x] <= CreditsOf(credit, q)[x]
      <4>1. credit' \in [Credit -> CreditRow] BY <1>4 DEF SameMoney
      <4>2. \A x \in Credit : credit[x].amount \in Nat BY <1>3 DEF CreditRow
      <4>3. \A x \in Credit : CreditsOf(credit', q)[x] = CreditsOf(credit, q)[x]
                              \/ CreditsOf(credit', q)[x] = 0
        BY <1>4 DEF CreditsOf, SameMoney
      <4>4. \A x \in Credit : CreditsOf(credit, q)[x] \in Nat BY <1>3, CreditsOfNat
      <4> QED BY <4>3, <4>4
    <3> QED BY <3>1, FiniteAssumption, SumLeq DEF CreditedIn
  <2>2. CreditedIn(credit', q) \in Nat BY <1>4, CreditedNat DEF SameMoney
  <2>3. /\ HeldIn(alloc, q) \in Nat /\ CreditedIn(credit, q) \in Nat
        /\ RefundedIn(refund, q, {"COMPLETED"}) \in Nat /\ payment[q].gross \in Nat
    BY <1>1, TotalsNat
  <2>4. PaymentOK(payment[q], HeldIn(alloc, q), CreditedIn(credit, q),
                  RefundedIn(refund, q, {"COMPLETED"}), RefundedIn(refund, q, Promise))
    BY DEF MoneyInv, PaymentsOK
  <2> QED BY <2>1, <2>2, <2>3, <2>4, LessCredited
<1> QED BY <1>5, <1>6, <1>7, <1>8 DEF MoneyInv

---------------------------------------------------------------------------
(* completeRefund.                                                         *)

\* What is taken comes from live credits of the payment, unspent ones.
LEMMA TakenLive ==
  ASSUME TypeOK, NEW p \in Payment, NEW take \in [Credit -> Amount], NEW cap,
         Retires(take, LiveOf(p), cap)
  PROVE  /\ Taken(take) \in SUBSET Credit
         /\ \A c \in Taken(take) : credit[c].status = "LIVE" /\ credit[c].source = FromPayment(p)
         /\ \A c \in Credit : take[c] \in Nat /\ (c \notin Taken(take) => take[c] = 0)
<1>1. \A c \in Credit : take[c] \in Nat BY AmountNat
<1>2. \A c \in Credit \ LiveOf(p) : take[c] = 0 BY DEF Retires
<1> QED BY <1>1, <1>2 DEF Taken, LiveOf

\* The credits that are reversed held what is taken and what is left.
LEMMA TakenHeld ==
  ASSUME TypeOK, NEW p \in Payment, NEW take \in [Credit -> Amount], NEW cap,
         Retires(take, LiveOf(p), cap), NEW left,
         left = SumFunctionOnSet([c \in Credit |-> credit[c].amount - take[c]], Taken(take))
  PROVE  /\ Sum(take) \in Nat
         /\ left \in Int
         /\ SumFunctionOnSet(CreditsOf(credit, p), Taken(take)) = left + Sum(take)
<1> DEFINE T == Taken(take)
           rest == [c \in Credit |-> credit[c].amount - take[c]]
           all == CreditsOf(credit, p)
<1>1. /\ T \in SUBSET Credit
      /\ \A c \in T : credit[c].status = "LIVE" /\ credit[c].source = FromPayment(p)
      /\ \A c \in Credit : take[c] \in Nat /\ (c \notin T => take[c] = 0)
  BY TakenLive
<1>2. IsFiniteSet(T) /\ IsFiniteSet(Credit) BY <1>1, FiniteAssumption, FS_Subset
<1>3. \A c \in Credit : credit[c].amount \in Nat BY DEF TypeOK, CreditRow
<1>4. \A c \in T : rest[c] \in Int /\ take[c] \in Int /\ all[c] = rest[c] + take[c]
  BY <1>1, <1>3 DEF CreditsOf
<1>5. Sum(take) = SumFunctionOnSet(take, Credit) BY SumIs
<1> HIDE DEF T, rest, all
<1>6. SumFunctionOnSet(all, T) = SumFunctionOnSet(rest, T) + SumFunctionOnSet(take, T)
  BY <1>2, <1>4, SumPlus
<1>7. SumFunctionOnSet(take, Credit) = SumFunctionOnSet(take, T)
  <2>1. \A c \in T : take[c] \in Int /\ take[c] = take[c] BY <1>4
  <2>2. \A c \in Credit \ T : take[c] = 0 BY <1>1
  <2> QED BY <1>1, <1>2, <2>1, <2>2, SumWithin
<1>8. SumFunctionOnSet(take, Credit) \in Nat BY <1>1, <1>2, SumNat
<1>9. SumFunctionOnSet(rest, T) \in Int BY <1>2, <1>4, SumInt
<1>10. left = SumFunctionOnSet(rest, T) BY DEF rest, T
<1> QED BY <1>5, <1>6, <1>7, <1>8, <1>9, <1>10 DEF all, T

\* The credits of the payment lose what was taken, those of the others nothing.
LEMMA ReplacedTotals ==
  ASSUME TypeOK, NEW p \in Payment, NEW r \in Refund, NEW take \in [Credit -> Amount], NEW cap,
         Retires(take, LiveOf(p), cap), NEW surplus \in Amount, Replaces(take, p, r, surplus)
  PROVE  /\ Sum(take) \in Nat
         /\ CreditedIn(credit', p) = CreditedIn(credit, p) - Sum(take)
         /\ \A q \in Payment : q # p => CreditedIn(credit', q) = CreditedIn(credit, q)
<1> DEFINE T == Taken(take)
           kept == Reversed(credit, T)
<1>1. PICK left \in Amount :
        /\ left = SumFunctionOnSet([c \in Credit |-> credit[c].amount - take[c]], T)
        /\ IF left > 0 THEN Mints(kept, left, FromPayment(p)) ELSE Mints(kept, surplus, FromRefund(r))
  BY DEF Replaces, Taken
<1>2. /\ T \in SUBSET Credit
      /\ \A c \in T : credit[c].status = "LIVE" /\ credit[c].source = FromPayment(p)
  BY TakenLive
<1>3. /\ Sum(take) \in Nat
      /\ SumFunctionOnSet(CreditsOf(credit, p), T) = left + Sum(take)
  BY <1>1, TakenHeld
<1>4. /\ credit \in [Credit -> CreditRow] /\ left \in Nat /\ surplus \in Nat
      /\ FromPayment(p) \in Source /\ FromRefund(r) \in Source
  BY AmountNat DEF TypeOK, Source, FromPayment, FromRefund
<1> HIDE DEF T
<1>5. /\ kept \in [Credit -> CreditRow]
      /\ \A q : CreditedIn(kept, q)
                  = CreditedIn(credit, q) - SumFunctionOnSet(CreditsOf(credit, q), T)
  BY <1>2, <1>4, CreditsReversed
<1> HIDE DEF kept
<1>6. \A q : /\ CreditedIn(kept, q) \in Nat /\ CreditedIn(credit, q) \in Nat
  BY <1>4, <1>5, CreditedNat
<1>7. CreditedIn(credit', p) = CreditedIn(kept, p) + left
  <2>1. CASE left > 0
    <3>1. Mints(kept, left, FromPayment(p)) BY <1>1, <2>1
    <3>2. CreditedIn(credit', p)
            = CreditedIn(kept, p) + (IF FromPayment(p) = FromPayment(p) THEN left ELSE 0)
      BY <1>4, <1>5, <3>1, CreditMinted
    <3> QED BY <3>2
  <2>2. CASE ~(left > 0)
    <3>1. Mints(kept, surplus, FromRefund(r)) BY <1>1, <2>2
    <3>2. CreditedIn(credit', p)
            = CreditedIn(kept, p) + (IF FromRefund(r) = FromPayment(p) THEN surplus ELSE 0)
      BY <1>4, <1>5, <3>1, CreditMinted
    <3>3. FromRefund(r) # FromPayment(p) BY SourcesDiffer
    <3>4. left = 0 BY <1>4, <2>2
    <3> QED BY <3>2, <3>3, <3>4
  <2> QED BY <2>1, <2>2
<1>8. ASSUME NEW q \in Payment, q # p PROVE CreditedIn(credit', q) = CreditedIn(credit, q)
  <2>1. FromPayment(p) # FromPayment(q) /\ FromRefund(r) # FromPayment(q)
    BY <1>8, SourcesDiffer
  <2>2. CreditedIn(credit', q) = CreditedIn(kept, q)
    <3>1. CASE left > 0
      <4>1. Mints(kept, left, FromPayment(p)) BY <1>1, <3>1
      <4>2. CreditedIn(credit', q)
              = CreditedIn(kept, q) + (IF FromPayment(p) = FromPayment(q) THEN left ELSE 0)
        BY <1>4, <1>5, <4>1, CreditMinted
      <4> QED BY <1>6, <2>1, <4>2
    <3>2. CASE ~(left > 0)
      <4>1. Mints(kept, surplus, FromRefund(r)) BY <1>1, <3>2
      <4>2. CreditedIn(credit', q)
              = CreditedIn(kept, q) + (IF FromRefund(r) = FromPayment(q) THEN surplus ELSE 0)
        BY <1>4, <1>5, <4>1, CreditMinted
      <4> QED BY <1>6, <2>1, <4>2
    <3> QED BY <3>1, <3>2
  <2>3. SumFunctionOnSet(CreditsOf(credit, q), T) = 0
    <3>1. \A c \in T : CreditsOf(credit, q)[c] = 0 BY <1>2, <2>1 DEF CreditsOf
    <3>2. IsFiniteSet(T) BY <1>2, FiniteAssumption, FS_Subset
    <3> QED BY <3>1, <3>2, SumZero
  <2> QED BY <1>5, <1>6, <2>2, <2>3
<1>9. CreditedIn(credit', p) = CreditedIn(credit, p) - Sum(take)
  <2>1. CreditedIn(kept, p) = CreditedIn(credit, p) - SumFunctionOnSet(CreditsOf(credit, p), T)
    BY <1>5
  <2> QED BY <1>3, <1>4, <1>6, <1>7, <2>1
<1> QED BY <1>3, <1>8, <1>9

\* When the credits do not cover the refund, all of them were taken in full.
LEMMA AllTaken ==
  ASSUME TypeOK, NEW p \in Payment, NEW take \in [Credit -> Amount], NEW cap \in Nat,
         Retires(take, LiveOf(p), cap), Sum(take) < cap
  PROVE  CreditedIn(credit, p) = Sum(take)
<1>1. /\ credit \in [Credit -> CreditRow] /\ \A c \in Credit : take[c] \in Nat
      /\ Sum(take) = SumFunctionOnSet(take, Credit)
  BY AmountNat, SumIs DEF TypeOK
<1>2. SumFunctionOnSet(take, Credit) \in Nat BY <1>1, FiniteAssumption, SumNat
<1>3. ASSUME NEW c \in Credit PROVE take[c] = CreditsOf(credit, p)[c]
  <2>1. CASE c \in LiveOf(p)
    <3>1. credit[c].consumed = 0
      <4> SUFFICES ASSUME credit[c].consumed # 0 PROVE FALSE
        OBVIOUS
      <4>1. credit[c].consumed > 0 BY <1>1 DEF CreditRow
      <4>2. cap <= SumFunctionOnSet(take, {x \in Credit : x < c}) BY <2>1, <4>1 DEF Retires
      <4>3. SumFunctionOnSet(take, {x \in Credit : x < c}) <= SumFunctionOnSet(take, Credit)
        <5>1. {x \in Credit : x < c} \in SUBSET Credit OBVIOUS
        <5> QED BY <1>1, <5>1, FiniteAssumption, SumPart
      <4>4. SumFunctionOnSet(take, {x \in Credit : x < c}) \in Nat
        <5>1. IsFiniteSet({x \in Credit : x < c}) BY FiniteAssumption, FS_Subset
        <5>2. \A x \in {x \in Credit : x < c} : take[x] \in Nat BY <1>1
        <5> QED BY <5>1, <5>2, SumNat
      <4> QED BY <1>1, <1>2, <4>2, <4>3, <4>4
    <3>2. take[c] = Available(c)
      <4> DEFINE room == [x \in Credit |-> IF x \in LiveOf(p) THEN Available(x) ELSE 0]
      <4>1. room[c] = Available(c) /\ c \in DOMAIN room BY <2>1
      <4>2. take[c] <= room[c] /\ (take[c] < room[c] => Sum(take) = cap)
        BY <4>1 DEF Retires, Waterfall
      <4>3. Available(c) \in Int BY <1>1 DEF Available, CreditRow
      <4>4. ~(take[c] < room[c])
        <5>1. Sum(take) # cap BY <1>1, <1>2
        <5> QED BY <4>2, <5>1
      <4> QED BY <1>1, <4>1, <4>2, <4>3, <4>4
    <3>3. credit[c].amount \in Nat BY <1>1 DEF CreditRow
    <3> QED BY <2>1, <3>1, <3>2, <3>3 DEF Available, CreditsOf, LiveOf
  <2>2. CASE c \notin LiveOf(p)
    BY <2>2 DEF Retires, CreditsOf, LiveOf
  <2> QED BY <2>1, <2>2
<1>4. SumFunctionOnSet(take, Credit) = SumFunctionOnSet(CreditsOf(credit, p), Credit)
  BY <1>3, FiniteAssumption, SumAgree
<1> QED BY <1>1, <1>4 DEF CreditedIn

\* The numbers of a payment after a refund of it was completed.
LEMMA RefundedOK ==
  ASSUME NEW row, NEW gross \in Nat, row.gross = gross,
         NEW held \in Nat, NEW credited \in Nat, NEW back \in Nat, NEW promised \in Nat,
         NEW amount \in Nat, amount > 0,
         held + credited + back <= gross, back <= promised, promised <= gross, amount <= back,
         row.status = IF back >= gross THEN "REFUNDED" ELSE "PARTIALLY_REFUNDED"
  PROVE  PaymentOK(row, held, credited, back, promised)
<1>1. CASE back >= gross
  <2>1. row.status = "REFUNDED" /\ back = gross BY <1>1
  <2> QED BY <2>1 DEF PaymentOK
<1>2. CASE ~(back >= gross)
  <2>1. row.status = "PARTIALLY_REFUNDED" /\ back < gross /\ 0 < back BY <1>2
  <2> QED BY <2>1 DEF PaymentOK
<1> QED BY <1>1, <1>2

\* completeRefund gives back what it takes from credits, rows and what is unclaimed.
LEMMA CompleteRefundMoney ==
  ASSUME MoneyInv, LedgerInv', NEW r \in Refund, NEW carry \in BOOLEAN, CompleteRefund(r, carry)
  PROVE  MoneyInv' /\ NothingLost
<1> DEFINE p == refund[r].payment
           amount == refund[r].amount
           row == [refund[r] EXCEPT !.status = "COMPLETED"]
<1>1. TypeOK /\ TypeOK' /\ PaidIsFunded BY DEF MoneyInv, LedgerInv
<1>2. /\ refund[r].status = "PENDING" /\ UNCHANGED app
      /\ payment' = [payment EXCEPT ![p].status = AfterRefund(p, amount)]
      /\ refund' = [refund EXCEPT ![r] = row]
      /\ Permits(PaymentEdge, payment[p].status, AfterRefund(p, amount))
  BY DEF CompleteRefund
<1>3. /\ refund[r] \in RefundRow /\ p \in Payment /\ amount \in Nat /\ amount > 0
      /\ refund \in [Refund -> RefundRow]
  BY <1>1, <1>2 DEF TypeOK, RefundRow, MoneyInv, RefundsPositive
<1>4. row \in RefundRow /\ row.status = "COMPLETED" /\ row.amount = amount /\ row.payment = p
  BY <1>3 DEF RefundRow, RefundStatus
<1>5. payment[p].status # "NONE" BY <1>2, <1>3 DEF MoneyInv, FreshPayments
<1>6. PICK take \in [Credit -> Amount], d \in [Installment -> Amount], surplus \in Amount :
        /\ Retires(take, LiveOf(p), amount)
        /\ Waterfall(d, amount - Sum(take), alloc[p], NewestFirst(p))
        /\ inst' = [i \in Installment |-> IF d[i] > 0 THEN Unwound(inst[i], d[i]) ELSE inst[i]]
        /\ alloc' = [alloc EXCEPT ![p] = [i \in Installment |-> alloc[p][i] - d[i]]]
        /\ surplus = amount - Sum(take) - Sum(d)
        /\ Replaces(take, p, r, surplus)
  BY DEF CompleteRefund
<1> DEFINE left == [i \in Installment |-> alloc[p][i] - d[i]]
<1>7. alloc' = [alloc EXCEPT ![p] = left] BY <1>6
<1> HIDE DEF row, amount, p
<1>8. /\ alloc[p] \in [Installment -> Nat]
      /\ \A i \in Installment : alloc[p][i] \in Nat /\ d[i] \in Nat /\ d[i] <= alloc[p][i]
  <2>1. alloc[p] \in [Installment -> Nat] BY <1>1, <1>3 DEF TypeOK
  <2>2. \A i \in DOMAIN alloc[p] : d[i] <= alloc[p][i] BY <1>6 DEF Waterfall
  <2> QED BY <2>1, <2>2, AmountNat
<1>9. left \in [Installment -> Nat] BY <1>8
<1>10. /\ Sum(take) \in Nat /\ Sum(d) \in Nat /\ surplus \in Nat
       /\ CreditedIn(credit', p) = CreditedIn(credit, p) - Sum(take)
       /\ \A q \in Payment : q # p => CreditedIn(credit', q) = CreditedIn(credit, q)
  <2>1. Sum(d) = SumFunctionOnSet(d, Installment) BY SumIs
  <2>2. Sum(d) \in Nat BY <1>8, <2>1, FiniteAssumption, SumNat
  <2> QED BY <1>1, <1>3, <1>6, <2>2, ReplacedTotals, AmountNat
<1>11. /\ HeldIn(alloc', p) = HeldIn(alloc, p) - Sum(d)
       /\ \A q \in Payment : q # p => HeldIn(alloc', q) = HeldIn(alloc, q)
  <2>1. \A q \in Payment :
          HeldIn(alloc', q) = IF q = p THEN SumFunctionOnSet(left, Installment) ELSE HeldIn(alloc, q)
    <3> HIDE DEF left
    <3> QED BY <1>1, <1>3, <1>7, AllocWritten
  <2>2. \A i \in Installment :
          left[i] \in Int /\ d[i] \in Int /\ alloc[p][i] = left[i] + d[i]
    BY <1>8
  <2> HIDE DEF left
  <2>3. SumFunctionOnSet(alloc[p], Installment)
          = SumFunctionOnSet(left, Installment) + SumFunctionOnSet(d, Installment)
    BY <2>2, FiniteAssumption, SumPlus
  <2>4. SumFunctionOnSet(left, Installment) \in Int BY <2>2, FiniteAssumption, SumInt
  <2>5. Sum(d) = SumFunctionOnSet(d, Installment) BY SumIs
  <2>6. HeldIn(alloc, p) = SumFunctionOnSet(left, Installment) + Sum(d)
    BY <2>3, <2>5 DEF HeldIn
  <2>7. HeldIn(alloc', p) = SumFunctionOnSet(left, Installment) BY <1>3, <2>1
  <2>8. \A q \in Payment : q # p => HeldIn(alloc', q) = HeldIn(alloc, q) BY <2>1
  <2> QED BY <1>10, <2>4, <2>6, <2>7, <2>8
<1>12. /\ RefundedIn(refund', p, {"COMPLETED"}) = RefundedIn(refund, p, {"COMPLETED"}) + amount
       /\ RefundedIn(refund', p, Promise) = RefundedIn(refund, p, Promise)
       /\ \A q \in Payment : q # p =>
            /\ RefundedIn(refund', q, {"COMPLETED"}) = RefundedIn(refund, q, {"COMPLETED"})
            /\ RefundedIn(refund', q, Promise) = RefundedIn(refund, q, Promise)
  <2>1. ASSUME NEW q, NEW st
        PROVE  /\ RefundedIn(refund', q, st)
                     = RefundedIn(refund, q, st) - Counts(refund[r], q, st) + Counts(row, q, st)
               /\ RefundedIn(refund, q, st) \in Nat
    BY <1>1, <1>2, <1>4, RefundWritten, Zenon
  <2>2. /\ Counts(refund[r], p, {"COMPLETED"}) = 0 /\ Counts(row, p, {"COMPLETED"}) = amount
        /\ Counts(refund[r], p, Promise) = amount /\ Counts(row, p, Promise) = amount
    BY <1>2, <1>4 DEF Counts, Promise, p, amount
  <2>3. \A q, st : q # p => Counts(refund[r], q, st) = 0 /\ Counts(row, q, st) = 0
    BY <1>4 DEF Counts, p
  <2>4. RefundedIn(refund', p, {"COMPLETED"}) = RefundedIn(refund, p, {"COMPLETED"}) - 0 + amount
        /\ RefundedIn(refund, p, {"COMPLETED"}) \in Nat
    BY <2>1, <2>2
  <2>5. RefundedIn(refund', p, Promise) = RefundedIn(refund, p, Promise) - amount + amount
        /\ RefundedIn(refund, p, Promise) \in Nat
    BY <2>1, <2>2
  <2>6. ASSUME NEW q, NEW st, q # p PROVE RefundedIn(refund', q, st) = RefundedIn(refund, q, st)
    <3>1. RefundedIn(refund', q, st) = RefundedIn(refund, q, st) - 0 + 0
          /\ RefundedIn(refund, q, st) \in Nat
      BY <2>1, <2>3, <2>6
    <3> QED BY <3>1
  <2> QED BY <1>3, <2>4, <2>5, <2>6
<1>13. /\ HeldIn(alloc, p) \in Nat /\ CreditedIn(credit, p) \in Nat
       /\ RefundedIn(refund, p, {"COMPLETED"}) \in Nat /\ RefundedIn(refund, p, Promise) \in Nat
       /\ payment[p].gross \in Nat
  BY <1>1, <1>3, TotalsNat
<1>14. /\ HeldIn(alloc', p) \in Nat /\ CreditedIn(credit', p) \in Nat
       /\ RefundedIn(refund', p, {"COMPLETED"}) <= RefundedIn(refund', p, Promise)
  <2>1. /\ alloc' \in [Payment -> [Installment -> Nat]] /\ credit' \in [Credit -> CreditRow]
        /\ refund' \in [Refund -> RefundRow]
    BY <1>1 DEF TypeOK
  <2> QED BY <1>3, <2>1, HeldNat, CreditedNat, BackIsPromised
<1>15. ASSUME surplus > 0 PROVE HeldIn(alloc', p) = 0 /\ CreditedIn(credit', p) = 0
  <2>1. Sum(take) < amount /\ Sum(d) # amount - Sum(take) BY <1>3, <1>6, <1>10, <1>15
  <2>2. CreditedIn(credit, p) = Sum(take) BY <1>1, <1>3, <1>6, <2>1, AllTaken
  <2>3. \A i \in Installment : d[i] = alloc[p][i]
    <3>1. \A i \in Installment : ~(d[i] < alloc[p][i]) BY <1>6, <1>8, <2>1 DEF Waterfall
    <3> QED BY <1>8, <3>1
  <2>4. Sum(d) = HeldIn(alloc, p)
    <3>1. Sum(d) = SumFunctionOnSet(d, Installment) BY SumIs
    <3> QED BY <2>3, <3>1, FiniteAssumption, SumAgree DEF HeldIn
  <2> QED BY <1>10, <1>11, <1>13, <2>2, <2>4
<1>16. /\ payment'[p].gross = payment[p].gross
       /\ payment'[p].status = AfterRefund(p, amount)
       /\ \A q \in Payment : q # p => payment'[q] = payment[q]
  BY <1>1, <1>2, <1>3 DEF TypeOK, PaymentRow
<1>17. AfterRefund(p, amount)
         = IF RefundedIn(refund', p, {"COMPLETED"}) >= payment[p].gross
           THEN "REFUNDED" ELSE "PARTIALLY_REFUNDED"
  <2>1. RefundsOf(p, {"COMPLETED"}) = RefundedIn(refund, p, {"COMPLETED"}) BY <1>1, <1>3, Totals
  <2> QED BY <1>12, <2>1 DEF AfterRefund
<1>18. /\ HeldIn(alloc, p) + CreditedIn(credit, p) + RefundedIn(refund, p, {"COMPLETED"})
            <= payment[p].gross
       /\ RefundedIn(refund, p, Promise) <= payment[p].gross
  BY <1>3 DEF MoneyInv, PaymentsOK, PaymentOK
<1>19. HeldIn(alloc', p) + CreditedIn(credit', p) + RefundedIn(refund', p, {"COMPLETED"})
         = HeldIn(alloc, p) + CreditedIn(credit, p) + RefundedIn(refund, p, {"COMPLETED"}) + surplus
  BY <1>3, <1>6, <1>10, <1>11, <1>12, <1>13
<1>20. HeldIn(alloc', p) + CreditedIn(credit', p) + RefundedIn(refund', p, {"COMPLETED"})
         <= payment[p].gross
  <2>1. CASE surplus > 0
    BY <1>3, <1>12, <1>13, <1>14, <1>15, <1>18, <2>1
  <2>2. CASE ~(surplus > 0)
    <3>1. surplus = 0 BY <1>10, <2>2
    <3> QED BY <1>13, <1>18, <1>19, <3>1
  <2> QED BY <2>1, <2>2
<1>21. PaymentOK(payment'[p], HeldIn(alloc', p), CreditedIn(credit', p),
                 RefundedIn(refund', p, {"COMPLETED"}), RefundedIn(refund', p, Promise))
  <2>1. RefundedIn(refund', p, {"COMPLETED"}) \in Nat /\ RefundedIn(refund', p, Promise) \in Nat
        /\ amount <= RefundedIn(refund', p, {"COMPLETED"})
        /\ RefundedIn(refund', p, Promise) <= payment[p].gross
    BY <1>3, <1>12, <1>13, <1>18
  <2> QED BY <1>3, <1>13, <1>14, <1>16, <1>17, <1>20, <2>1, RefundedOK
<1>22. PaymentsOK' /\ NothingLost
  <2>1. HeldIn(alloc, p) + CreditedIn(credit, p) + RefundedIn(refund, p, {"COMPLETED"})
          <= HeldIn(alloc', p) + CreditedIn(credit', p) + RefundedIn(refund', p, {"COMPLETED"})
    BY <1>10, <1>13, <1>19
  <2> QED BY <1>3, <1>10, <1>11, <1>12, <1>16, <1>21, <2>1, OnePayment
<1>23. PaidIsFunded'
  <2>1. /\ \A i \in Installment : alloc'[p][i] = left[i] /\ left[i] = alloc[p][i] - d[i]
        /\ \A q \in Payment, i \in Installment : q # p => alloc'[q][i] = alloc[q][i]
    BY <1>1, <1>3, <1>7 DEF TypeOK
  <2> HIDE DEF left
  <2>2. ASSUME NEW i \in Installment
        PROVE  inst'[i].paid = inst[i].paid - alloc[p][i] + alloc'[p][i]
    <3>1. inst[i].paid \in Nat BY <1>1 DEF TypeOK, InstallmentRow
    <3>2. alloc[p][i] \in Nat /\ d[i] \in Nat BY <1>8
    <3>3. Unwound(inst[i], d[i]).paid = inst[i].paid - d[i] BY DEF Unwound, Row
    <3>4. inst'[i].paid = inst[i].paid - d[i] BY <1>6, <3>1, <3>2, <3>3
    <3> QED BY <2>1, <3>1, <3>2, <3>4
  <2> QED BY <1>1, <1>2, <1>3, <2>1, <2>2, TablesInt, TablesIntNext, FundedByPayment
<1>24. /\ Taken(take) \in SUBSET Credit
       /\ \A c \in Taken(take) : credit[c].status = "LIVE" /\ credit[c].source = FromPayment(p)
  BY <1>1, <1>3, <1>6, TakenLive
<1>25. /\ ConsumedIsApplied' /\ OneLiveCreditPerPayment'
       /\ \A q \in Payment :
            /\ q # p
            /\ \A c \in Credit : credit[c].status = "LIVE" => credit[c].source # FromPayment(q)
            => \A c \in Credit : credit'[c].status = "LIVE" => credit'[c].source # FromPayment(q)
  <2>1. TypeOK /\ CreditWithinAmount /\ ConsumedIsApplied /\ OneLiveCreditPerPayment
    BY DEF MoneyInv, LedgerInv
  <2> QED BY <1>2, <1>3, <1>6, <1>24, <2>1, ReplacesCredits
<1>26. FreshPayments'
  <2> SUFFICES ASSUME NEW q \in Payment, payment'[q].status = "NONE"
               PROVE  /\ alloc'[q] = NoRows
                      /\ \A c \in Credit : credit'[c].status = "LIVE" => credit'[c].source # FromPayment(q)
                      /\ \A x \in Refund : refund'[x].status # "NONE" => refund'[x].payment # q
    BY DEF FreshPayments, NoRows
  <2>1. q # p /\ payment[q].status = "NONE" BY <1>16 DEF AfterRefund
  <2>2. alloc'[q] = NoRows BY <1>1, <1>7, <2>1 DEF MoneyInv, FreshPayments, TypeOK
  <2>3. \A x \in Refund : refund'[x].status # "NONE" => refund'[x].payment # q
    <3>1. \A x \in Refund : x # r => refund'[x] = refund[x] BY <1>2, <1>3
    <3>2. refund'[r] = row BY <1>2, <1>3
    <3> QED BY <1>4, <2>1, <3>1, <3>2 DEF MoneyInv, FreshPayments
  <2>4. \A c \in Credit : credit'[c].status = "LIVE" => credit'[c].source # FromPayment(q)
    BY <1>25, <2>1 DEF MoneyInv, FreshPayments
  <2> QED BY <2>2, <2>3, <2>4
<1>27. RefundsPositive'
  <2>1. \A x \in Refund : x # r => refund'[x] = refund[x] BY <1>2, <1>3
  <2>2. refund'[r] = row BY <1>2, <1>3
  <2> QED BY <1>3, <1>4, <2>1, <2>2 DEF MoneyInv, RefundsPositive
<1> QED BY <1>22, <1>23, <1>25, <1>26, <1>27 DEF MoneyInv

---------------------------------------------------------------------------
(* The invariant of the money.                                             *)

\* Before anything was received there is no money anywhere.
LEMMA InitMoney == Init => MoneyInv
<1> SUFFICES ASSUME Init PROVE MoneyInv
  OBVIOUS
<1>1. LedgerInv BY InitInv
<1>2. /\ \A i \in Installment : inst[i].paid = 0
      /\ \A p \in Payment : /\ alloc[p] = NoRows /\ payment[p].status = "NONE"
                            /\ payment[p].gross = 0
                            /\ \A i \in Installment : alloc[p][i] = 0
      /\ \A r \in Refund : refund[r].status = "NONE"
      /\ \A c \in Credit : /\ credit[c].status = "NONE" /\ credit[c].consumed = 0
                           /\ app[c] = NoRows /\ \A i \in Installment : app[c][i] = 0
  BY DEF Init, NoRows
<1>3. PaidIsFunded
  <2> SUFFICES ASSUME NEW i \in Installment
               PROVE  inst[i].paid = Sum([p \in Payment |-> alloc[p][i]])
                                       + Sum([c \in Credit |-> app[c][i]])
    BY DEF PaidIsFunded
  <2> DEFINE allocated == [p \in Payment |-> alloc[p][i]]
             drawn == [c \in Credit |-> app[c][i]]
  <2>1. \A p \in Payment : allocated[p] = 0 BY <1>2
  <2>2. \A c \in Credit : drawn[c] = 0 BY <1>2
  <2>3. allocated \in [Payment -> {0}] /\ drawn \in [Credit -> {0}] BY <1>2
  <2> HIDE DEF allocated, drawn
  <2>4. Sum(allocated) = SumFunctionOnSet(allocated, Payment)
        /\ Sum(drawn) = SumFunctionOnSet(drawn, Credit)
    BY <2>3, SumIs
  <2>5. Sum(allocated) = 0 /\ Sum(drawn) = 0 BY <2>1, <2>2, <2>4, SumZero, FiniteAssumption
  <2>6. inst[i].paid = 0 BY <1>2
  <2>7. inst[i].paid = Sum(allocated) + Sum(drawn) BY <2>5, <2>6
  <2> QED BY <2>7 DEF allocated, drawn
<1>4. ConsumedIsApplied
  <2> SUFFICES ASSUME NEW c \in Credit PROVE credit[c].consumed = Sum(app[c])
    BY DEF ConsumedIsApplied
  <2>1. app[c] \in [Installment -> {0}] /\ \A i \in Installment : app[c][i] = 0
    BY <1>2 DEF NoRows
  <2>2. Sum(app[c]) = SumFunctionOnSet(app[c], Installment) BY <2>1, SumIs
  <2>3. Sum(app[c]) = 0 BY <2>1, <2>2, SumZero, FiniteAssumption
  <2> QED BY <1>2, <2>3
<1>5. OneLiveCreditPerPayment BY <1>2 DEF OneLiveCreditPerPayment, LiveOf
<1>6. FreshPayments /\ RefundsPositive BY <1>2 DEF FreshPayments, RefundsPositive
<1>7. PaymentsOK
  <2> SUFFICES ASSUME NEW p \in Payment
               PROVE  PaymentOK(payment[p], HeldIn(alloc, p), CreditedIn(credit, p),
                        RefundedIn(refund, p, {"COMPLETED"}), RefundedIn(refund, p, Promise))
    BY DEF PaymentsOK
  <2>1. HeldIn(alloc, p) = 0 BY <1>2, FiniteAssumption, SumZero DEF HeldIn
  <2>2. \A c \in Credit : CreditsOf(credit, p)[c] = 0 BY <1>2 DEF CreditsOf
  <2>3. CreditedIn(credit, p) = 0 BY <2>2, FiniteAssumption, SumZero DEF CreditedIn
  <2>4. \A r \in Refund : /\ RefundsIn(refund, p, {"COMPLETED"})[r] = 0
                          /\ RefundsIn(refund, p, Promise)[r] = 0
    BY <1>2 DEF RefundsIn, Counts, Promise
  <2>5. RefundedIn(refund, p, {"COMPLETED"}) = 0 /\ RefundedIn(refund, p, Promise) = 0
    BY <2>4, FiniteAssumption, SumZero DEF RefundedIn
  <2>6. payment[p].status = "NONE" /\ payment[p].gross = 0 BY <1>2
  <2> QED BY <2>1, <2>3, <2>5, <2>6 DEF PaymentOK
<1> QED BY <1>1, <1>3, <1>4, <1>5, <1>6, <1>7 DEF MoneyInv

\* An adjustment changes what a row owes, never what it was paid.
LEMMA AdjustPaid ==
  ASSUME TypeOK, NEW i \in Installment, NEW delta, NEW s, Adjust(i, delta, s)
  PROVE  /\ UNCHANGED <<payment, alloc, refund, credit, app>>
         /\ \A x \in Installment : inst'[x].paid = inst[x].paid
BY DEF Adjust, Row, TypeOK

\* Nor do the handlers that adjust.
LEMMA AdjustmentPaid ==
  ASSUME TypeOK, NEW i \in Installment, NEW amount \in Amount,
         LateFee(i, amount) \/ Discount(i, amount) \/ Waive(i, amount)
  PROVE  /\ UNCHANGED <<payment, alloc, refund, credit, app>>
         /\ \A x \in Installment : inst'[x].paid = inst[x].paid
<1>1. \E delta, s : Adjust(i, delta, s) BY DEF LateFee, Discount, Waive
<1> QED BY <1>1, AdjustPaid

\* The cron moves statuses, charges late fees and completes plans.
LEMMA CronPaid ==
  ASSUME TypeOK, CronNext
  PROVE  /\ UNCHANGED <<payment, alloc, refund, credit, app>>
         /\ \A x \in Installment : inst'[x].paid = inst[x].paid
<1>1. ASSUME NEW i \in Installment, NEW from, NEW to, Move(i, from, to)
      PROVE  /\ UNCHANGED <<payment, alloc, refund, credit, app>>
             /\ \A x \in Installment : inst'[x].paid = inst[x].paid
  <2>1. inst \in [Installment -> InstallmentRow] BY DEF TypeOK
  <2> QED BY <1>1, <2>1 DEF Move, InstallmentRow
<1>2. CASE \E i \in Installment, amount \in Amount : CronLateFee(i, amount)
  BY <1>2, AdjustmentPaid DEF CronLateFee
<1>3. CASE CronComplete BY <1>3 DEF CronComplete
<1> QED BY <1>1, <1>2, <1>3 DEF CronNext, CronInvoice, CronDue, CronOverdue

\* Pause, resume and cancel take no money off a row either.
LEMMA PlanPaid ==
  ASSUME TypeOK, PlanNext
  PROVE  /\ UNCHANGED <<payment, alloc, refund, credit, app>>
         /\ \A x \in Installment : inst'[x].paid = inst[x].paid
<1>1. \A from, to : \A x \in Installment : Relabelled(from, to)[x].paid = inst[x].paid
  <2>1. inst \in [Installment -> InstallmentRow] BY DEF TypeOK
  <2> QED BY <2>1 DEF Relabelled, InstallmentRow
<1>2. CASE PausePlan BY <1>1, <1>2 DEF PausePlan
<1>3. CASE ResumePlan BY <1>1, <1>3 DEF ResumePlan
<1>4. ASSUME NEW waive \in BOOLEAN, CancelPlan(waive)
      PROVE  /\ UNCHANGED <<payment, alloc, refund, credit, app>>
             /\ \A x \in Installment : inst'[x].paid = inst[x].paid
  <2> SUFFICES ASSUME NEW x \in Installment PROVE inst'[x].paid = inst[x].paid
    BY <1>4 DEF CancelPlan
  <2>1. inst'[x] = IF x \in Forgiven(waive) THEN Row("WAIVED", inst[x].paid, inst[x].paid)
                   ELSE Relabelled(OpenStatus \union {"SUSPENDED"}, "CANCELLED")[x]
    BY <1>4 DEF CancelPlan
  <2>2. Row("WAIVED", inst[x].paid, inst[x].paid).paid = inst[x].paid BY DEF Row
  <2> QED BY <1>1, <2>1, <2>2
<1> QED BY <1>2, <1>3, <1>4 DEF PlanNext

\* Every handler keeps the invariant, and none but reverseCredit loses money.
LEMMA NextMoney ==
  ASSUME MoneyInv, [Next]_vars
  PROVE  MoneyInv' /\ (NothingLost \/ \E c \in Credit : ReverseCredit(c))
<1>1. LedgerInv /\ TypeOK BY DEF MoneyInv, LedgerInv
<1>2. LedgerInv' BY <1>1, NextInv
<1>3. CASE ReceiptNext
  <2>1. ASSUME NEW p \in Payment, NEW gross \in Amount, RecordPaymentFifo(p, gross)
        PROVE  MoneyInv' /\ NothingLost
    BY <1>2, <2>1, ReceiveMoney, DueRankAssumption DEF RecordPaymentFifo
  <2>2. ASSUME NEW p \in Payment, NEW gross \in Amount, NEW order \in Orders,
               NEW d \in [Installment -> Amount], RecordPaymentManual(p, gross, order, d)
        PROVE  MoneyInv' /\ NothingLost
    BY <1>2, <2>2, ReceiveMoney, OrdersTyped DEF RecordPaymentManual
  <2> QED BY <1>3, <2>1, <2>2 DEF ReceiptNext
<1>4. CASE RefundNext
  BY <1>2, <1>4, CreateRefundMoney, MarkRefundFailedMoney DEF RefundNext
<1>5. CASE ReversalNext
  BY <1>2, <1>5, VoidPaymentMoney, CompleteRefundMoney DEF ReversalNext
<1>6. CASE AdjustmentNext
  BY <1>1, <1>2, <1>6, AdjustmentPaid, QuietMoney DEF AdjustmentNext
<1>7. CASE CreditNext
  BY <1>2, <1>7, SpendMoney, ReverseCreditMoney
     DEF CreditNext, ApplyCreditExplicit, ApplyCreditFifo
<1>8. CASE CronNext BY <1>1, <1>2, <1>8, CronPaid, QuietMoney
<1>9. CASE PlanNext BY <1>1, <1>2, <1>9, PlanPaid, QuietMoney
<1>10. CASE UNCHANGED vars BY <1>2, <1>10, QuietMoney DEF vars
<1> QED BY <1>3, <1>4, <1>5, <1>6, <1>7, <1>8, <1>9, <1>10 DEF Next

\* The invariant always holds.
LEMMA SpecMoney == Spec => []MoneyInv
BY InitMoney, NextMoney, PTL DEF Spec

\* What an installment was paid is what its allocations and credit applications
\* say: no handler writes paid_minor without the row that accounts for it.
THEOREM PaidCorrect == Spec => []PaidIsFunded
<1>1. MoneyInv => PaidIsFunded BY DEF MoneyInv
<1> QED BY <1>1, SpecMoney, PTL

\* consumed_minor of a credit is the sum of its applications, whichever handler
\* spent, replaced or reversed it.
THEOREM ConsumedCorrect == Spec => []ConsumedIsApplied
<1>1. MoneyInv => ConsumedIsApplied BY DEF MoneyInv
<1> QED BY <1>1, SpecMoney, PTL

\* An overpayment is one live credit at a time: completeRefund retires the old one
\* before it creates what is left of it.
THEOREM CreditsSingle == Spec => []OneLiveCreditPerPayment
<1>1. MoneyInv => OneLiveCreditPerPayment BY DEF MoneyInv
<1> QED BY <1>1, SpecMoney, PTL

\* The money of a payment is settling installments, waiting as credit or given
\* back, never two of these at once, and a voided payment has none anywhere.
THEOREM PaymentsConserved == Spec => []PaymentConserved
<1>1. MoneyInv => PaymentConserved
  <2> SUFFICES ASSUME MoneyInv, NEW p \in Payment
               PROVE  /\ Claimed(p) <= payment[p].gross
                      /\ payment[p].status = "VOIDED" => Claimed(p) = 0
    BY DEF PaymentConserved
  <2>1. TypeOK BY DEF MoneyInv, LedgerInv
  <2>2. Claimed(p) = HeldIn(alloc, p) + CreditedIn(credit, p)
                       + RefundedIn(refund, p, {"COMPLETED"})
    BY <2>1, Totals
  <2> QED BY <2>2 DEF MoneyInv, PaymentsOK, PaymentOK
<1> QED BY <1>1, SpecMoney, PTL

\* createRefund's cap holds for good: what was promised back or given back never
\* exceeds what was received.
THEOREM RefundsCapped == Spec => []RefundsWithinGross
<1>1. MoneyInv => RefundsWithinGross
  <2> SUFFICES ASSUME MoneyInv, NEW p \in Payment
               PROVE  RefundsOf(p, {"PENDING", "COMPLETED"}) <= payment[p].gross
    BY DEF RefundsWithinGross
  <2>1. TypeOK BY DEF MoneyInv, LedgerInv
  <2>2. RefundsOf(p, {"PENDING", "COMPLETED"}) = RefundedIn(refund, p, Promise)
    BY <2>1, Totals DEF Promise
  <2> QED BY <2>2 DEF MoneyInv, PaymentsOK, PaymentOK
<1> QED BY <1>1, SpecMoney, PTL

\* A payment's status tells how much of it went back, after any sequence of
\* refunds created, completed and failed.
THEOREM PaymentStatusCorrect == Spec => []PaymentStatusTellsRefunds
<1>1. MoneyInv => PaymentStatusTellsRefunds
  <2> SUFFICES ASSUME MoneyInv PROVE PaymentStatusTellsRefunds
    OBVIOUS
  <2>1. TypeOK BY DEF MoneyInv, LedgerInv
  <2>2. ASSUME NEW p \in Payment
        PROVE  LET back == RefundsOf(p, {"COMPLETED"})
               IN  CASE payment[p].status \in {"NONE", "RECEIVED", "VOIDED"} -> back = 0
                     [] payment[p].status = "PARTIALLY_REFUNDED" -> 0 < back /\ back < payment[p].gross
                     [] payment[p].status = "REFUNDED" -> back = payment[p].gross
    <3>1. RefundsOf(p, {"COMPLETED"}) = RefundedIn(refund, p, {"COMPLETED"})
      BY <2>1, Totals
    <3>2. payment[p].status \in PaymentStatus \union {"NONE"}
      BY <2>1 DEF TypeOK, PaymentRow
    <3>3. PaymentOK(payment[p], HeldIn(alloc, p), CreditedIn(credit, p),
                    RefundedIn(refund, p, {"COMPLETED"}), RefundedIn(refund, p, Promise))
      BY DEF MoneyInv, PaymentsOK
    <3> QED BY <3>1, <3>2, <3>3 DEF PaymentOK, PaymentStatus
  <2> QED BY <2>2 DEF PaymentStatusTellsRefunds
<1> QED BY <1>1, SpecMoney, PTL

\* No handler but reverseCredit takes money of a standing payment out of the books.
THEOREM MoneyKept == Spec => MoneyNeverLost
<1>1. MoneyInv /\ [Next]_vars =>
        [\A p \in Payment :
           payment'[p].status # "VOIDED" /\ Claimed(p)' < Claimed(p)
             => \E c \in Credit : ReverseCredit(c)]_vars
  <2> SUFFICES ASSUME MoneyInv, [Next]_vars, NEW p \in Payment,
                      payment'[p].status # "VOIDED", Claimed(p)' < Claimed(p)
               PROVE  \E c \in Credit : ReverseCredit(c)
    OBVIOUS
  <2>1. MoneyInv' /\ (NothingLost \/ \E c \in Credit : ReverseCredit(c)) BY NextMoney
  <2>2. Claimed(p) \in Nat
    <3>1. TypeOK BY DEF MoneyInv, LedgerInv
    <3> QED BY <3>1, Totals, TotalsNat
  <2>3. Claimed(p)' \in Nat
    <3>1. TypeOK' BY <2>1 DEF MoneyInv, LedgerInv
    <3>2. HeldIn(alloc', p) \in Nat /\ CreditedIn(credit', p) \in Nat
          /\ RefundedIn(refund', p, {"COMPLETED"}) \in Nat
      BY <3>1, HeldNat, CreditedNat, RefundedNat DEF TypeOK
    <3> QED BY <3>1, <3>2, TotalsNext
  <2> QED BY <2>1, <2>2, <2>3 DEF NothingLost
<1> QED BY <1>1, SpecMoney, PTL DEF Spec, MoneyNeverLost

---------------------------------------------------------------------------
(* Moves of the status machines.                                           *)

\* What LegalMoves says of one row.
MayMove(from, to) == Permits(FreeEdge \union AdminEdge, from, to) \/ CanSettle(from, to)
RowsMove == \A i \in Installment : MayMove(inst[i].status, inst'[i].status)

\* No edge leaves CANCELLED or REFUNDED.
LEMMA ClosedRowsStay ==
  ASSUME NEW from \in {"CANCELLED", "REFUNDED"}, NEW to, MayMove(from, to)
  PROVE  to = from
BY DEF MayMove, Permits, CanSettle, FreeEdge, AdminEdge

\* Taking money back walks the edges that need an ADMIN.
LEMMA TakenBackMoves ==
  ASSUME NEW row, NEW d
  PROVE  /\ MayMove(row.status, Voided(row, d).status)
         /\ MayMove(row.status, Unwound(row, d).status)
BY DEF MayMove, Permits, AdminEdge, Voided, VoidedStatus, Unwound, UnwoundStatus, Row

\* A row that is left alone may stay where it is.
LEMMA StayingMoves == \A s : MayMove(s, s)
BY DEF MayMove, Permits

\* recordPayment and applyCredit settle a row only along its edges.
LEMMA SettleMoves == ASSUME NEW d, Settle(d) PROVE RowsMove
<1> SUFFICES ASSUME NEW i \in Installment PROVE MayMove(inst[i].status, inst'[i].status)
  BY DEF RowsMove
<1>1. CASE d[i] > 0
  BY <1>1 DEF Settle, CanTake, Settled, Row, MayMove
<1>2. CASE ~(d[i] > 0) BY <1>2, StayingMoves DEF Settle
<1> QED BY <1>1, <1>2

\* So do the adjustments that clear a balance.
LEMMA AdjustmentMoves ==
  ASSUME TypeOK, NEW i \in Installment, NEW amount \in Amount,
         LateFee(i, amount) \/ Discount(i, amount) \/ Waive(i, amount)
  PROVE  RowsMove
<1>1. ASSUME NEW delta, NEW s, Adjust(i, delta, s), MayMove(inst[i].status, s)
      PROVE  RowsMove
  BY <1>1, StayingMoves DEF RowsMove, Adjust, Row, TypeOK
<1>2. CASE LateFee(i, amount) BY <1>1, <1>2, StayingMoves DEF LateFee
<1>3. CASE Discount(i, amount) BY <1>1, <1>3, StayingMoves DEF Discount, MayMove
<1>4. CASE Waive(i, amount)
  BY <1>1, <1>4, StayingMoves DEF Waive, MayMove, Permits
<1> QED BY <1>2, <1>3, <1>4

\* The guarded updates of the cron.
LEMMA CronMoves == ASSUME TypeOK, CronNext PROVE RowsMove
<1>1. ASSUME NEW i \in Installment, NEW from, NEW to, Move(i, from, to), <<from, to>> \in FreeEdge
      PROVE  RowsMove
  <2>1. MayMove(inst[i].status, to) BY <1>1 DEF Move, MayMove, Permits
  <2>2. inst[i] \in InstallmentRow BY DEF TypeOK
  <2> QED BY <1>1, <2>1, <2>2, StayingMoves DEF RowsMove, Move, TypeOK, InstallmentRow
<1>2. ASSUME NEW i \in Installment, CronInvoice(i) \/ CronDue(i) \/ CronOverdue(i)
      PROVE  RowsMove
  BY <1>1, <1>2 DEF CronInvoice, CronDue, CronOverdue, FreeEdge
<1>3. CASE \E i \in Installment, amount \in Amount : CronLateFee(i, amount)
  BY <1>3, AdjustmentMoves DEF CronLateFee
<1>4. CASE CronComplete BY <1>4, StayingMoves DEF CronComplete, RowsMove
<1> QED BY <1>2, <1>3, <1>4 DEF CronNext

\* The bulk updates of pause, resume and cancel.
LEMMA PlanMoves == ASSUME TypeOK, PlanNext PROVE RowsMove
<1>1. ASSUME NEW from, NEW to, \A s \in from : MayMove(s, to), NEW i \in Installment
      PROVE  MayMove(inst[i].status, Relabelled(from, to)[i].status)
  <2>1. inst[i] \in InstallmentRow BY DEF TypeOK
  <2> QED BY <1>1, <2>1, StayingMoves DEF Relabelled, InstallmentRow
<1>2. CASE PausePlan
  <2>1. \A s \in {"SCHEDULED", "INVOICED"} : MayMove(s, "SUSPENDED")
    BY DEF MayMove, Permits, FreeEdge
  <2> QED BY <1>1, <1>2, <2>1 DEF PausePlan, RowsMove
<1>3. CASE ResumePlan
  <2>1. \A s \in {"SUSPENDED"} : MayMove(s, "INVOICED") BY DEF MayMove, Permits, FreeEdge
  <2> QED BY <1>1, <1>3, <2>1 DEF ResumePlan, RowsMove
<1>4. ASSUME NEW waive \in BOOLEAN, CancelPlan(waive)
      PROVE  RowsMove
  <2> SUFFICES ASSUME NEW i \in Installment PROVE MayMove(inst[i].status, inst'[i].status)
    BY DEF RowsMove
  <2>1. CASE i \in Forgiven(waive)
    <3>1. inst[i].status = "PARTIAL" /\ inst'[i].status = "WAIVED"
      BY <1>4, <2>1 DEF CancelPlan, Forgiven, Row
    <3> QED BY <3>1 DEF MayMove, Permits, AdminEdge
  <2>2. CASE i \notin Forgiven(waive)
    <3>1. inst'[i] = Relabelled(OpenStatus \union {"SUSPENDED"}, "CANCELLED")[i]
      BY <1>4, <2>2 DEF CancelPlan
    <3>2. \A s \in OpenStatus \union {"SUSPENDED"} : MayMove(s, "CANCELLED")
      BY DEF OpenStatus, MayMove, Permits, AdminEdge
    <3> QED BY <1>1, <3>1, <3>2
  <2> QED BY <2>1, <2>2
<1> QED BY <1>2, <1>3, <1>4 DEF PlanNext

\* What TerminalStays says of the records other than installments.
RecordsStay ==
  /\ \A p \in Payment :
       payment[p].status = "REFUNDED" => payment'[p].status = payment[p].status
  /\ \A r \in Refund :
       refund[r].status \in {"COMPLETED", "FAILED"} => refund'[r] = refund[r]

\* Every handler moves rows along their edges and leaves closed records closed.
LEMMA NextMoves ==
  ASSUME TypeOK, [Next]_vars
  PROVE  RowsMove /\ RecordsStay
<1>1. ASSUME NEW p \in Payment, NEW gross, NEW order, NEW d, Receive(p, gross, order, d)
      PROVE  RowsMove /\ RecordsStay
  <2>1. RowsMove BY <1>1, SettleMoves DEF Receive
  <2>2. /\ payment' = [payment EXCEPT ![p] = [status |-> "RECEIVED", gross |-> gross, order |-> order]]
        /\ payment[p].status = "NONE" /\ UNCHANGED refund
    BY <1>1 DEF Receive, IsNext, Unused
  <2> QED BY <2>1, <2>2 DEF RecordsStay
<1>2. CASE ReceiptNext
  BY <1>1, <1>2 DEF ReceiptNext, RecordPaymentFifo, RecordPaymentManual
<1>3. CASE RefundNext
  <2>1. UNCHANGED <<inst, payment>>
    BY <1>3 DEF RefundNext, CreateRefund, MarkRefundFailed
  <2>2. PICK r \in Refund :
          /\ \E row : refund' = [refund EXCEPT ![r] = row]
          /\ refund[r].status \notin {"COMPLETED", "FAILED"}
    <3>1. CASE \E r \in Refund, p \in Payment, amount \in Amount : CreateRefund(r, p, amount)
      BY <3>1 DEF CreateRefund, IsNext, Unused
    <3>2. CASE \E r \in Refund : MarkRefundFailed(r)
      BY <3>2 DEF MarkRefundFailed
    <3> QED BY <1>3, <3>1, <3>2 DEF RefundNext
  <2>3. \A x \in Refund : refund[x].status \in {"COMPLETED", "FAILED"} => refund'[x] = refund[x]
    BY <2>2 DEF TypeOK
  <2> QED BY <2>1, <2>3, StayingMoves DEF RowsMove, RecordsStay
<1>4. ASSUME NEW p \in Payment, VoidPayment(p)
      PROVE  RowsMove /\ RecordsStay
  <2>1. RowsMove BY <1>4, TakenBackMoves, StayingMoves DEF VoidPayment, RowsMove
  <2>2. RecordsStay BY <1>4 DEF VoidPayment, RecordsStay, TypeOK
  <2> QED BY <2>1, <2>2
<1>5. ASSUME NEW r \in Refund, NEW carry \in BOOLEAN, CompleteRefund(r, carry)
      PROVE  RowsMove /\ RecordsStay
  <2> DEFINE p == refund[r].payment
             to == AfterRefund(p, refund[r].amount)
  <2>1. /\ refund[r].status = "PENDING" /\ Permits(PaymentEdge, payment[p].status, to)
        /\ payment' = [payment EXCEPT ![p].status = to]
        /\ refund' = [refund EXCEPT ![r].status = "COMPLETED"]
    BY <1>5 DEF CompleteRefund
  <2>2. PICK d : inst' = [i \in Installment |-> IF d[i] > 0 THEN Unwound(inst[i], d[i]) ELSE inst[i]]
    BY <1>5 DEF CompleteRefund
  <2>3. RowsMove BY <2>2, TakenBackMoves, StayingMoves DEF RowsMove
  <2>4. payment \in [Payment -> PaymentRow] BY DEF TypeOK
  <2> HIDE DEF p, to
  <2>5. payment[p].status = "REFUNDED" => to = payment[p].status
    BY <2>1 DEF Permits, PaymentEdge
  <2>6. \A q \in Payment : payment'[q].status = IF q = p THEN to ELSE payment[q].status
    BY <2>1, <2>4 DEF PaymentRow
  <2>7. \A q \in Payment :
          payment[q].status = "REFUNDED" => payment'[q].status = payment[q].status
    BY <2>5, <2>6
  <2> QED BY <2>1, <2>3, <2>7 DEF RecordsStay
<1>6. CASE ReversalNext BY <1>4, <1>5, <1>6 DEF ReversalNext
<1>7. CASE AdjustmentNext
  <2>1. UNCHANGED <<payment, refund>>
    BY <1>7 DEF AdjustmentNext, LateFee, Discount, Waive, Adjust
  <2> QED BY <1>7, <2>1, AdjustmentMoves DEF AdjustmentNext, RecordsStay
<1>8. CASE CreditNext
  <2>1. UNCHANGED <<payment, refund>>
        /\ ((\E d : Settle(d)) \/ UNCHANGED inst)
    BY <1>8 DEF CreditNext, ApplyCreditExplicit, ApplyCreditFifo, Spend, ReverseCredit
  <2>2. RowsMove BY <2>1, SettleMoves, StayingMoves DEF RowsMove
  <2> QED BY <2>1, <2>2 DEF RecordsStay
<1>9. CASE CronNext
  <2>1. UNCHANGED <<payment, refund>>
    BY <1>9 DEF CronNext, CronInvoice, CronDue, CronOverdue, CronLateFee, CronComplete,
                Move, LateFee, Adjust
  <2> QED BY <1>9, <2>1, CronMoves DEF RecordsStay
<1>10. CASE PlanNext
  <2>1. UNCHANGED <<payment, refund>>
    BY <1>10 DEF PlanNext, PausePlan, ResumePlan, CancelPlan
  <2> QED BY <1>10, <2>1, PlanMoves DEF RecordsStay
<1>11. CASE UNCHANGED vars BY <1>11, StayingMoves DEF vars, RowsMove, RecordsStay
<1> QED BY <1>2, <1>3, <1>6, <1>7, <1>8, <1>9, <1>10, <1>11 DEF Next

\* No installment ever moves but along an edge of its state machine, the bulk
\* updates of the cron and of pause, resume and cancel included.
THEOREM MovesLegal == Spec => LegalMoves
<1>1. TypeOK /\ [Next]_vars =>
        [\A i \in Installment :
           \/ Permits(FreeEdge \union AdminEdge, inst[i].status, inst'[i].status)
           \/ CanSettle(inst[i].status, inst'[i].status)]_vars
  BY NextMoves DEF RowsMove, MayMove
<1> QED BY <1>1, TypeCorrect, PTL DEF Spec, LegalMoves

\* A cancelled or refunded installment, a payment given back whole and a refund paid
\* out or failed never come back, although the plan above them may.
THEOREM TerminalFinal == Spec => TerminalStays
<1>1. TypeOK /\ [Next]_vars =>
        [/\ \A i \in Installment :
              inst[i].status \in {"CANCELLED", "REFUNDED"} => inst'[i].status = inst[i].status
         /\ \A p \in Payment :
              payment[p].status = "REFUNDED" => payment'[p].status = payment[p].status
         /\ \A r \in Refund :
              refund[r].status \in {"COMPLETED", "FAILED"} => refund'[r] = refund[r]]_vars
  BY NextMoves, ClosedRowsStay DEF RowsMove, RecordsStay
<1> QED BY <1>1, TypeCorrect, PTL DEF Spec, TerminalStays
=============================================================================
