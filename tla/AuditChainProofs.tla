--------------------------- MODULE AuditChainProofs ---------------------------
(***************************************************************************)
(* Theorems about AuditChain for every set of entries, writers and runs of *)
(* the job.                                                                *)
(*                                                                         *)
(* The log is read in the order of its stamps, so the proof begins with    *)
(* what it means for a sequence to list a set in that order: there is one  *)
(* such sequence for each finite set, its last element is the greatest,    *)
(* and lists are joined when one set lies before the other.                *)
(***************************************************************************)
EXTENDS AuditChain, FiniteSetTheorems, TLAPS

\* e comes before f when entries were stamped as `at` says.
Before(at, e, f) == at[e] < at[f] \/ (at[e] = at[f] /\ e < f)

\* s lists es in that order.
Lists(at, s, es) ==
  /\ s \in [1..Cardinality(es) -> es]
  /\ \A k, l \in 1..Cardinality(es) : k < l => Before(at, s[k], s[l])

---------------------------------------------------------------------------
(* Order.                                                                  *)

\* Stamps and, where they are equal, ids order the entries.
LEMMA BeforeIsOrder ==
  ASSUME NEW at \in [Entry -> Nat]
  PROVE  /\ \A e \in Entry : ~Before(at, e, e)
         /\ \A e, f \in Entry : e # f => Before(at, e, f) \/ Before(at, f, e)
         /\ \A e, f, g \in Entry : Before(at, e, f) /\ Before(at, f, g) => Before(at, e, g)
BY EntryAssumption DEF Before

\* Among subsets of a finite set there is one that contains no other.
LEMMA SmallestSubset ==
  ASSUME NEW S, IsFiniteSet(S), NEW Bad \in SUBSET (SUBSET S), Bad # {}
  PROVE  \E T \in Bad : \A U \in SUBSET T : U # T => U \notin Bad
<1>1. IsWellFoundedOn(StrictSubsetOrdering(S), SUBSET S)
  BY FS_StrictSubsetOrderingWellFounded, FS_FiniteSubsetsOfFinite
<1>2. PICK T \in Bad : \A U \in Bad : ~(<<U, T>> \in StrictSubsetOrdering(S))
  BY <1>1, WFMin
<1>3. ASSUME NEW U \in SUBSET T, U # T PROVE U \notin Bad
  BY <1>2, <1>3 DEF StrictSubsetOrdering
<1> QED BY <1>3

\* A finite set of entries has a latest one.
LEMMA GreatestExists ==
  ASSUME NEW at \in [Entry -> Nat], NEW es \in SUBSET Entry, IsFiniteSet(es), es # {}
  PROVE  \E g \in es : \A f \in es \ {g} : Before(at, f, g)
<1> DEFINE Has(s) == \E g \in s : \A f \in s \ {g} : Before(at, f, g)
           Bad == {s \in SUBSET es : s # {} /\ ~Has(s)}
<1> SUFFICES ASSUME Bad # {} PROVE FALSE
  OBVIOUS
<1>1. PICK s \in Bad : \A u \in SUBSET s : u # s => u \notin Bad
  <2>1. Bad \in SUBSET (SUBSET es) OBVIOUS
  <2> HIDE DEF Bad
  <2> QED BY <2>1, SmallestSubset
<1>2. PICK x \in s : x \in Entry BY <1>1
<1>3. CASE s = {x}
  <2>1. Has(s) BY <1>3
  <2> QED BY <1>1, <2>1
<1>4. CASE s # {x}
  <2>1. s \ {x} \in SUBSET s /\ s \ {x} # s /\ s \ {x} # {} BY <1>2, <1>4
  <2>2. Has(s \ {x}) BY <1>1, <2>1
  <2>3. PICK g \in s \ {x} : \A f \in (s \ {x}) \ {g} : Before(at, f, g) BY <2>2
  <2>4. g \in Entry /\ g # x /\ s \subseteq Entry BY <1>1, <2>3
  <2>5. CASE Before(at, x, g)
    <3>1. Has(s) BY <2>3, <2>5
    <3> QED BY <1>1, <3>1
  <2>6. CASE Before(at, g, x)
    <3>1. \A f \in s \ {x} : Before(at, f, x) BY <1>2, <2>3, <2>4, <2>6, BeforeIsOrder
    <3>2. Has(s) BY <3>1
    <3> QED BY <1>1, <3>2
  <2> QED BY <1>2, <2>4, <2>5, <2>6, BeforeIsOrder
<1> QED BY <1>3, <1>4

---------------------------------------------------------------------------
(* Lists.                                                                  *)

\* A list is a sequence as long as the set is large, without repetition.
LEMMA ListIsSeq ==
  ASSUME NEW at \in [Entry -> Nat], NEW es \in SUBSET Entry, IsFiniteSet(es),
         NEW s, Lists(at, s, es)
  PROVE  /\ Cardinality(es) \in Nat
         /\ s \in Seq(es) /\ s \in Seq(Entry)
         /\ Len(s) = Cardinality(es) /\ DOMAIN s = 1..Cardinality(es)
         /\ \A k, l \in 1..Cardinality(es) : k # l => s[k] # s[l]
<1>1. Cardinality(es) \in Nat BY FS_CardinalityType
<1> DEFINE n == Cardinality(es)
<1>2. s \in [1..n -> es] /\ \A k, l \in 1..n : k < l => Before(at, s[k], s[l]) BY DEF Lists
<1> HIDE DEF n
<1>3. n \in Nat BY <1>1 DEF n
<1>4. s \in Seq(es) /\ s \in Seq(Entry) /\ Len(s) = n /\ DOMAIN s = 1..n BY <1>2, <1>3
<1>5. ASSUME NEW k \in 1..n, NEW l \in 1..n, k # l PROVE s[k] # s[l]
  <2>1. s[k] \in Entry /\ s[l] \in Entry BY <1>2
  <2>2. k < l \/ l < k BY <1>3, <1>5
  <2>3. Before(at, s[k], s[l]) \/ Before(at, s[l], s[k]) BY <1>2, <2>2
  <2> QED BY <2>1, <2>3, BeforeIsOrder
<1> QED BY <1>1, <1>4, <1>5 DEF n

\* The last of a list is the greatest of the set.
LEMMA LastIsGreatest ==
  ASSUME NEW at \in [Entry -> Nat], NEW es \in SUBSET Entry, IsFiniteSet(es), es # {},
         NEW s, Lists(at, s, es)
  PROVE  /\ Len(s) \in 1..Cardinality(es) /\ s[Len(s)] \in es
         /\ \A f \in es \ {s[Len(s)]} : Before(at, f, s[Len(s)])
<1> DEFINE n == Cardinality(es)
<1>1. PICK g \in es : \A f \in es \ {g} : Before(at, f, g) BY GreatestExists
<1>2. n \in Nat /\ n # 0 /\ Len(s) = n /\ s \in [1..n -> es]
  BY FS_EmptySet, ListIsSeq DEF Lists
<1>3. \A k, l \in 1..n : k # l => s[k] # s[l] BY ListIsSeq
<1>4. \A k, l \in 1..n : k < l => Before(at, s[k], s[l]) BY DEF Lists
<1>5. Cardinality(es \ {g}) = n - 1 /\ IsFiniteSet(es \ {g}) BY FS_RemoveElement
<1> HIDE DEF n
<1>6. s[n] = g
  <2> SUFFICES ASSUME s[n] # g PROVE FALSE
    OBVIOUS
  <2>1. n \in 1..n BY <1>2
  <2>2. ASSUME NEW k \in 1..n PROVE s[k] # g
    <3> SUFFICES ASSUME s[k] = g PROVE FALSE
      OBVIOUS
    <3>1. k # n /\ k < n BY <1>2
    <3>2. Before(at, g, s[n]) BY <1>4, <2>1, <3>1
    <3>3. Before(at, s[n], g) /\ s[n] \in Entry /\ g \in Entry BY <1>1, <1>2, <2>1
    <3> QED BY <3>2, <3>3, BeforeIsOrder
  <2>3. s \in [1..n -> es \ {g}] BY <1>2, <2>2
  <2>4. IsFiniteSet(1..n) /\ Cardinality(1..n) = n BY <1>2, FS_Interval
  <2>5. Cardinality(es \ {g}) < Cardinality(1..n) BY <1>2, <1>5, <2>4
  <2> DEFINE S == 1..n
             T == es \ {g}
  <2>6. IsFiniteSet(S) /\ IsFiniteSet(T) /\ Cardinality(T) < Cardinality(S) /\ s \in [S -> T]
    BY <1>5, <2>3, <2>4, <2>5
  <2> HIDE DEF S, T
  <2>7. \E k, l \in S : k # l /\ s[k] = s[l] BY <2>6, FS_PigeonHole
  <2> USE DEF S
  <2> QED BY <1>3, <2>7
<1> QED BY <1>1, <1>2, <1>6 DEF n

\* A sequence is a function on its positions.
LEMMA SeqIsFunction == \A S : \A q \in Seq(S) : q \in [1..Len(q) -> S]
OBVIOUS

LEMMA JoinedIsSeq == \A S : \A p, q \in Seq(S) : p \o q \in Seq(S) /\ Len(p \o q) = Len(p) + Len(q)
OBVIOUS

\* Something later than all of the set goes to the end of its list.
LEMMA ListExtended ==
  ASSUME NEW at \in [Entry -> Nat], NEW es \in SUBSET Entry, IsFiniteSet(es),
         NEW s, Lists(at, s, es), NEW m \in Entry, \A e \in es : Before(at, e, m)
  PROVE  Lists(at, Append(s, m), es \union {m})
<1> DEFINE n == Cardinality(es)
           t == Append(s, m)
<1>1. m \notin es BY BeforeIsOrder
<1>2. n \in Nat /\ s \in Seq(es) /\ Len(s) = n BY ListIsSeq
<1>3. Cardinality(es \union {m}) = n + 1 BY <1>1, FS_AddElement
<1>4. \A k, l \in 1..n : k < l => Before(at, s[k], s[l]) BY DEF Lists
<1> HIDE DEF n
<1>5. /\ t \in [1..(n + 1) -> es \union {m}]
      /\ \A k \in 1..n : t[k] = s[k] /\ s[k] \in es
      /\ t[n + 1] = m
  <2>1. t \in Seq(es \union {m}) /\ Len(t) = n + 1 BY <1>2
  <2>2. t \in [1..(n + 1) -> es \union {m}] BY <2>1, SeqIsFunction
  <2>3. \A k \in 1..n : t[k] = s[k] /\ s[k] \in es BY <1>2
  <2>4. t[n + 1] = m BY <1>2
  <2> QED BY <2>2, <2>3, <2>4
<1> HIDE DEF t
<1>6. \A k, l \in 1..(n + 1) : k < l => Before(at, t[k], t[l])
  <2> SUFFICES ASSUME NEW k \in 1..(n + 1), NEW l \in 1..(n + 1), k < l
               PROVE  Before(at, t[k], t[l])
    OBVIOUS
  <2>1. k \in 1..n BY <1>2
  <2>2. CASE l \in 1..n BY <1>4, <1>5, <2>1, <2>2
  <2>3. CASE l = n + 1 BY <1>5, <2>1, <2>3
  <2> QED BY <1>2, <2>2, <2>3
<1> QED BY <1>3, <1>5, <1>6 DEF Lists, t

\* The list of a set without its greatest is the list cut short.
LEMMA ListCut ==
  ASSUME NEW at \in [Entry -> Nat], NEW es \in SUBSET Entry, IsFiniteSet(es), es # {},
         NEW s, Lists(at, s, es)
  PROVE  Lists(at, [k \in 1..(Len(s) - 1) |-> s[k]], es \ {s[Len(s)]})
<1> DEFINE n == Cardinality(es)
           cut == [k \in 1..(n - 1) |-> s[k]]
<1>1. n \in Nat /\ Len(s) = n /\ n \in 1..n /\ s[n] \in es
  BY ListIsSeq, LastIsGreatest
<1>2. \A k, l \in 1..n : k # l => s[k] # s[l] BY ListIsSeq
<1>3. s \in [1..n -> es] /\ \A k, l \in 1..n : k < l => Before(at, s[k], s[l]) BY DEF Lists
<1>4. Cardinality(es \ {s[n]}) = n - 1 BY <1>1, FS_RemoveElement
<1> HIDE DEF n
<1>5. cut \in [1..(n - 1) -> es \ {s[n]}]
  <2>1. ASSUME NEW k \in 1..(n - 1) PROVE s[k] \in es \ {s[n]}
    <3>1. k \in 1..n /\ k # n BY <1>1
    <3> QED BY <1>1, <1>2, <1>3, <3>1
  <2> QED BY <2>1
<1>6. \A k, l \in 1..(n - 1) : k < l => Before(at, cut[k], cut[l]) BY <1>1, <1>3
<1> HIDE DEF cut
<1>7. Lists(at, cut, es \ {s[n]}) BY <1>4, <1>5, <1>6 DEF Lists
<1> QED BY <1>1, <1>7 DEF cut

\* Every finite set of entries has a list,
LEMMA ListExists ==
  ASSUME NEW at \in [Entry -> Nat], NEW es \in SUBSET Entry, IsFiniteSet(es)
  PROVE  \E s : Lists(at, s, es)
<1> DEFINE Has(u) == \E s : Lists(at, s, u)
           Bad == {u \in SUBSET es : ~Has(u)}
<1> SUFFICES ASSUME Bad # {} PROVE FALSE
  OBVIOUS
<1>1. PICK u \in Bad : \A v \in SUBSET u : v # u => v \notin Bad
  <2>1. Bad \in SUBSET (SUBSET es) OBVIOUS
  <2> HIDE DEF Bad
  <2> QED BY <2>1, SmallestSubset
<1>2. u \in SUBSET Entry /\ IsFiniteSet(u) BY <1>1, FS_Subset
<1>3. u # {}
  <2>1. Cardinality({}) = 0 BY FS_EmptySet
  <2>2. Lists(at, <<>>, {}) BY <2>1 DEF Lists
  <2>3. Has({}) BY <2>2
  <2> QED BY <1>1, <2>3
<1>4. PICK g \in u : \A f \in u \ {g} : Before(at, f, g) BY <1>2, <1>3, GreatestExists
<1> DEFINE v == u \ {g}
<1>5. v \in SUBSET u /\ v # u /\ v \in SUBSET Entry /\ v \union {g} = u /\ g \in Entry
  BY <1>2, <1>4
<1>6. IsFiniteSet(v) BY <1>2, FS_RemoveElement
<1>7. PICK s : Lists(at, s, v)
  <2>1. v \notin Bad /\ v \in SUBSET es BY <1>1, <1>5
  <2> QED BY <2>1
<1>8. \A e \in v : Before(at, e, g) BY <1>4
<1> HIDE DEF v
<1>9. Lists(at, Append(s, g), u) BY <1>5, <1>6, <1>7, <1>8, ListExtended
<1>10. Has(u) BY <1>9
<1> QED BY <1>1, <1>10

\* and only one.
LEMMA ListUnique ==
  ASSUME NEW at \in [Entry -> Nat], NEW es \in SUBSET Entry, IsFiniteSet(es),
         NEW s, NEW t, Lists(at, s, es), Lists(at, t, es)
  PROVE  s = t
<1> DEFINE Two(u) == \E p, q : Lists(at, p, u) /\ Lists(at, q, u) /\ p # q
           Bad == {u \in SUBSET es : Two(u)}
<1> SUFFICES ASSUME Bad # {} PROVE FALSE
  <2>1. Bad = {} => ~Two(es) OBVIOUS
  <2> QED BY <2>1
<1>1. PICK u \in Bad : \A v \in SUBSET u : v # u => v \notin Bad
  <2>1. Bad \in SUBSET (SUBSET es) OBVIOUS
  <2> HIDE DEF Bad
  <2> QED BY <2>1, SmallestSubset
<1>2. u \in SUBSET Entry /\ IsFiniteSet(u) BY <1>1, FS_Subset
<1>3. PICK p, q : Lists(at, p, u) /\ Lists(at, q, u) /\ p # q BY <1>1
<1>4. p \in [1..Cardinality(u) -> u] /\ q \in [1..Cardinality(u) -> u] BY <1>3 DEF Lists
<1>5. u # {}
  <2> SUFFICES ASSUME u = {} PROVE FALSE
    OBVIOUS
  <2>1. Cardinality(u) = 0 BY FS_EmptySet
  <2>2. \A k \in 1..0 : FALSE OBVIOUS
  <2>3. 1..Cardinality(u) = {} BY <2>1, <2>2
  <2> DEFINE D == 1..Cardinality(u)
  <2>4. p \in [D -> u] /\ q \in [D -> u] /\ \A k \in D : p[k] = q[k] BY <1>4, <2>3
  <2> HIDE DEF D
  <2>5. p = q BY <2>4
  <2> QED BY <1>3, <2>5
<1> DEFINE n == Cardinality(u)
<1>6. n \in Nat /\ Len(p) = n /\ Len(q) = n /\ n \in 1..n
  BY <1>2, <1>3, <1>5, ListIsSeq, LastIsGreatest
<1>7. /\ p[n] \in u /\ \A f \in u \ {p[n]} : Before(at, f, p[n])
      /\ q[n] \in u /\ \A f \in u \ {q[n]} : Before(at, f, q[n])
  BY <1>2, <1>3, <1>5, <1>6, LastIsGreatest
<1>8. p[n] = q[n]
  <2> SUFFICES ASSUME p[n] # q[n] PROVE FALSE
    OBVIOUS
  <2>1. Before(at, p[n], q[n]) /\ Before(at, q[n], p[n]) /\ p[n] \in Entry /\ q[n] \in Entry
    BY <1>2, <1>7
  <2> QED BY <2>1, BeforeIsOrder
<1> DEFINE v == u \ {p[n]}
           Cut(f) == [k \in 1..(n - 1) |-> f[k]]
<1>9. Lists(at, Cut(p), v) /\ Lists(at, Cut(q), v)
  BY <1>2, <1>3, <1>5, <1>6, <1>8, ListCut
<1>10. v \in SUBSET u /\ v # u /\ v \in SUBSET es BY <1>1, <1>7
<1>11. ~Two(v) BY <1>1, <1>10
<1>12. Cut(p) = Cut(q)
  <2> HIDE DEF Cut, v
  <2> QED BY <1>9, <1>11
<1> HIDE DEF n
<1>13. ASSUME NEW k \in 1..n PROVE p[k] = q[k]
  <2>1. CASE k = n BY <1>8, <2>1
  <2>2. CASE k # n
    <3>1. k \in 1..(n - 1) BY <1>6, <2>2
    <3>2. Cut(p)[k] = p[k] /\ Cut(q)[k] = q[k] BY <3>1
    <3> QED BY <1>12, <3>2
  <2> QED BY <2>1, <2>2
<1>14. p \in [1..n -> u] /\ q \in [1..n -> u] BY <1>4 DEF n
<1> DEFINE D == 1..n
<1>15. p \in [D -> u] /\ q \in [D -> u] /\ \A k \in D : p[k] = q[k] BY <1>13, <1>14
<1> HIDE DEF D
<1>16. p = q BY <1>15
<1> QED BY <1>3, <1>16

\* The lists of two sets, one before the other, make the list of both.
LEMMA ListsJoined ==
  ASSUME NEW at \in [Entry -> Nat],
         NEW es \in SUBSET Entry, IsFiniteSet(es), NEW s, Lists(at, s, es),
         NEW fs \in SUBSET Entry, IsFiniteSet(fs), NEW t, Lists(at, t, fs),
         \A e \in es, f \in fs : Before(at, e, f)
  PROVE  Lists(at, s \o t, es \union fs)
<1> DEFINE n == Cardinality(es)
           m == Cardinality(fs)
           st == s \o t
<1>1. es \intersect fs = {} BY BeforeIsOrder
<1>2. /\ n \in Nat /\ s \in Seq(es) /\ s \in Seq(es \union fs) /\ Len(s) = n
      /\ m \in Nat /\ t \in Seq(fs) /\ t \in Seq(es \union fs) /\ Len(t) = m
  <2>1. n \in Nat /\ s \in Seq(es) /\ Len(s) = n BY ListIsSeq
  <2>2. m \in Nat /\ t \in Seq(fs) /\ Len(t) = m BY ListIsSeq
  <2>3. s \in Seq(es \union fs) /\ t \in Seq(es \union fs) BY <2>1, <2>2
  <2> QED BY <2>1, <2>2, <2>3
<1>3. Cardinality(es \union fs) = n + m
  <2>1. Cardinality(es \union fs) = n + m - Cardinality(es \intersect fs) BY FS_Union
  <2>2. Cardinality(es \intersect fs) = 0 BY <1>1, FS_EmptySet
  <2> HIDE DEF n, m
  <2> QED BY <1>2, <2>1, <2>2
<1>4. /\ \A k, l \in 1..n : k < l => Before(at, s[k], s[l])
      /\ \A k, l \in 1..m : k < l => Before(at, t[k], t[l])
  BY DEF Lists
<1> HIDE DEF n, m
<1>5. /\ st \in [1..(n + m) -> es \union fs]
      /\ \A k \in 1..n : st[k] = s[k] /\ s[k] \in es
      /\ \A k \in (n + 1)..(n + m) : st[k] = t[k - n] /\ k - n \in 1..m /\ t[k - n] \in fs
  <2>1. st \in Seq(es \union fs) /\ Len(st) = n + m BY <1>2, JoinedIsSeq
  <2>2. st \in [1..(n + m) -> es \union fs] BY <2>1, SeqIsFunction
  <2>3. \A k \in 1..n : st[k] = s[k] /\ s[k] \in es BY <1>2
  <2>4. \A k \in (n + 1)..(n + m) : st[k] = t[k - n] /\ k - n \in 1..m /\ t[k - n] \in fs
    BY <1>2
  <2> QED BY <2>2, <2>3, <2>4
<1> HIDE DEF st
<1>6. \A k, l \in 1..(n + m) : k < l => Before(at, st[k], st[l])
  <2> SUFFICES ASSUME NEW k \in 1..(n + m), NEW l \in 1..(n + m), k < l
               PROVE  Before(at, st[k], st[l])
    OBVIOUS
  <2>1. k \in 1..n \/ k \in (n + 1)..(n + m) BY <1>2
  <2>2. l \in 1..n \/ l \in (n + 1)..(n + m) BY <1>2
  <2>3. CASE k \in 1..n /\ l \in 1..n BY <1>4, <1>5, <2>3
  <2>4. CASE k \in 1..n /\ l \in (n + 1)..(n + m) BY <1>5, <2>4
  <2>5. CASE k \in (n + 1)..(n + m) /\ l \in (n + 1)..(n + m)
    <3>1. k - n \in 1..m /\ l - n \in 1..m /\ k - n < l - n BY <1>2, <1>5, <2>5
    <3> QED BY <1>4, <1>5, <2>5, <3>1
  <2>6. ~(k \in (n + 1)..(n + m) /\ l \in 1..n) BY <1>2
  <2> QED BY <2>1, <2>2, <2>3, <2>4, <2>5, <2>6
<1>7. Lists(at, st, es \union fs) BY <1>3, <1>5, <1>6 DEF Lists
<1> QED BY <1>7 DEF st
---------------------------------------------------------------------------
(* The invariant.  What it says of the log is said of a table `lg`, so     *)
(* that a lemma may speak of the log before and after a step.              *)

LogTable == [Entry -> [in : BOOLEAN, at : Nat, prev : Entry \union {None}]]
AnchorRow == [zeros : BOOLEAN, fold : Seq(Entry), mark : (Nat \union {-1}) \X Nat]

Ats(lg) == [e \in Entry |-> lg[e].at]
Logged(lg) == {e \in Entry : lg[e].in}
KeyIn(lg, e) == <<lg[e].at, e>>

\* The entries at or before a watermark, and those past it.
UpTo(lg, mark) == {e \in Logged(lg) : ~Less(mark, KeyIn(lg, e))}
Beyond(lg, mark) == {e \in Logged(lg) : Less(mark, KeyIn(lg, e))}

Ascends(lg, s) == \A k, l \in DOMAIN s : k < l => Before(Ats(lg), s[k], s[l])

\* A root counts committed entries, in order and none past its watermark; the
\* watermark is where the log begins or one of its entries.
Sound(lg, a) ==
  /\ \A k \in DOMAIN a.fold : a.fold[k] \in UpTo(lg, a.mark)
  /\ Ascends(lg, a.fold)
  /\ a.mark = <<-1, 0>> \/ \E e \in Logged(lg) : a.mark = KeyIn(lg, e)

\* It leaves none out.
Whole(lg, a) == Lists(Ats(lg), a.fold, UpTo(lg, a.mark))

\* The rows a run of the job read past the anchor p, and the watermark it will set.
NextMark(lg, p, rows) == IF rows = <<>> THEN p.mark ELSE KeyIn(lg, Last(rows))

RowsSound(lg, p, rows) ==
  /\ \A k \in DOMAIN rows : rows[k] \in Beyond(lg, p.mark)
  /\ Ascends(lg, rows)

RowsWhole(lg, p, rows) ==
  Lists(Ats(lg), rows, Beyond(lg, p.mark) \intersect UpTo(lg, NextMark(lg, p, rows)))

\* The walk over the log finds each entry linked to the one before it.
Linked(lg, s) == \A k \in DOMAIN s : lg[s[k]].prev = IF k = 1 THEN None ELSE s[k - 1]

\* The log is finite; what is being written is not in it yet, and by one writer.
LogInv ==
  /\ IsFiniteSet(Logged(log))
  /\ \A w \in Writer : ~At(w, "idle") => ~log[writer[w].entry].in
  /\ \A w, x \in Writer : ~At(w, "idle") /\ writer[x].entry = writer[w].entry => x = w

AnchorInv == \A i \in DOMAIN anchors : Sound(log, anchors[i])

\* Zeros come from an anchor of an empty log and are handed on.
ZerosInv == \A i \in DOMAIN anchors :
              anchors[i].zeros => \E k \in 1..i : anchors[k].fold = <<>>

JobInv == \A j \in Job : job[j].step = "persist" => RowsSound(log, Prior(j), job[j].rows)

\* The end of the log, if it has one.
End(lg, e) ==
  \/ Logged(lg) = {} /\ e = None
  \/ e \in Logged(lg) /\ \A f \in Logged(lg) \ {e} : Before(Ats(lg), f, e)

\* While writers take turns, the one that writes was stamped after all of the log
\* and holds its end.
TurnInv ==
  /\ \A w, x \in Writer : At(w, "idle") \/ At(x, "idle") \/ w = x
  /\ \A w \in Writer : ~At(w, "idle") => \A f \in Logged(log) : log[f].at < writer[w].at
  /\ \A w \in Writer : At(w, "lock") \/ At(w, "locked") => End(log, writer[w].head)

CalmInv == calm =>
  /\ TurnInv
  /\ \E walk : Lists(Ats(log), walk, Logged(log)) /\ Linked(log, walk)
  /\ \A i \in DOMAIN anchors : Whole(log, anchors[i])
  /\ \A j \in Job : job[j].step = "persist" => RowsWhole(log, Prior(j), job[j].rows)

IInv == TypeOK /\ LogInv /\ AnchorInv /\ ZerosInv /\ JobInv /\ CalmInv

---------------------------------------------------------------------------
(* Keys and watermarks.                                                    *)

LEMMA LessIsOrder ==
  /\ \A k \in Int \X Nat : ~Less(k, k)
  /\ \A k, l \in Int \X Nat : k # l => Less(k, l) \/ Less(l, k)
  /\ \A k, l, m \in Int \X Nat : Less(k, l) /\ Less(l, m) => Less(k, m)
BY DEF Less

LEMMA KeysOfLog ==
  ASSUME NEW lg \in LogTable
  PROVE  /\ Ats(lg) \in [Entry -> Nat]
         /\ Logged(lg) \in SUBSET Entry
         /\ \A e \in Entry : KeyIn(lg, e) \in Nat \X Nat /\ KeyIn(lg, e) \in Int \X Nat
         /\ \A e, f \in Entry : Less(KeyIn(lg, e), KeyIn(lg, f)) <=> Before(Ats(lg), e, f)
BY EntryAssumption DEF LogTable, Ats, Logged, KeyIn, Less, Before

\* The log of a state and its helpers in the model.
LEMMA LogOfState ==
  /\ Committed = Logged(log)
  /\ \A e \in Entry : Key(e) = KeyIn(log, e)
  /\ \A mark : Past(mark) = Beyond(log, mark)
BY DEF Committed, Logged, Key, KeyIn, Past, Beyond

LEMMA InOrderIsAscends ==
  TypeOK => \A s \in Seq(Entry) : InOrder(s) <=> Ascends(log, s)
<1> SUFFICES ASSUME TypeOK, NEW s \in Seq(Entry) PROVE InOrder(s) <=> Ascends(log, s)
  OBVIOUS
<1>1. \A k \in DOMAIN s : s[k] \in Entry OBVIOUS
<1>2. log \in LogTable BY DEF TypeOK, LogTable
<1>3. \A e, f \in Entry : Less(Key(e), Key(f)) <=> Before(Ats(log), e, f)
  BY <1>2, KeysOfLog, LogOfState
<1> QED BY <1>1, <1>3 DEF InOrder, Ascends

\* ORDER BY returns the list of the rows it is given.
LEMMA SortedIs ==
  TypeOK => \A es \in SUBSET Entry : IsFiniteSet(es) =>
              /\ Lists(Ats(log), Sorted(es), es)
              /\ \A s : Lists(Ats(log), s, es) => s = Sorted(es)
<1> SUFFICES ASSUME TypeOK, NEW es \in SUBSET Entry, IsFiniteSet(es)
             PROVE  /\ Lists(Ats(log), Sorted(es), es)
                    /\ \A s : Lists(Ats(log), s, es) => s = Sorted(es)
  OBVIOUS
<1>1. log \in LogTable BY DEF TypeOK, LogTable
<1>2. Ats(log) \in [Entry -> Nat] BY <1>1, KeysOfLog
<1>3. PICK t : Lists(Ats(log), t, es) BY <1>2, ListExists
<1>4. \A s : Lists(Ats(log), s, es) <=> s \in [1..Cardinality(es) -> es] /\ InOrder(s)
  <2> SUFFICES ASSUME NEW s \in [1..Cardinality(es) -> es]
               PROVE  InOrder(s) <=> \A k, l \in 1..Cardinality(es) :
                                       k < l => Before(Ats(log), s[k], s[l])
    BY DEF Lists
  <2>1. DOMAIN s = 1..Cardinality(es) /\ \A k \in 1..Cardinality(es) : s[k] \in Entry OBVIOUS
  <2>2. \A e, f \in Entry : Less(Key(e), Key(f)) <=> Before(Ats(log), e, f)
    BY <1>1, KeysOfLog, LogOfState
  <2> QED BY <2>1, <2>2 DEF InOrder
<1>5. Sorted(es) \in [1..Cardinality(es) -> es] /\ InOrder(Sorted(es))
  BY <1>3, <1>4 DEF Sorted
<1>6. Lists(Ats(log), Sorted(es), es) BY <1>4, <1>5
<1>7. \A s : Lists(Ats(log), s, es) => s = Sorted(es) BY <1>2, <1>6, ListUnique
<1> QED BY <1>6, <1>7

\* So does LIMIT 1, of the log in the opposite order.
LEMMA LatestIs ==
  ASSUME TypeOK, LogInv
  PROVE  End(log, Latest)
<1>1. log \in LogTable BY DEF TypeOK, LogTable
<1>2. CASE Logged(log) = {} BY <1>2, LogOfState DEF Latest, End
<1>3. CASE Logged(log) # {}
  <2>1. PICK g \in Logged(log) : \A f \in Logged(log) \ {g} : Before(Ats(log), f, g)
    BY <1>1, <1>3, KeysOfLog, GreatestExists DEF LogInv
  <2>2. \A e, f \in Logged(log) : Less(Key(f), Key(e)) <=> Before(Ats(log), f, e)
    BY <1>1, KeysOfLog, LogOfState
  <2>3. \A f \in Logged(log) \ {g} : Less(Key(f), Key(g)) BY <2>1, <2>2
  <2>4. Latest \in Logged(log) /\ \A f \in Logged(log) \ {Latest} : Less(Key(f), Key(Latest))
    BY <1>3, <2>3, LogOfState DEF Latest
  <2> QED BY <2>2, <2>4 DEF End
<1> QED BY <1>2, <1>3

---------------------------------------------------------------------------
(* The log grows, and the entries in it stay as they are.                  *)

Grown(lg, lh) ==
  /\ lg \in LogTable /\ lh \in LogTable
  /\ \A e \in Logged(lg) : e \in Logged(lh) /\ lh[e] = lg[e]

\* What is new is later than what is old.
Later(lg, lh) ==
  /\ Grown(lg, lh)
  /\ \A e \in Logged(lg), m \in Logged(lh) \ Logged(lg) : Before(Ats(lh), e, m)

\* Keys of old entries are what they were.
LEMMA KeysKept ==
  ASSUME NEW lg, NEW lh, Grown(lg, lh)
  PROVE  \A e \in Logged(lg) :
           /\ e \in Entry /\ e \in Logged(lh)
           /\ KeyIn(lh, e) = KeyIn(lg, e) /\ Ats(lh)[e] = Ats(lg)[e]
BY DEF Grown, Logged, KeyIn, Ats

\* A sound anchor stays one.
LEMMA SoundKept ==
  ASSUME NEW lg, NEW lh, Grown(lg, lh), NEW a, Sound(lg, a)
  PROVE  Sound(lh, a)
<1>1. \A k \in DOMAIN a.fold : a.fold[k] \in UpTo(lh, a.mark) /\ a.fold[k] \in Logged(lg)
  BY KeysKept DEF Sound, UpTo
<1>2. Ascends(lh, a.fold)
  <2>1. \A k, l \in DOMAIN a.fold : k < l => Before(Ats(lg), a.fold[k], a.fold[l])
    BY DEF Sound, Ascends
  <2> QED BY <1>1, <2>1, KeysKept DEF Ascends, Before
<1>3. a.mark = <<-1, 0>> \/ \E e \in Logged(lh) : a.mark = KeyIn(lh, e)
  <2>1. a.mark = <<-1, 0>> \/ \E e \in Logged(lg) : a.mark = KeyIn(lg, e) BY DEF Sound
  <2> QED BY <2>1, KeysKept
<1> QED BY <1>1, <1>2, <1>3 DEF Sound

\* So do the rows somebody read.
LEMMA RowsKept ==
  ASSUME NEW lg, NEW lh, Grown(lg, lh), NEW p, NEW rows, RowsSound(lg, p, rows)
  PROVE  RowsSound(lh, p, rows)
<1>1. \A k \in DOMAIN rows : rows[k] \in Beyond(lh, p.mark) /\ rows[k] \in Logged(lg)
  BY KeysKept DEF RowsSound, Beyond
<1>2. Ascends(lh, rows)
  <2>1. \A k, l \in DOMAIN rows : k < l => Before(Ats(lg), rows[k], rows[l])
    BY DEF RowsSound, Ascends
  <2> QED BY <1>1, <2>1, KeysKept DEF Ascends, Before
<1> QED BY <1>1, <1>2 DEF RowsSound

\* A list of old entries stays the list of them.
LEMMA ListKept ==
  ASSUME NEW lg, NEW lh, Grown(lg, lh), NEW es \in SUBSET Logged(lg), NEW s,
         Lists(Ats(lg), s, es)
  PROVE  Lists(Ats(lh), s, es)
<1> DEFINE n == Cardinality(es)
<1>1. s \in [1..n -> es] /\ \A k, l \in 1..n : k < l => Before(Ats(lg), s[k], s[l])
  BY DEF Lists
<1> HIDE DEF n
<1>2. \A k \in 1..n : s[k] \in Logged(lg) BY <1>1
<1>3. \A k, l \in 1..n : k < l => Before(Ats(lh), s[k], s[l])
  BY <1>1, <1>2, KeysKept DEF Before
<1> QED BY <1>1, <1>3 DEF Lists, n

\* Later entries lie past every watermark there is.
LEMMA UpToKept ==
  ASSUME NEW lg, NEW lh, Later(lg, lh), NEW mark,
         mark = <<-1, 0>> \/ \E e \in Logged(lg) : mark = KeyIn(lg, e)
  PROVE  UpTo(lh, mark) = UpTo(lg, mark)
<1>1. Grown(lg, lh) /\ lg \in LogTable /\ lh \in LogTable BY DEF Later, Grown
<1>2. \A e \in Logged(lg) : e \in UpTo(lh, mark) <=> e \in UpTo(lg, mark)
  BY <1>1, KeysKept DEF UpTo
<1>3. ASSUME NEW m \in Logged(lh) \ Logged(lg) PROVE Less(mark, KeyIn(lh, m))
  <2>1. m \in Entry /\ KeyIn(lh, m) \in Nat \X Nat BY <1>1, KeysOfLog
  <2>2. CASE mark = <<-1, 0>> BY <2>1, <2>2 DEF Less
  <2>3. ASSUME NEW e \in Logged(lg), mark = KeyIn(lg, e) PROVE Less(mark, KeyIn(lh, m))
    <3>1. Before(Ats(lh), e, m) BY DEF Later
    <3>2. e \in Entry /\ KeyIn(lh, e) = KeyIn(lg, e) BY <1>1, KeysKept
    <3>3. Less(KeyIn(lh, e), KeyIn(lh, m)) BY <1>1, <2>1, <3>1, <3>2, KeysOfLog
    <3> QED BY <2>3, <3>2, <3>3
  <2> QED BY <2>2, <2>3
<1>4. \A e \in UpTo(lh, mark) : e \in Logged(lg) BY <1>3 DEF UpTo
<1>5. UpTo(lg, mark) \subseteq Logged(lg) BY DEF UpTo
<1> QED BY <1>2, <1>4, <1>5

\* So an anchor that leaves nothing out goes on doing so,
LEMMA WholeKept ==
  ASSUME NEW lg, NEW lh, Later(lg, lh), NEW a, Sound(lg, a), Whole(lg, a)
  PROVE  Whole(lh, a)
<1>1. UpTo(lh, a.mark) = UpTo(lg, a.mark) BY UpToKept DEF Sound
<1>2. UpTo(lg, a.mark) \in SUBSET Logged(lg) BY DEF UpTo
<1>3. Lists(Ats(lh), a.fold, UpTo(lg, a.mark)) BY <1>2, ListKept DEF Whole, Later
<1> QED BY <1>1, <1>3 DEF Whole

\* The watermark a run will set is one the log has.
LEMMA NextMarkIs ==
  ASSUME NEW lg \in LogTable, NEW p \in AnchorRow, Sound(lg, p),
         NEW rows \in Seq(Entry), RowsSound(lg, p, rows)
  PROVE  LET m == NextMark(lg, p, rows) IN
           /\ m = <<-1, 0>> \/ \E e \in Logged(lg) : m = KeyIn(lg, e)
           /\ m = p.mark \/ Less(p.mark, m)
           /\ \A k \in DOMAIN rows : ~Less(m, KeyIn(lg, rows[k]))
           /\ p.mark \in Int \X Nat /\ m \in Int \X Nat
<1> DEFINE m == NextMark(lg, p, rows)
<1>1. p.mark \in Int \X Nat BY DEF AnchorRow
<1>2. CASE rows = <<>>
  <2>1. m = p.mark /\ DOMAIN rows = {} BY <1>2 DEF NextMark
  <2> QED BY <1>1, <2>1 DEF Sound
<1>3. CASE rows # <<>>
  <2>1. Len(rows) \in DOMAIN rows /\ DOMAIN rows = 1..Len(rows) BY <1>3
  <2> DEFINE last == rows[Len(rows)]
  <2>2. m = KeyIn(lg, last) BY <1>3 DEF NextMark, Last
  <2>3. \A k \in DOMAIN rows : /\ rows[k] \in Logged(lg) /\ rows[k] \in Entry
                               /\ Less(p.mark, KeyIn(lg, rows[k]))
                               /\ KeyIn(lg, rows[k]) \in Int \X Nat
    BY KeysOfLog DEF RowsSound, Beyond
  <2>4. ASSUME NEW k \in DOMAIN rows PROVE ~Less(m, KeyIn(lg, rows[k]))
    <3>1. CASE k = Len(rows) BY <2>1, <2>2, <2>3, <3>1, LessIsOrder
    <3>2. CASE k # Len(rows)
      <4>1. k < Len(rows) BY <2>1, <3>2
      <4>2. Before(Ats(lg), rows[k], last) BY <2>1, <4>1 DEF RowsSound, Ascends
      <4>3. Less(KeyIn(lg, rows[k]), m) BY <2>1, <2>2, <2>3, <4>2, KeysOfLog
      <4> QED BY <2>1, <2>2, <2>3, <4>3, LessIsOrder
    <3> QED BY <3>1, <3>2
  <2> QED BY <1>1, <2>1, <2>2, <2>3, <2>4
<1> QED BY <1>2, <1>3

\* and so do the rows of a run.
LEMMA RowsWholeKept ==
  ASSUME NEW lg, NEW lh, Later(lg, lh), NEW p \in AnchorRow, Sound(lg, p),
         NEW rows \in Seq(Entry), RowsSound(lg, p, rows), RowsWhole(lg, p, rows)
  PROVE  RowsWhole(lh, p, rows)
<1> DEFINE m == NextMark(lg, p, rows)
           es == Beyond(lg, p.mark) \intersect UpTo(lg, m)
<1>1. Grown(lg, lh) /\ lg \in LogTable /\ lh \in LogTable BY DEF Later, Grown
<1>2. m = <<-1, 0>> \/ \E e \in Logged(lg) : m = KeyIn(lg, e) BY <1>1, NextMarkIs
<1>3. NextMark(lh, p, rows) = m
  <2>1. CASE rows = <<>> BY <2>1 DEF NextMark
  <2>2. CASE rows # <<>>
    <3>1. Len(rows) \in DOMAIN rows BY <2>2
    <3>2. Last(rows) \in Logged(lg) BY <3>1 DEF RowsSound, Beyond, Last
    <3> QED BY <1>1, <2>2, <3>2, KeysKept DEF NextMark
  <2> QED BY <2>1, <2>2
<1>4. UpTo(lh, m) = UpTo(lg, m) BY <1>2, UpToKept
<1>5. Beyond(lh, p.mark) \intersect UpTo(lg, m) = es
  <2>1. UpTo(lg, m) \subseteq Logged(lg) BY DEF UpTo
  <2>2. \A e \in Logged(lg) : e \in Beyond(lh, p.mark) <=> e \in Beyond(lg, p.mark)
    BY <1>1, KeysKept DEF Beyond
  <2> QED BY <2>1, <2>2
<1>6. es \in SUBSET Logged(lg) BY DEF UpTo
<1>7. Lists(Ats(lg), rows, es) BY DEF RowsWhole
<1> HIDE DEF m, es
<1>8. Lists(Ats(lh), rows, es) BY <1>1, <1>6, <1>7, ListKept
<1> QED BY <1>3, <1>4, <1>5, <1>8 DEF RowsWhole

---------------------------------------------------------------------------
(* What the job makes of the log.                                          *)

\* The anchor in place of the one there is not.
Start == [zeros |-> FALSE, fold |-> <<>>, mark |-> <<-1, 0>>]

LEMMA StartIsSound ==
  ASSUME NEW lg \in LogTable
  PROVE  Start \in AnchorRow /\ Sound(lg, Start) /\ Whole(lg, Start)
<1>1. Start.fold = <<>> /\ Start.mark = <<-1, 0>> /\ DOMAIN <<>> = {} BY DEF Start
<1>2. Start \in AnchorRow BY DEF Start, AnchorRow
<1>3. Sound(lg, Start) BY <1>1 DEF Sound, Ascends
<1>4. UpTo(lg, <<-1, 0>>) = {}
  <2>1. \A e \in Logged(lg) : KeyIn(lg, e) \in Nat \X Nat BY KeysOfLog
  <2>2. \A e \in Logged(lg) : Less(<<-1, 0>>, KeyIn(lg, e)) BY <2>1 DEF Less
  <2> QED BY <2>2 DEF UpTo
<1>5. Whole(lg, Start)
  <2>1. Cardinality({}) = 0 BY FS_EmptySet
  <2>2. Lists(Ats(lg), <<>>, {}) BY <2>1 DEF Lists
  <2> QED BY <1>1, <1>4, <2>2 DEF Whole
<1> QED BY <1>2, <1>3, <1>5

\* Rows just read are all that lies past the prior anchor.
LEMMA ReadIsWhole ==
  ASSUME NEW lg \in LogTable, IsFiniteSet(Logged(lg)), NEW p \in AnchorRow, NEW rows,
         Lists(Ats(lg), rows, Beyond(lg, p.mark))
  PROVE  rows \in Seq(Entry) /\ RowsSound(lg, p, rows) /\ RowsWhole(lg, p, rows)
<1> DEFINE es == Beyond(lg, p.mark)
           m == NextMark(lg, p, rows)
<1>1. es \in SUBSET Entry /\ IsFiniteSet(es) /\ Ats(lg) \in [Entry -> Nat]
  <2>1. es \in SUBSET Logged(lg) BY DEF Beyond
  <2> QED BY <2>1, FS_Subset, KeysOfLog
<1>2. /\ rows \in Seq(Entry) /\ rows \in Seq(es) /\ Len(rows) = Cardinality(es)
      /\ DOMAIN rows = 1..Cardinality(es)
  BY <1>1, ListIsSeq
<1>3. RowsSound(lg, p, rows)
  <2>1. \A k \in DOMAIN rows : rows[k] \in es BY <1>2
  <2>2. Ascends(lg, rows) BY <1>2 DEF Lists, Ascends
  <2> QED BY <2>1, <2>2 DEF RowsSound
<1>4. \A e \in es : e \in UpTo(lg, m)
  <2>1. CASE es = {} BY <2>1
  <2>2. CASE es # {}
    <3> DEFINE last == rows[Len(rows)]
    <3>1. /\ last \in es /\ Len(rows) \in 1..Cardinality(es)
          /\ \A f \in es \ {last} : Before(Ats(lg), f, last)
      BY <1>1, <2>2, LastIsGreatest
    <3>2. rows # <<>>
      <4>1. Cardinality(es) \in Nat BY <1>1, FS_CardinalityType
      <4>2. Len(rows) # 0 BY <3>1, <4>1
      <4> QED BY <4>2
    <3>3. m = KeyIn(lg, last) BY <3>2 DEF NextMark, Last
    <3> HIDE DEF last, m
    <3>4. ASSUME NEW e \in es PROVE ~Less(KeyIn(lg, last), KeyIn(lg, e))
      <4>1. e \in Entry /\ last \in Entry BY <1>1, <3>1
      <4>2. KeyIn(lg, e) \in Int \X Nat /\ KeyIn(lg, last) \in Int \X Nat BY <4>1, KeysOfLog
      <4>3. CASE e = last BY <4>2, <4>3, LessIsOrder
      <4>4. CASE e # last
        <5>1. Less(KeyIn(lg, e), KeyIn(lg, last)) BY <3>1, <4>1, <4>4, KeysOfLog
        <5> QED BY <4>2, <5>1, LessIsOrder
      <4> QED BY <4>3, <4>4
    <3>5. es \subseteq Logged(lg) BY DEF Beyond
    <3> QED BY <3>3, <3>4, <3>5 DEF UpTo
  <2> QED BY <2>1, <2>2
<1>5. es \intersect UpTo(lg, m) = es BY <1>4
<1> QED BY <1>2, <1>3, <1>5 DEF RowsWhole

\* The anchor a run persists.
NextAnchor(lg, p, rows) == [zeros |-> p.zeros \/ p.fold \o rows = <<>>,
                            fold |-> p.fold \o rows, mark |-> NextMark(lg, p, rows)]

\* What the prior anchor counted lies before what was read past it.
LEMMA UpToBeforeBeyond ==
  ASSUME NEW lg \in LogTable, NEW p \in AnchorRow,
         NEW e \in UpTo(lg, p.mark), NEW f \in Beyond(lg, p.mark)
  PROVE  Before(Ats(lg), e, f)
<1>1. e \in Logged(lg) /\ f \in Logged(lg) BY DEF UpTo, Beyond
<1>2. /\ e \in Entry /\ f \in Entry /\ p.mark \in Int \X Nat
      /\ KeyIn(lg, e) \in Int \X Nat /\ KeyIn(lg, f) \in Int \X Nat
  BY <1>1, KeysOfLog DEF AnchorRow
<1>3. ~Less(p.mark, KeyIn(lg, e)) /\ Less(p.mark, KeyIn(lg, f)) BY DEF UpTo, Beyond
<1>4. Less(KeyIn(lg, e), KeyIn(lg, f))
  <2>1. p.mark = KeyIn(lg, e) \/ Less(KeyIn(lg, e), p.mark) BY <1>2, <1>3, LessIsOrder
  <2> QED BY <1>2, <1>3, <2>1, LessIsOrder
<1> QED BY <1>2, <1>4, KeysOfLog

LEMMA NextIsSound ==
  ASSUME NEW lg \in LogTable, NEW p \in AnchorRow, Sound(lg, p),
         NEW rows \in Seq(Entry), RowsSound(lg, p, rows)
  PROVE  NextAnchor(lg, p, rows) \in AnchorRow /\ Sound(lg, NextAnchor(lg, p, rows))
<1> DEFINE m == NextMark(lg, p, rows)
           fold == p.fold \o rows
           n == Len(p.fold)
<1>1. /\ m = <<-1, 0>> \/ \E e \in Logged(lg) : m = KeyIn(lg, e)
      /\ m = p.mark \/ Less(p.mark, m)
      /\ \A k \in DOMAIN rows : ~Less(m, KeyIn(lg, rows[k]))
      /\ p.mark \in Int \X Nat /\ m \in Int \X Nat
  BY NextMarkIs
<1> HIDE DEF m
<1>2. p.fold \in Seq(Entry) /\ n \in Nat BY DEF AnchorRow
<1>3. /\ DOMAIN p.fold = 1..n /\ DOMAIN rows = 1..Len(rows) /\ DOMAIN fold = 1..(n + Len(rows))
      /\ \A k \in 1..n : fold[k] = p.fold[k]
      /\ \A k \in (n + 1)..(n + Len(rows)) : fold[k] = rows[k - n] /\ k - n \in 1..Len(rows)
  BY <1>2
<1>4. fold \in Seq(Entry) BY <1>2, JoinedIsSeq
<1> HIDE DEF fold, n
<1>5. Len(rows) \in Nat OBVIOUS
<1>6. ASSUME NEW k \in DOMAIN p.fold PROVE p.fold[k] \in UpTo(lg, p.mark) /\ p.fold[k] \in UpTo(lg, m)
  <2>1. p.fold[k] \in UpTo(lg, p.mark) BY DEF Sound
  <2>2. p.fold[k] \in Logged(lg) /\ ~Less(p.mark, KeyIn(lg, p.fold[k])) BY <2>1 DEF UpTo
  <2>3. KeyIn(lg, p.fold[k]) \in Int \X Nat BY <2>2, KeysOfLog
  <2>4. ~Less(m, KeyIn(lg, p.fold[k])) BY <1>1, <2>2, <2>3, LessIsOrder
  <2> QED BY <2>1, <2>2, <2>4 DEF UpTo
<1>7. ASSUME NEW k \in DOMAIN rows PROVE rows[k] \in Beyond(lg, p.mark) /\ rows[k] \in UpTo(lg, m)
  <2>1. rows[k] \in Beyond(lg, p.mark) BY DEF RowsSound
  <2>2. rows[k] \in Logged(lg) BY <2>1 DEF Beyond
  <2> QED BY <1>1, <2>1, <2>2 DEF UpTo
<1>8. \A k \in DOMAIN fold : k \in 1..n \/ k \in (n + 1)..(n + Len(rows)) BY <1>2, <1>3, <1>5
<1>9. \A k \in DOMAIN fold : fold[k] \in UpTo(lg, m) BY <1>3, <1>6, <1>7, <1>8
<1>10. Ascends(lg, fold)
  <2> SUFFICES ASSUME NEW k \in DOMAIN fold, NEW l \in DOMAIN fold, k < l
               PROVE  Before(Ats(lg), fold[k], fold[l])
    BY DEF Ascends
  <2>1. CASE k \in 1..n /\ l \in 1..n BY <1>3, <2>1 DEF Sound, Ascends
  <2>2. CASE k \in 1..n /\ l \in (n + 1)..(n + Len(rows))
    <3>1. fold[k] \in UpTo(lg, p.mark) /\ fold[l] \in Beyond(lg, p.mark) BY <1>3, <1>6, <1>7, <2>2
    <3> QED BY <3>1, UpToBeforeBeyond
  <2>3. CASE k \in (n + 1)..(n + Len(rows)) /\ l \in (n + 1)..(n + Len(rows))
    <3>1. k - n \in DOMAIN rows /\ l - n \in DOMAIN rows /\ k - n < l - n BY <1>2, <1>3, <1>5, <2>3
    <3>2. Before(Ats(lg), rows[k - n], rows[l - n]) BY <3>1 DEF RowsSound, Ascends
    <3> QED BY <1>3, <2>3, <3>2
  <2>4. ~(k \in (n + 1)..(n + Len(rows)) /\ l \in 1..n) BY <1>2, <1>5
  <2> QED BY <1>8, <2>1, <2>2, <2>3, <2>4
<1> DEFINE a == NextAnchor(lg, p, rows)
<1>11. /\ a = [zeros |-> a.zeros, fold |-> fold, mark |-> m]
       /\ a.zeros \in BOOLEAN
  <2>1. a = [zeros |-> p.zeros \/ fold = <<>>, fold |-> fold, mark |-> m]
    BY DEF NextAnchor, fold, m
  <2>2. p.zeros \in BOOLEAN BY DEF AnchorRow
  <2> QED BY <2>1, <2>2
<1>12. a.fold = fold /\ a.mark = m BY <1>11
<1>13. m \in (Nat \union {-1}) \X Nat
  <2>1. \A e \in Logged(lg) : KeyIn(lg, e) \in Nat \X Nat BY KeysOfLog
  <2> QED BY <1>1, <2>1
<1>14. a \in AnchorRow BY <1>4, <1>11, <1>13 DEF AnchorRow
<1> HIDE DEF a
<1>15. Sound(lg, a) BY <1>1, <1>9, <1>10, <1>12 DEF Sound
<1> QED BY <1>14, <1>15 DEF a

LEMMA NextIsWhole ==
  ASSUME NEW lg \in LogTable, IsFiniteSet(Logged(lg)),
         NEW p \in AnchorRow, Sound(lg, p), Whole(lg, p),
         NEW rows \in Seq(Entry), RowsSound(lg, p, rows), RowsWhole(lg, p, rows)
  PROVE  Whole(lg, NextAnchor(lg, p, rows))
<1> DEFINE m == NextMark(lg, p, rows)
           es == UpTo(lg, p.mark)
           fs == Beyond(lg, p.mark) \intersect UpTo(lg, m)
<1>1. /\ m = p.mark \/ Less(p.mark, m)
      /\ p.mark \in Int \X Nat /\ m \in Int \X Nat
  BY NextMarkIs
<1>2. es \in SUBSET Logged(lg) /\ fs \in SUBSET Logged(lg) BY DEF UpTo
<1>3. Logged(lg) \in SUBSET Entry /\ Ats(lg) \in [Entry -> Nat] BY KeysOfLog
<1>4. es \in SUBSET Entry /\ fs \in SUBSET Entry /\ IsFiniteSet(es) /\ IsFiniteSet(fs)
  BY <1>2, <1>3, FS_Subset
<1>5. Lists(Ats(lg), p.fold, es) /\ Lists(Ats(lg), rows, fs) BY DEF Whole, RowsWhole
<1>6. \A e \in es, f \in fs : Before(Ats(lg), e, f) BY UpToBeforeBeyond
<1>7. es \union fs = UpTo(lg, m)
  <2>1. ASSUME NEW e \in es PROVE e \in UpTo(lg, m)
    <3>1. e \in Logged(lg) /\ ~Less(p.mark, KeyIn(lg, e)) BY DEF UpTo
    <3>2. KeyIn(lg, e) \in Int \X Nat BY <1>3, <3>1, KeysOfLog
    <3>3. ~Less(m, KeyIn(lg, e)) BY <1>1, <3>1, <3>2, LessIsOrder
    <3> QED BY <3>1, <3>3 DEF UpTo
  <2>2. \A e \in UpTo(lg, m) : e \in es \/ e \in Beyond(lg, p.mark) BY DEF UpTo, Beyond
  <2> QED BY <2>1, <2>2
<1> HIDE DEF es, fs
<1>8. Lists(Ats(lg), p.fold \o rows, es \union fs) BY <1>3, <1>4, <1>5, <1>6, ListsJoined
<1>9. Lists(Ats(lg), p.fold \o rows, UpTo(lg, m)) BY <1>7, <1>8
<1> QED BY <1>9 DEF Whole, NextAnchor

---------------------------------------------------------------------------
(* Types.                                                                  *)

WriterRow == [step : {"idle", "insert", "lock", "locked"}, entry : Entry \union {None},
              at : Nat, head : Entry \union {None}]

\* A write and its entry come and go together.
WriterOK(row) ==
  /\ row \in WriterRow
  /\ row.step = "idle" <=> row.entry = None

JobRow(n) == [step : {"idle", "rows", "persist"}, prior : 0..n, rows : Seq(Entry)]

\* TypeOK, a row at a time.
TypesOK ==
  /\ clock \in Nat
  /\ log \in LogTable
  /\ writer = [w \in Writer |-> writer[w]]
  /\ \A w \in Writer : WriterOK(writer[w])
  /\ anchors \in Seq(AnchorRow)
  /\ job \in [Job -> JobRow(Len(anchors))]
  /\ calm \in BOOLEAN
  /\ faults \in 0..MaxFaults

LEMMA TypeIs == TypeOK <=> TypesOK
<1>1. \A w \in Writer : At(w, "idle") <=> writer[w].step = "idle" BY DEF At
<1>2. writer \in [Writer -> WriterRow] <=>
        writer = [w \in Writer |-> writer[w]] /\ \A w \in Writer : writer[w] \in WriterRow
  OBVIOUS
<1> QED BY <1>1, <1>2 DEF TypeOK, TypesOK, LogTable, AnchorRow, WriterRow, WriterOK, JobRow, At

\* One write moves on.
LEMMA WriterSet ==
  ASSUME TypeOK, NEW w \in Writer, NEW row, WriterOK(row), writer' = [writer EXCEPT ![w] = row]
  PROVE  /\ writer' = [x \in Writer |-> writer'[x]] /\ \A x \in Writer : WriterOK(writer'[x])
         /\ writer'[w] = row /\ \A x \in Writer \ {w} : writer'[x] = writer[x]
<1>1. writer = [x \in Writer |-> writer[x]] /\ \A x \in Writer : WriterOK(writer[x]) BY TypeIs DEF TypesOK
<1>2. writer' = [x \in Writer |-> IF x = w THEN row ELSE writer[x]] BY <1>1
<1> QED BY <1>1, <1>2

LEMMA PriorIs ==
  ASSUME TypeOK, NEW j \in Job
  PROVE  /\ Prior(j) \in AnchorRow
         /\ Prior(j) = Start \/ \E i \in DOMAIN anchors : Prior(j) = anchors[i]
<1>1. anchors \in Seq(AnchorRow) /\ job[j].prior \in 0..Len(anchors) BY TypeIs DEF TypesOK, JobRow
<1>2. CASE job[j].prior = 0
  <2>1. Prior(j) = Start BY <1>2 DEF Prior, Start
  <2> QED BY <2>1 DEF Start, AnchorRow
<1>3. CASE job[j].prior # 0
  <2>1. job[j].prior \in 1..Len(anchors) BY <1>1, <1>3
  <2>2. Prior(j) = anchors[job[j].prior] BY <1>3 DEF Prior
  <2> QED BY <1>1, <2>1, <2>2
<1> QED BY <1>2, <1>3

\* What a run reads lists the log past its prior anchor.
LEMMA RowsRead ==
  ASSUME TypeOK, LogInv, NEW j \in Job
  PROVE  Lists(Ats(log), Sorted(Past(Prior(j).mark)), Beyond(log, Prior(j).mark))
<1>1. log \in LogTable BY TypeIs DEF TypesOK
<1>2. Past(Prior(j).mark) = Beyond(log, Prior(j).mark) BY LogOfState
<1>3. Beyond(log, Prior(j).mark) \in SUBSET Logged(log) BY DEF Beyond
<1>4. Beyond(log, Prior(j).mark) \in SUBSET Entry BY <1>1, <1>3, KeysOfLog
<1>5. IsFiniteSet(Beyond(log, Prior(j).mark)) BY <1>3, FS_Subset DEF LogInv
<1> QED BY <1>2, <1>4, <1>5, SortedIs

LEMMA TypeInit == Init => TypeOK
<1> SUFFICES ASSUME Init PROVE TypeOK
  OBVIOUS
<1>1. log \in LogTable BY DEF Init, LogTable, Absent
<1>2. WriterOK(NoWrite) BY EntryAssumption DEF WriterOK, WriterRow, NoWrite
<1>3. /\ writer = [w \in Writer |-> writer[w]] /\ \A w \in Writer : WriterOK(writer[w])
  BY <1>2 DEF Init
<1>4. anchors \in Seq(AnchorRow) /\ Len(anchors) = 0 BY DEF Init
<1>5. job \in [Job -> JobRow(0)] BY DEF Init, JobRow, NoJob
<1>6. clock \in Nat /\ calm \in BOOLEAN /\ faults \in 0..MaxFaults BY BoundAssumption DEF Init
<1> QED BY <1>1, <1>3, <1>4, <1>5, <1>6, TypeIs DEF TypesOK

LEMMA TypeKept ==
  ASSUME TypeOK, LogInv, [Next]_vars
  PROVE  TypeOK'
<1>1. /\ clock \in Nat
      /\ log \in LogTable
      /\ writer = [w \in Writer |-> writer[w]] /\ \A w \in Writer : WriterOK(writer[w])
      /\ anchors \in Seq(AnchorRow)
      /\ job \in [Job -> JobRow(Len(anchors))]
      /\ calm \in BOOLEAN
      /\ faults \in 0..MaxFaults
  BY TypeIs DEF TypesOK
<1>2. WriterOK(NoWrite) BY EntryAssumption DEF WriterOK, WriterRow, NoWrite
<1>3. \A n \in Nat : NoJob \in JobRow(n) BY DEF JobRow, NoJob
<1>4. MaxFaults \in Nat BY BoundAssumption
<1>5. ASSUME NEW w \in Writer, NEW e \in Entry, Stamp(w, e) PROVE TypesOK'
  <2> DEFINE row == [step |-> "insert", entry |-> e, at |-> clock, head |-> None]
  <2>1. WriterOK(row) BY <1>1, EntryAssumption DEF WriterOK, WriterRow
  <2>2. writer' = [writer EXCEPT ![w] = row] BY <1>5 DEF Stamp
  <2> HIDE DEF row
  <2>3. calm' \in BOOLEAN BY <1>1, <1>5 DEF Stamp
  <2> QED BY <1>1, <1>5, <2>1, <2>2, <2>3, WriterSet DEF TypesOK, Stamp
<1>6. ASSUME NEW w \in Writer, FindHead(w) PROVE TypesOK'
  <2> DEFINE row == [writer[w] EXCEPT !.step = "lock", !.head = Latest]
  <2>1. Latest \in Entry \union {None}
    <3>1. End(log, Latest) BY LatestIs
    <3> QED BY <1>1, <3>1, KeysOfLog DEF End
  <2>2. WriterOK(row) BY <1>1, <1>6, <2>1 DEF FindHead, At, WriterOK, WriterRow
  <2>3. writer' = [writer EXCEPT ![w] = row] BY <1>1, <1>6 DEF FindHead
  <2> HIDE DEF row
  <2> QED BY <1>1, <1>6, <2>2, <2>3, WriterSet DEF TypesOK, FindHead
<1>7. ASSUME NEW w \in Writer, LockHead(w) PROVE TypesOK'
  <2> DEFINE row == [writer[w] EXCEPT !.step = "locked"]
  <2>1. WriterOK(row) BY <1>1, <1>7 DEF LockHead, At, WriterOK, WriterRow
  <2>2. writer' = [writer EXCEPT ![w] = row] BY <1>1, <1>7 DEF LockHead
  <2> HIDE DEF row
  <2> QED BY <1>1, <1>7, <2>1, <2>2, WriterSet DEF TypesOK, LockHead
<1>8. ASSUME NEW w \in Writer, Commit(w) PROVE TypesOK'
  <2> DEFINE row == [in |-> TRUE, at |-> writer[w].at, prev |-> writer[w].head]
  <2>1. WriterOK(writer[w]) /\ writer[w].step = "locked" BY <1>1, <1>8 DEF Commit, At
  <2>2. row \in [in : BOOLEAN, at : Nat, prev : Entry \union {None}]
    BY <2>1 DEF WriterOK, WriterRow
  <2>3. log' = [log EXCEPT ![writer[w].entry] = row] BY <1>8 DEF Commit
  <2> HIDE DEF row
  <2>4. log' \in LogTable BY <1>1, <2>2, <2>3 DEF LogTable
  <2>5. writer' = [writer EXCEPT ![w] = NoWrite] BY <1>8 DEF Commit
  <2> QED BY <1>1, <1>2, <1>8, <2>4, <2>5, WriterSet DEF TypesOK, Commit
<1>9. ASSUME NEW w \in Writer, WriteFails(w) PROVE TypesOK'
  <2>1. writer' = [writer EXCEPT ![w] = NoWrite] BY <1>9 DEF WriteFails
  <2>2. faults' \in 0..MaxFaults BY <1>1, <1>4, <1>9 DEF WriteFails
  <2> QED BY <1>1, <1>2, <1>9, <2>1, <2>2, WriterSet DEF TypesOK, WriteFails
<1>10. ASSUME NEW j \in Job, ReadPrior(j) PROVE TypesOK'
  <2>1. Len(anchors) \in Nat BY <1>1
  <2>2. [step |-> "rows", prior |-> Len(anchors), rows |-> <<>>] \in JobRow(Len(anchors))
    BY <2>1 DEF JobRow
  <2>3. job' \in [Job -> JobRow(Len(anchors))] BY <1>1, <1>10, <2>2 DEF ReadPrior
  <2>4. faults' \in 0..MaxFaults BY <1>1, <1>4, <1>10 DEF ReadPrior
  <2> QED BY <1>1, <1>10, <2>3, <2>4 DEF TypesOK, ReadPrior
<1>11. ASSUME NEW j \in Job, ReadRows(j) PROVE TypesOK'
  <2> DEFINE rows == Sorted(Past(Prior(j).mark))
  <2>1. rows \in Seq(Entry)
    <3>1. IsFiniteSet(Logged(log)) BY DEF LogInv
    <3>2. Prior(j) \in AnchorRow BY PriorIs
    <3> QED BY <1>1, <3>1, <3>2, RowsRead, ReadIsWhole
  <2>2. job' = [job EXCEPT ![j] = [job[j] EXCEPT !.step = "persist", !.rows = rows]]
    BY <1>1, <1>11 DEF ReadRows
  <2> HIDE DEF rows
  <2>3. [job[j] EXCEPT !.step = "persist", !.rows = rows] \in JobRow(Len(anchors))
    BY <1>1, <2>1 DEF JobRow
  <2>4. job' \in [Job -> JobRow(Len(anchors))] BY <1>1, <2>2, <2>3
  <2> QED BY <1>1, <1>11, <2>4 DEF TypesOK, ReadRows
<1>12. ASSUME NEW j \in Job, Persist(j) PROVE TypesOK'
  <2> DEFINE rows == job[j].rows
             a == [zeros |-> Prior(j).zeros \/ Prior(j).fold \o rows = <<>>,
                   fold |-> Prior(j).fold \o rows,
                   mark |-> IF rows = <<>> THEN Prior(j).mark ELSE Key(Last(rows))]
  <2>1. rows \in Seq(Entry) BY <1>1 DEF JobRow
  <2>2. Prior(j) \in AnchorRow BY PriorIs
  <2>3. a \in AnchorRow
    <3>1. Prior(j).fold \o rows \in Seq(Entry) BY <2>1, <2>2, JoinedIsSeq DEF AnchorRow
    <3>2. Prior(j).mark \in (Nat \union {-1}) \X Nat BY <2>2 DEF AnchorRow
    <3>3. rows # <<>> => Last(rows) \in Entry BY <2>1 DEF Last
    <3>4. \A e \in Entry : Key(e) \in (Nat \union {-1}) \X Nat
      BY <1>1, KeysOfLog, LogOfState
    <3>5. Prior(j).zeros \in BOOLEAN BY <2>2 DEF AnchorRow
    <3> HIDE DEF rows
    <3> QED BY <3>1, <3>2, <3>3, <3>4, <3>5 DEF AnchorRow
  <2>4. anchors' = anchors \/ anchors' = Append(anchors, a) BY <1>12 DEF Persist
  <2> HIDE DEF a
  <2>5. anchors' \in Seq(AnchorRow) /\ Len(anchors') \in Nat /\ Len(anchors) \in Nat
        /\ Len(anchors) <= Len(anchors')
    <3>1. CASE anchors' = anchors BY <1>1, <3>1
    <3>2. CASE anchors' = Append(anchors, a) BY <1>1, <2>3, <3>2
    <3> QED BY <2>4, <3>1, <3>2
  <2>6. job' = [job EXCEPT ![j] = NoJob] BY <1>12 DEF Persist
  <2>7. job' \in [Job -> JobRow(Len(anchors'))]
    <3>1. \A r \in JobRow(Len(anchors)) : r \in JobRow(Len(anchors')) BY <2>5 DEF JobRow
    <3> QED BY <1>1, <1>3, <2>5, <2>6, <3>1
  <2> QED BY <1>1, <1>12, <2>5, <2>7 DEF TypesOK, Persist
<1>13. ASSUME NEW j \in Job, JobFails(j) PROVE TypesOK'
  <2>1. faults' \in 0..MaxFaults BY <1>1, <1>4, <1>13 DEF JobFails
  <2>2. Len(anchors) \in Nat BY <1>1
  <2>3. job' \in [Job -> JobRow(Len(anchors))] BY <1>1, <1>3, <1>13, <2>2 DEF JobFails
  <2> QED BY <1>1, <1>13, <2>1, <2>3 DEF TypesOK, JobFails
<1>14. ASSUME Tick PROVE TypesOK'
  <2>1. clock' \in Nat BY <1>1, <1>14 DEF Tick
  <2> QED BY <1>1, <1>14, <2>1 DEF TypesOK, Tick
<1>15. ASSUME UNCHANGED vars PROVE TypesOK'
  BY <1>1, <1>15 DEF vars, TypesOK
<1>16. TypesOK'
  BY <1>5, <1>6, <1>7, <1>8, <1>9, <1>10, <1>11, <1>12, <1>13, <1>14, <1>15 DEF Next, Anchor
<1>17. (TypeOK <=> TypesOK)' BY TypeIs, PTL
<1> QED BY <1>16, <1>17

---------------------------------------------------------------------------
(* The log.                                                                *)

LEMMA LogInit == Init => LogInv
<1> SUFFICES ASSUME Init PROVE LogInv
  OBVIOUS
<1>1. Logged(log) = {} BY DEF Init, Logged, Absent
<1>2. \A w \in Writer : At(w, "idle") BY DEF Init, At, NoWrite
<1> QED BY <1>1, <1>2, FS_EmptySet DEF LogInv

\* Only Commit writes to the log.
LEMMA LogMoves ==
  ASSUME [Next]_vars
  PROVE  log' = log \/ \E w \in Writer : Commit(w)
<1>1. ASSUME NEW w \in Writer, \/ \E e \in Entry : Stamp(w, e)
                               \/ FindHead(w) \/ LockHead(w) \/ WriteFails(w)
      PROVE  log' = log
  BY <1>1 DEF Stamp, FindHead, LockHead, WriteFails
<1>2. ASSUME NEW j \in Job, Anchor(j) \/ JobFails(j) PROVE log' = log
  BY <1>2 DEF Anchor, ReadPrior, ReadRows, Persist, JobFails
<1>3. Tick \/ UNCHANGED vars => log' = log BY DEF Tick, vars
<1> QED BY <1>1, <1>2, <1>3 DEF Next

\* It adds the entry of its writer and no other.
LEMMA Committing ==
  ASSUME TypeOK, LogInv, NEW w \in Writer, Commit(w)
  PROVE  LET m == writer[w].entry IN
           /\ m \in Entry /\ m \notin Logged(log) /\ ~At(w, "idle")
           /\ Logged(log') = Logged(log) \union {m}
           /\ log'[m] = [in |-> TRUE, at |-> writer[w].at, prev |-> writer[w].head]
           /\ Grown(log, log')
<1> DEFINE m == writer[w].entry
           row == [in |-> TRUE, at |-> writer[w].at, prev |-> writer[w].head]
<1>1. log \in LogTable /\ WriterOK(writer[w]) BY TypeIs DEF TypesOK
<1>2. writer[w].step = "locked" /\ ~At(w, "idle") BY DEF Commit, At
<1>3. m \in Entry BY <1>1, <1>2 DEF WriterOK, WriterRow
<1>4. m \notin Logged(log) BY <1>2 DEF LogInv, Logged
<1>5. log' = [log EXCEPT ![m] = row] BY DEF Commit
<1>6. row \in [in : BOOLEAN, at : Nat, prev : Entry \union {None}] /\ row.in
  BY <1>1 DEF WriterOK, WriterRow
<1> HIDE DEF m, row
<1>7. log' \in LogTable /\ log'[m] = row /\ \A e \in Entry \ {m} : log'[e] = log[e]
  BY <1>1, <1>3, <1>5, <1>6 DEF LogTable
<1>8. Logged(log') = Logged(log) \union {m} BY <1>3, <1>6, <1>7 DEF Logged
<1>9. Grown(log, log')
  <2>1. \A e \in Logged(log) : e \in Entry \ {m} BY <1>4 DEF Logged
  <2> QED BY <1>1, <1>7, <1>8, <2>1 DEF Grown
<1> QED BY <1>2, <1>3, <1>4, <1>7, <1>8, <1>9 DEF m, row

LEMMA LogGrows ==
  ASSUME TypeOK, LogInv, [Next]_vars
  PROVE  Grown(log, log')
<1>1. CASE log' = log
  <2>1. log \in LogTable BY TypeIs DEF TypesOK
  <2> QED BY <1>1, <2>1 DEF Grown
<1>2. CASE \E w \in Writer : Commit(w) BY <1>2, Committing
<1> QED BY <1>1, <1>2, LogMoves

\* Writers are what they were, but one: it stays with its entry, begins on one that
\* is nowhere, or is done.
LEMMA WriterMoves ==
  ASSUME TypeOK, [Next]_vars
  PROVE  \/ writer' = writer
         \/ \E w \in Writer :
              /\ \A x \in Writer \ {w} : writer'[x] = writer[x]
              /\ \/ writer'[w].step = "idle" /\ writer'[w].entry = None
                 \/ /\ writer[w].step # "idle" /\ writer'[w].step # "idle"
                    /\ writer'[w].entry = writer[w].entry /\ log' = log
                 \/ /\ writer'[w].entry \in Entry /\ log' = log
                    /\ ~log[writer'[w].entry].in
                    /\ \A x \in Writer : writer[x].entry # writer'[w].entry
<1> DEFINE Alone(w) == \A x \in Writer \ {w} : writer'[x] = writer[x]
<1>1. writer = [w \in Writer |-> writer[w]] /\ \A w \in Writer : WriterOK(writer[w])
  BY TypeIs DEF TypesOK
<1>2. ASSUME NEW w \in Writer, NEW e \in Entry, Stamp(w, e)
      PROVE  /\ Alone(w) /\ writer'[w].entry = e /\ log' = log /\ ~log[e].in
             /\ \A x \in Writer : writer[x].entry # e
  <2>1. writer' = [writer EXCEPT ![w] = [step |-> "insert", entry |-> e, at |-> clock, head |-> None]]
    BY <1>2 DEF Stamp
  <2>2. Alone(w) /\ writer'[w].entry = e BY <1>1, <2>1
  <2> QED BY <1>2, <2>2 DEF Stamp
<1>3. ASSUME NEW w \in Writer, FindHead(w) \/ LockHead(w)
      PROVE  /\ Alone(w) /\ writer[w].step # "idle" /\ writer'[w].step # "idle"
             /\ writer'[w].entry = writer[w].entry /\ log' = log
  <2>1. writer[w] \in WriterRow BY <1>1 DEF WriterOK
  <2>2. CASE FindHead(w)
    <3>1. /\ writer' = [writer EXCEPT ![w] = [writer[w] EXCEPT !.step = "lock", !.head = Latest]]
          /\ writer[w].step = "insert" /\ log' = log
      BY <1>1, <2>2 DEF FindHead, At
    <3> QED BY <1>1, <2>1, <3>1 DEF WriterRow
  <2>3. CASE LockHead(w)
    <3>1. /\ writer' = [writer EXCEPT ![w] = [writer[w] EXCEPT !.step = "locked"]]
          /\ writer[w].step = "lock" /\ log' = log
      BY <1>1, <2>3 DEF LockHead, At
    <3> QED BY <1>1, <2>1, <3>1 DEF WriterRow
  <2> QED BY <1>3, <2>2, <2>3
<1>4. ASSUME NEW w \in Writer, Commit(w) \/ WriteFails(w)
      PROVE  Alone(w) /\ writer'[w].step = "idle" /\ writer'[w].entry = None
  <2>1. writer' = [writer EXCEPT ![w] = NoWrite] BY <1>4 DEF Commit, WriteFails
  <2> QED BY <1>1, <2>1 DEF NoWrite
<1>5. ASSUME NEW j \in Job, Anchor(j) \/ JobFails(j) PROVE writer' = writer
  BY <1>5 DEF Anchor, ReadPrior, ReadRows, Persist, JobFails
<1>6. Tick \/ UNCHANGED vars => writer' = writer BY DEF Tick, vars
<1> HIDE DEF Alone
<1>7. \/ writer' = writer
      \/ \E w \in Writer :
           /\ Alone(w)
           /\ \/ writer'[w].step = "idle" /\ writer'[w].entry = None
              \/ /\ writer[w].step # "idle" /\ writer'[w].step # "idle"
                 /\ writer'[w].entry = writer[w].entry /\ log' = log
              \/ /\ writer'[w].entry \in Entry /\ log' = log
                 /\ ~log[writer'[w].entry].in
                 /\ \A x \in Writer : writer[x].entry # writer'[w].entry
  <2>1. CASE \E w \in Writer : \E e \in Entry : Stamp(w, e) BY <1>2, <2>1
  <2>2. CASE \E w \in Writer : FindHead(w) \/ LockHead(w) BY <1>3, <2>2
  <2>3. CASE \E w \in Writer : Commit(w) \/ WriteFails(w) BY <1>4, <2>3
  <2> QED BY <1>5, <1>6, <2>1, <2>2, <2>3 DEF Next
<1> QED BY <1>7 DEF Alone

LEMMA LogKept ==
  ASSUME TypeOK, TypeOK', LogInv, [Next]_vars
  PROVE  LogInv'
<1>1. Grown(log, log') BY LogGrows
<1>2. IsFiniteSet(Logged(log'))
  <2>1. CASE log' = log BY <2>1 DEF LogInv
  <2>2. ASSUME NEW w \in Writer, Commit(w) PROVE IsFiniteSet(Logged(log'))
    <3>1. Logged(log') = Logged(log) \union {writer[w].entry} BY <2>2, Committing
    <3> QED BY <3>1, FS_AddElement DEF LogInv
  <2> QED BY <2>1, <2>2, LogMoves
<1>3. \A w \in Writer : writer[w].step = "idle" <=> writer[w].entry = None
  BY TypeIs DEF TypesOK, WriterOK
<1>4. \A w \in Writer : writer'[w].step = "idle" <=> writer'[w].entry = None
  <2>1. (TypeOK <=> TypesOK)' BY TypeIs, PTL
  <2> QED BY <2>1 DEF TypesOK, WriterOK
<1>5. /\ \A w \in Writer : writer[w].step # "idle" => ~log[writer[w].entry].in
      /\ \A w, x \in Writer : writer[w].step # "idle" /\ writer[x].entry = writer[w].entry => x = w
  BY DEF LogInv, At
<1>6. \A w, x \in Writer : writer'[w].step # "idle" /\ writer'[x].entry = writer'[w].entry => x = w
  BY <1>3, <1>4, <1>5, WriterMoves
<1>7. \A w \in Writer : writer'[w].step # "idle" => ~log'[writer'[w].entry].in
  <2>1. CASE log' = log BY <1>3, <1>4, <1>5, <2>1, WriterMoves
  <2>2. ASSUME NEW x \in Writer, Commit(x), NEW w \in Writer, writer'[w].step # "idle"
        PROVE  ~log'[writer'[w].entry].in
    <3>1. writer = [y \in Writer |-> writer[y]] /\ WriterOK(writer[w]) BY TypeIs DEF TypesOK
    <3>2. writer' = [writer EXCEPT ![x] = NoWrite] BY <2>2 DEF Commit
    <3>3. w # x /\ writer'[w] = writer[w] BY <2>2, <3>1, <3>2 DEF NoWrite
    <3>4. writer[w].entry # writer[x].entry /\ writer[w].entry \in Entry
      BY <1>5, <2>2, <3>1, <3>3 DEF WriterOK, WriterRow
    <3>5. writer[w].entry \notin Logged(log') 
      <4>1. writer[w].entry \notin Logged(log) BY <1>5, <2>2, <3>3 DEF Logged
      <4> QED BY <2>2, <3>4, <4>1, Committing
    <3> QED BY <3>3, <3>4, <3>5 DEF Logged
  <2> QED BY <2>1, <2>2, LogMoves
<1> QED BY <1>2, <1>6, <1>7 DEF LogInv, At

---------------------------------------------------------------------------
(* Anchors and the rows of runs.                                           *)

\* Only Persist adds an anchor, made from the log as it is.
LEMMA AnchorMoves ==
  ASSUME TypeOK, [Next]_vars
  PROVE  \/ anchors' = anchors
         \/ \E j \in Job :
              /\ job[j].step = "persist" /\ log' = log
              /\ anchors' = Append(anchors, NextAnchor(log, Prior(j), job[j].rows))
<1>1. ASSUME NEW j \in Job, Persist(j)
      PROVE  \/ anchors' = anchors
             \/ /\ job[j].step = "persist" /\ log' = log
                /\ anchors' = Append(anchors, NextAnchor(log, Prior(j), job[j].rows))
  <2> DEFINE rows == job[j].rows
  <2>1. rows \in Seq(Entry) BY TypeIs DEF TypesOK, JobRow
  <2>2. rows # <<>> => Last(rows) \in Entry
    <3> HIDE DEF rows
    <3> QED BY <2>1 DEF Last
  <2>3. NextMark(log, Prior(j), rows) = IF rows = <<>> THEN Prior(j).mark ELSE Key(Last(rows))
    BY <2>2, LogOfState DEF NextMark
  <2> QED BY <1>1, <2>3 DEF Persist, NextAnchor
<1>2. ASSUME NEW j \in Job, ReadPrior(j) \/ ReadRows(j) \/ JobFails(j) PROVE anchors' = anchors
  BY <1>2 DEF ReadPrior, ReadRows, JobFails
<1>3. ASSUME NEW w \in Writer, \/ \E e \in Entry : Stamp(w, e)
                               \/ FindHead(w) \/ LockHead(w) \/ Commit(w) \/ WriteFails(w)
      PROVE  anchors' = anchors
  BY <1>3 DEF Stamp, FindHead, LockHead, Commit, WriteFails
<1>4. Tick \/ UNCHANGED vars => anchors' = anchors BY DEF Tick, vars
<1> QED BY <1>1, <1>2, <1>3, <1>4 DEF Next, Anchor

\* Anchors stay, so the prior anchor of a run does.
LEMMA PriorStays ==
  ASSUME TypeOK, [Next]_vars, NEW j \in Job, job'[j].prior = job[j].prior
  PROVE  Prior(j)' = Prior(j)
<1>1. anchors \in Seq(AnchorRow) /\ job[j].prior \in 0..Len(anchors) BY TypeIs DEF TypesOK, JobRow
<1>2. job[j].prior # 0 => anchors'[job[j].prior] = anchors[job[j].prior]
  <2>1. CASE anchors' = anchors BY <2>1
  <2>2. ASSUME NEW a, anchors' = Append(anchors, a), job[j].prior # 0
        PROVE  anchors'[job[j].prior] = anchors[job[j].prior]
    <3>1. job[j].prior \in 1..Len(anchors) BY <1>1, <2>2
    <3> QED BY <1>1, <2>2, <3>1
  <2> QED BY <2>1, <2>2, AnchorMoves
<1> QED BY <1>2 DEF Prior

\* A run holds rows that it held before or that it has just read.
LEMMA JobMoves ==
  ASSUME TypeOK, [Next]_vars, NEW j \in Job, job'[j].step = "persist"
  PROVE  /\ Prior(j)' = Prior(j)
         /\ \/ job[j].step = "persist" /\ job'[j].rows = job[j].rows
            \/ job'[j].rows = Sorted(Past(Prior(j).mark)) /\ log' = log
<1>1. job \in [Job -> JobRow(Len(anchors))] BY TypeIs DEF TypesOK
<1>2. /\ job'[j].prior = job[j].prior
      /\ \/ job[j].step = "persist" /\ job'[j].rows = job[j].rows
         \/ job'[j].rows = Sorted(Past(Prior(j).mark)) /\ log' = log
  <2>1. ASSUME NEW k \in Job, ReadRows(k)
        PROVE  /\ job'[j].prior = job[j].prior
               /\ \/ job[j].step = "persist" /\ job'[j].rows = job[j].rows
                  \/ job'[j].rows = Sorted(Past(Prior(j).mark)) /\ log' = log
    <3> DEFINE rows == Sorted(Past(Prior(k).mark))
    <3>1. /\ job' = [job EXCEPT ![k] = [job[k] EXCEPT !.step = "persist", !.rows = rows]]
          /\ log' = log
      BY <1>1, <2>1 DEF ReadRows
    <3>2. job[k] \in JobRow(Len(anchors)) BY <1>1
    <3> HIDE DEF rows
    <3>3. CASE j = k
      <4>1. job'[j] = [job[k] EXCEPT !.step = "persist", !.rows = rows] BY <1>1, <3>1, <3>3
      <4>2. job'[j].rows = rows /\ job'[j].prior = job[j].prior
        BY <3>2, <3>3, <4>1 DEF JobRow
      <4> QED BY <3>1, <3>3, <4>2 DEF rows
    <3>4. CASE j # k
      <4>1. job'[j] = job[j] BY <1>1, <3>1, <3>4
      <4> QED BY <4>1
    <3> QED BY <3>3, <3>4
  <2>2. ASSUME NEW k \in Job, ReadPrior(k) \/ Persist(k) \/ JobFails(k)
        PROVE  job'[j] = job[j]
    <3>1. k # j /\ \A i \in Job \ {k} : job'[i] = job[i]
      BY <1>1, <2>2 DEF ReadPrior, Persist, JobFails, NoJob
    <3> QED BY <3>1
  <2>3. ASSUME NEW w \in Writer, \/ \E e \in Entry : Stamp(w, e)
                                 \/ FindHead(w) \/ LockHead(w) \/ Commit(w) \/ WriteFails(w)
        PROVE  job' = job
    BY <2>3 DEF Stamp, FindHead, LockHead, Commit, WriteFails
  <2>4. Tick \/ UNCHANGED vars => job' = job BY DEF Tick, vars
  <2>5. CASE job'[j] = job[j] BY <2>5
  <2> QED BY <2>1, <2>2, <2>3, <2>4, <2>5 DEF Next, Anchor
<1>3. Prior(j)' = Prior(j) BY <1>2, PriorStays
<1> QED BY <1>2, <1>3

\* Where a run starts from is sound.
LEMMA PriorSound ==
  ASSUME TypeOK, AnchorInv, NEW j \in Job
  PROVE  Sound(log, Prior(j))
<1>1. log \in LogTable BY TypeIs DEF TypesOK
<1> QED BY <1>1, PriorIs, StartIsSound DEF AnchorInv

LEMMA AnchorKept ==
  ASSUME TypeOK, LogInv, AnchorInv, JobInv, [Next]_vars
  PROVE  AnchorInv'
<1>1. /\ anchors \in Seq(AnchorRow) /\ log \in LogTable
      /\ \A j \in Job : job[j].rows \in Seq(Entry)
  BY TypeIs DEF TypesOK, JobRow
<1>2. Grown(log, log') BY LogGrows
<1>3. CASE anchors' = anchors
  <2>1. \A i \in DOMAIN anchors : Sound(log', anchors[i]) BY <1>2, SoundKept DEF AnchorInv
  <2> QED BY <1>3, <2>1 DEF AnchorInv
<1>4. ASSUME NEW j \in Job, job[j].step = "persist", log' = log,
             anchors' = Append(anchors, NextAnchor(log, Prior(j), job[j].rows))
      PROVE  AnchorInv'
  <2> DEFINE a == NextAnchor(log, Prior(j), job[j].rows)
  <2>1. RowsSound(log, Prior(j), job[j].rows) BY <1>4 DEF JobInv
  <2>2. Sound(log, a) BY <1>1, <2>1, PriorIs, PriorSound, NextIsSound
  <2>3. \A i \in DOMAIN anchors' : anchors'[i] = a \/ (i \in DOMAIN anchors /\ anchors'[i] = anchors[i])
    <3> HIDE DEF a
    <3>1. anchors' = Append(anchors, a) BY <1>4 DEF a
    <3> QED BY <1>1, <3>1
  <2>4. \A i \in DOMAIN anchors' : Sound(log, anchors'[i]) BY <2>2, <2>3 DEF AnchorInv
  <2> QED BY <1>4, <2>4 DEF AnchorInv
<1> QED BY <1>3, <1>4, AnchorMoves

LEMMA ZerosKept ==
  ASSUME TypeOK, ZerosInv, [Next]_vars
  PROVE  ZerosInv'
<1>1. anchors \in Seq(AnchorRow) BY TypeIs DEF TypesOK
<1>2. CASE anchors' = anchors BY <1>2 DEF ZerosInv
<1>3. ASSUME NEW j \in Job,
             anchors' = Append(anchors, NextAnchor(log, Prior(j), job[j].rows))
      PROVE  ZerosInv'
  <2> DEFINE p == Prior(j)
             a == NextAnchor(log, p, job[j].rows)
             n == Len(anchors)
  <2>1. a.zeros => p.zeros \/ a.fold = <<>> BY DEF NextAnchor
  <2>2. p.zeros => \E k \in 1..n : anchors[k].fold = <<>>
    <3>1. ~Start.zeros BY DEF Start
    <3>2. p = Start \/ \E i \in 1..n : p = anchors[i] BY <1>1, PriorIs
    <3>3. ASSUME NEW i \in 1..n, anchors[i].zeros PROVE \E k \in 1..n : anchors[k].fold = <<>>
      <4>1. PICK k \in 1..i : anchors[k].fold = <<>> BY <1>1, <3>3 DEF ZerosInv
      <4>2. n \in Nat BY <1>1
      <4> HIDE DEF n
      <4>3. k \in 1..n BY <4>2
      <4> QED BY <4>1, <4>3
    <3> HIDE DEF p
    <3> QED BY <3>1, <3>2, <3>3
  <2> HIDE DEF a, p
  <2>3. anchors' = Append(anchors, a) BY <1>3 DEF a, p
  <2>4. /\ n \in Nat /\ DOMAIN anchors' = 1..(n + 1) /\ DOMAIN anchors = 1..n
        /\ anchors'[n + 1] = a
        /\ \A i \in 1..n : anchors'[i] = anchors[i]
    BY <1>1, <2>3
  <2> HIDE DEF n
  <2>5. ASSUME NEW i \in 1..(n + 1), anchors'[i].zeros
        PROVE  \E k \in 1..i : anchors'[k].fold = <<>>
    <3>1. CASE i = n + 1
      <4>1. a.zeros BY <2>4, <2>5, <3>1
      <4>2. CASE a.fold = <<>>
        <5>1. i \in 1..i BY <2>4, <3>1
        <5> QED BY <2>4, <3>1, <4>2, <5>1
      <4>3. CASE p.zeros
        <5>1. PICK k \in 1..n : anchors[k].fold = <<>> BY <2>2, <4>3
        <5>2. k \in 1..i BY <2>4, <3>1
        <5> QED BY <2>4, <5>1, <5>2
      <4> QED BY <2>1, <4>1, <4>2, <4>3
    <3>2. CASE i # n + 1
      <4>1. i \in 1..n /\ anchors[i].zeros BY <2>4, <2>5, <3>2
      <4>2. PICK k \in 1..i : anchors[k].fold = <<>> BY <2>4, <4>1 DEF ZerosInv
      <4>3. k \in 1..n BY <2>4, <4>1
      <4> QED BY <2>4, <4>2, <4>3
    <3> QED BY <3>1, <3>2
  <2> QED BY <2>4, <2>5 DEF ZerosInv
<1> QED BY <1>2, <1>3, AnchorMoves

LEMMA JobKept ==
  ASSUME TypeOK, LogInv, JobInv, [Next]_vars
  PROVE  JobInv'
<1> SUFFICES ASSUME NEW j \in Job, job'[j].step = "persist"
             PROVE  RowsSound(log', Prior(j)', job'[j].rows)
  BY DEF JobInv
<1>1. log \in LogTable /\ IsFiniteSet(Logged(log)) BY TypeIs DEF TypesOK, LogInv
<1>2. Grown(log, log') BY LogGrows
<1>3. Prior(j)' = Prior(j) BY JobMoves
<1>4. RowsSound(log, Prior(j), job'[j].rows)
  <2>1. CASE job[j].step = "persist" /\ job'[j].rows = job[j].rows BY <2>1 DEF JobInv
  <2>2. CASE job'[j].rows = Sorted(Past(Prior(j).mark))
    <3>1. Prior(j) \in AnchorRow BY PriorIs
    <3> QED BY <1>1, <2>2, <3>1, RowsRead, ReadIsWhole
  <2> QED BY <2>1, <2>2, JobMoves
<1> QED BY <1>2, <1>3, <1>4, RowsKept

---------------------------------------------------------------------------
(* Writers that take turns.                                                *)

\* No step makes up for an entry stamped too early.
LEMMA CalmEnds ==
  ASSUME [Next]_vars, calm'
  PROVE  calm
<1>1. ASSUME NEW w \in Writer, \/ \E e \in Entry : Stamp(w, e)
                               \/ FindHead(w) \/ LockHead(w) \/ Commit(w) \/ WriteFails(w)
      PROVE  calm
  BY <1>1 DEF Stamp, FindHead, LockHead, Commit, WriteFails
<1>2. ASSUME NEW j \in Job, Anchor(j) \/ JobFails(j) PROVE calm
  BY <1>2 DEF Anchor, ReadPrior, ReadRows, Persist, JobFails
<1>3. Tick \/ UNCHANGED vars => calm BY DEF Tick, vars
<1> QED BY <1>1, <1>2, <1>3 DEF Next

\* The entry of the writer whose turn it is comes after all of the log.
LEMMA TurnIsLater ==
  ASSUME TypeOK, LogInv, TurnInv, [Next]_vars
  PROVE  Later(log, log')
<1>1. Grown(log, log') BY LogGrows
<1>2. CASE log' = log BY <1>1, <1>2 DEF Later
<1>3. ASSUME NEW w \in Writer, Commit(w) PROVE Later(log, log')
  <2> DEFINE m == writer[w].entry
  <2>1. /\ m \in Entry /\ ~At(w, "idle") /\ Logged(log') = Logged(log) \union {m}
        /\ log'[m] = [in |-> TRUE, at |-> writer[w].at, prev |-> writer[w].head]
    BY <1>3, Committing
  <2>2. ASSUME NEW e \in Logged(log) PROVE Before(Ats(log'), e, m)
    <3>1. log[e].at < writer[w].at BY <2>1 DEF TurnInv
    <3>2. e \in Entry /\ log'[e] = log[e] BY <1>1 DEF Grown, Logged
    <3>3. Ats(log')[e] = log[e].at /\ Ats(log')[m] = writer[w].at
      <4> HIDE DEF m
      <4> QED BY <2>1, <3>2 DEF Ats
    <3> QED BY <3>1, <3>3 DEF Before
  <2> HIDE DEF m
  <2>3. \A n \in Logged(log') \ Logged(log) : n = m BY <2>1
  <2> QED BY <1>1, <2>2, <2>3 DEF Later
<1> QED BY <1>2, <1>3, LogMoves

\* A turn ends before the next begins.
LEMMA TurnKept ==
  ASSUME TypeOK, LogInv, TurnInv, [Next]_vars, calm'
  PROVE  TurnInv'
<1> DEFINE Idle(row) == row.step = "idle"
           AfterAll(row) == \A f \in Logged(log) : log[f].at < row.at
           HasEnd(row) == End(log, row.head)
           OneOK(row) == /\ ~Idle(row) => AfterAll(row)
                         /\ row.step \in {"lock", "locked"} => HasEnd(row)
<1>1. writer = [w \in Writer |-> writer[w]] /\ \A w \in Writer : WriterOK(writer[w])
  BY TypeIs DEF TypesOK
<1>2. /\ \A w, x \in Writer : Idle(writer[w]) \/ Idle(writer[x]) \/ w = x
      /\ \A w \in Writer : OneOK(writer[w])
  BY DEF TurnInv, At
<1>3. ASSUME log' = log, \A w, x \in Writer : Idle(writer'[w]) \/ Idle(writer'[x]) \/ w = x,
             \A w \in Writer : OneOK(writer'[w])
      PROVE  TurnInv'
  BY <1>3 DEF TurnInv, At
<1>4. ASSUME NEW w \in Writer, NEW e \in Entry, Stamp(w, e) PROVE TurnInv'
  <2> DEFINE row == [step |-> "insert", entry |-> e, at |-> clock, head |-> None]
  <2>1. /\ writer' = [writer EXCEPT ![w] = row] /\ log' = log
        /\ \A x \in Writer : Idle(writer[x])
        /\ \A f \in Logged(log) : log[f].at < clock
    BY <1>4, LogOfState DEF Stamp, At
  <2>2. OneOK(row) BY <2>1
  <2> HIDE DEF row, OneOK
  <2>3. writer'[w] = row /\ \A x \in Writer \ {w} : writer'[x] = writer[x] BY <1>1, <2>1
  <2>4. \A x \in Writer : OneOK(writer'[x]) BY <1>2, <2>2, <2>3
  <2>5. \A x, y \in Writer : Idle(writer'[x]) \/ Idle(writer'[y]) \/ x = y BY <2>1, <2>3
  <2> QED BY <1>3, <2>1, <2>4, <2>5
<1>5. ASSUME NEW w \in Writer, FindHead(w) PROVE TurnInv'
  <2> DEFINE row == [writer[w] EXCEPT !.step = "lock", !.head = Latest]
  <2>1. /\ writer' = [writer EXCEPT ![w] = row] /\ log' = log
        /\ writer[w].step = "insert"
    BY <1>1, <1>5 DEF FindHead, At
  <2>2. row.step = "lock" /\ row.at = writer[w].at /\ row.head = Latest
    BY <1>1 DEF WriterOK, WriterRow
  <2>3. HasEnd(row) BY <2>2, LatestIs
  <2>4. AfterAll(row) BY <1>2, <2>1, <2>2
  <2>5. OneOK(row) BY <2>3, <2>4
  <2>6. ~Idle(writer[w]) BY <2>1
  <2> HIDE DEF row, OneOK
  <2>7. writer'[w] = row /\ \A x \in Writer \ {w} : writer'[x] = writer[x] BY <1>1, <2>1
  <2>8. \A x \in Writer : OneOK(writer'[x]) BY <1>2, <2>5, <2>7
  <2>9. \A x, y \in Writer : Idle(writer'[x]) \/ Idle(writer'[y]) \/ x = y
    BY <1>2, <2>6, <2>7
  <2> QED BY <1>3, <2>1, <2>8, <2>9
<1>6. ASSUME NEW w \in Writer, LockHead(w) PROVE TurnInv'
  <2> DEFINE row == [writer[w] EXCEPT !.step = "locked"]
  <2>1. /\ writer' = [writer EXCEPT ![w] = row] /\ log' = log
        /\ writer[w].step = "lock"
    BY <1>1, <1>6 DEF LockHead, At
  <2>2. row.step = "locked" /\ row.at = writer[w].at /\ row.head = writer[w].head
    BY <1>1 DEF WriterOK, WriterRow
  <2>3. AfterAll(row) /\ HasEnd(row) BY <1>2, <2>1, <2>2
  <2>4. OneOK(row) BY <2>3
  <2>5. ~Idle(writer[w]) BY <2>1
  <2> HIDE DEF row, OneOK
  <2>6. writer'[w] = row /\ \A x \in Writer \ {w} : writer'[x] = writer[x] BY <1>1, <2>1
  <2>7. \A x \in Writer : OneOK(writer'[x]) BY <1>2, <2>4, <2>6
  <2>8. \A x, y \in Writer : Idle(writer'[x]) \/ Idle(writer'[y]) \/ x = y
    BY <1>2, <2>5, <2>6
  <2> QED BY <1>3, <2>1, <2>7, <2>8
<1>7. ASSUME NEW w \in Writer, Commit(w) PROVE TurnInv'
  <2>1. writer' = [writer EXCEPT ![w] = NoWrite] /\ ~Idle(writer[w]) BY <1>7 DEF Commit, At
  <2>2. \A x \in Writer : writer'[x].step = "idle"
    <3>1. writer'[w].step = "idle" BY <1>1, <2>1 DEF NoWrite
    <3>2. \A x \in Writer \ {w} : writer'[x] = writer[x] /\ Idle(writer[x]) BY <1>1, <1>2, <2>1
    <3> QED BY <3>1, <3>2
  <2> QED BY <2>2 DEF TurnInv, At
<1>8. ASSUME NEW w \in Writer, WriteFails(w) PROVE TurnInv'
  <2>1. writer' = [writer EXCEPT ![w] = NoWrite] /\ log' = log BY <1>8 DEF WriteFails
  <2>2. Idle(NoWrite) /\ OneOK(NoWrite) BY DEF NoWrite
  <2> HIDE DEF OneOK
  <2>3. writer'[w] = NoWrite /\ \A x \in Writer \ {w} : writer'[x] = writer[x] BY <1>1, <2>1
  <2>4. \A x \in Writer : OneOK(writer'[x]) BY <1>2, <2>2, <2>3
  <2>5. \A x, y \in Writer : Idle(writer'[x]) \/ Idle(writer'[y]) \/ x = y
    BY <1>2, <2>2, <2>3
  <2> QED BY <1>3, <2>1, <2>4, <2>5
<1>9. ASSUME writer' = writer, log' = log PROVE TurnInv'
  BY <1>9, <1>2, <1>3
<1>10. ASSUME NEW j \in Job, Anchor(j) \/ JobFails(j) PROVE writer' = writer /\ log' = log
  BY <1>10 DEF Anchor, ReadPrior, ReadRows, Persist, JobFails
<1>11. Tick \/ UNCHANGED vars => writer' = writer /\ log' = log BY DEF Tick, vars
<1> QED BY <1>4, <1>5, <1>6, <1>7, <1>8, <1>9, <1>10, <1>11 DEF Next

\* The writer whose turn it is links its entry to the end of the walk.
LEMMA WalkKept ==
  ASSUME TypeOK, LogInv, TurnInv, [Next]_vars,
         NEW walk, Lists(Ats(log), walk, Logged(log)), Linked(log, walk)
  PROVE  \E on : Lists(Ats(log'), on, Logged(log')) /\ Linked(log', on)
<1>1. Later(log, log') /\ Grown(log, log') /\ log \in LogTable /\ log' \in LogTable
  BY TurnIsLater DEF Later, Grown
<1>2. CASE log' = log BY <1>2
<1>3. ASSUME NEW w \in Writer, Commit(w)
      PROVE  \E on : Lists(Ats(log'), on, Logged(log')) /\ Linked(log', on)
  <2> DEFINE m == writer[w].entry
             on == Append(walk, m)
             n == Len(walk)
  <2>1. /\ m \in Entry /\ m \notin Logged(log) /\ Logged(log') = Logged(log) \union {m}
        /\ log'[m] = [in |-> TRUE, at |-> writer[w].at, prev |-> writer[w].head]
    BY <1>3, Committing
  <2>2. Logged(log) \in SUBSET Entry /\ Ats(log) \in [Entry -> Nat] /\ Ats(log') \in [Entry -> Nat]
    BY <1>1, KeysOfLog
  <2>3. IsFiniteSet(Logged(log)) BY DEF LogInv
  <2>4. /\ walk \in Seq(Logged(log)) /\ walk \in Seq(Entry) /\ n \in Nat
        /\ n = Cardinality(Logged(log))
    BY <2>2, <2>3, ListIsSeq
  <2>5. End(log, writer[w].head) BY <1>3 DEF TurnInv, Commit
  <2>6. writer[w].head = IF n = 0 THEN None ELSE walk[n]
    <3>1. CASE Logged(log) = {}
      <4>1. n = 0 BY <2>4, <3>1, FS_EmptySet
      <4> QED BY <2>5, <3>1, <4>1 DEF End
    <3>2. CASE Logged(log) # {}
      <4>1. n # 0 BY <2>3, <2>4, <3>2, FS_EmptySet
      <4>2. /\ walk[n] \in Logged(log)
            /\ \A f \in Logged(log) \ {walk[n]} : Before(Ats(log), f, walk[n])
        BY <2>2, <2>3, <3>2, LastIsGreatest
      <4>3. /\ writer[w].head \in Logged(log)
            /\ \A f \in Logged(log) \ {writer[w].head} : Before(Ats(log), f, writer[w].head)
        BY <2>5, <3>2 DEF End
      <4> QED BY <2>2, <4>1, <4>2, <4>3, BeforeIsOrder
    <3> QED BY <3>1, <3>2
  <2>7. Lists(Ats(log'), on, Logged(log'))
    <3>1. Lists(Ats(log'), walk, Logged(log)) BY <1>1, ListKept
    <3>2. \A e \in Logged(log) : Before(Ats(log'), e, m) BY <1>1, <2>1 DEF Later
    <3> HIDE DEF m
    <3> QED BY <2>1, <2>2, <2>3, <3>1, <3>2, ListExtended
  <2>8. Linked(log', on)
    <3> SUFFICES ASSUME NEW k \in DOMAIN on
                 PROVE  log'[on[k]].prev = IF k = 1 THEN None ELSE on[k - 1]
      BY DEF Linked
    <3> HIDE DEF m
    <3>2. k \in 1..(n + 1) /\ on[n + 1] = m /\ \A l \in 1..n : on[l] = walk[l] BY <2>4
    <3>3. CASE k = n + 1
      <4>1. on[k] = m BY <3>2, <3>3
      <4>2. CASE n = 0 BY <2>1, <2>6, <3>3, <4>1, <4>2
      <4>3. CASE n # 0
        <5>1. k # 1 /\ k - 1 = n /\ n \in 1..n BY <2>4, <3>3, <4>3
        <5>2. on[k - 1] = walk[n] BY <3>2, <5>1
        <5> QED BY <2>1, <2>6, <4>1, <4>3, <5>1, <5>2
      <4> QED BY <4>2, <4>3
    <3>4. CASE k # n + 1
      <4>1. k \in 1..n /\ k \in DOMAIN walk BY <2>4, <3>2, <3>4
      <4>2. log[walk[k]].prev = IF k = 1 THEN None ELSE walk[k - 1] BY <4>1 DEF Linked
      <4>3. walk[k] \in Logged(log) BY <2>4, <4>1
      <4>4. log'[walk[k]] = log[walk[k]] BY <1>1, <4>3 DEF Grown
      <4>5. on[k] = walk[k] /\ (k # 1 => on[k - 1] = walk[k - 1])
        <5>1. k # 1 => k - 1 \in 1..n BY <2>4, <4>1
        <5> HIDE DEF on, n
        <5> QED BY <3>2, <4>1, <5>1
      <4> HIDE DEF on, n
      <4> QED BY <4>2, <4>4, <4>5
    <3> QED BY <3>3, <3>4
  <2> QED BY <2>7, <2>8
<1> QED BY <1>2, <1>3, LogMoves

\* Roots that leave nothing out go on doing so, and so do the rows that will be
\* folded onto them.
LEMMA WholesKept ==
  ASSUME TypeOK, LogInv, AnchorInv, JobInv, TurnInv, [Next]_vars,
         \A i \in DOMAIN anchors : Whole(log, anchors[i]),
         \A j \in Job : job[j].step = "persist" => RowsWhole(log, Prior(j), job[j].rows)
  PROVE  /\ \A i \in DOMAIN anchors' : Whole(log', anchors'[i])
         /\ \A j \in Job : job'[j].step = "persist" => RowsWhole(log', Prior(j)', job'[j].rows)
<1>1. /\ log \in LogTable /\ anchors \in Seq(AnchorRow) /\ IsFiniteSet(Logged(log))
      /\ \A j \in Job : job[j].rows \in Seq(Entry)
  BY TypeIs DEF TypesOK, JobRow, LogInv
<1>2. Later(log, log') BY TurnIsLater
<1>3. \A j \in Job : /\ Prior(j) \in AnchorRow /\ Sound(log, Prior(j)) /\ Whole(log, Prior(j))
  BY <1>1, PriorIs, PriorSound, StartIsSound
<1>4. \A i \in DOMAIN anchors' : Whole(log', anchors'[i])
  <2>1. CASE anchors' = anchors
    <3>1. \A i \in DOMAIN anchors : Whole(log', anchors[i])
      BY <1>2, WholeKept DEF AnchorInv
    <3> QED BY <2>1, <3>1
  <2>2. ASSUME NEW j \in Job, job[j].step = "persist", log' = log,
               anchors' = Append(anchors, NextAnchor(log, Prior(j), job[j].rows)),
               NEW i \in DOMAIN anchors'
        PROVE  Whole(log', anchors'[i])
    <3> DEFINE a == NextAnchor(log, Prior(j), job[j].rows)
    <3>1. RowsSound(log, Prior(j), job[j].rows) /\ RowsWhole(log, Prior(j), job[j].rows)
      BY <2>2 DEF JobInv
    <3>2. Whole(log, a) BY <1>1, <1>3, <3>1, NextIsWhole
    <3>3. anchors'[i] = a \/ (i \in DOMAIN anchors /\ anchors'[i] = anchors[i])
      <4> HIDE DEF a
      <4>1. anchors' = Append(anchors, a) BY <2>2 DEF a
      <4> QED BY <1>1, <2>2, <4>1
    <3> HIDE DEF a
    <3> QED BY <2>2, <3>2, <3>3
  <2> QED BY <2>1, <2>2, AnchorMoves
<1>5. ASSUME NEW j \in Job, job'[j].step = "persist"
      PROVE  RowsWhole(log', Prior(j)', job'[j].rows)
  <2>1. Prior(j)' = Prior(j) BY <1>5, JobMoves
  <2>2. job'[j].rows \in Seq(Entry) /\ RowsSound(log, Prior(j), job'[j].rows)
        /\ RowsWhole(log, Prior(j), job'[j].rows)
    <3>1. CASE job[j].step = "persist" /\ job'[j].rows = job[j].rows BY <1>1, <3>1 DEF JobInv
    <3>2. CASE job'[j].rows = Sorted(Past(Prior(j).mark))
      BY <1>1, <1>3, <3>2, RowsRead, ReadIsWhole
    <3> QED BY <1>5, <3>1, <3>2, JobMoves
  <2>3. RowsWhole(log', Prior(j), job'[j].rows) BY <1>2, <1>3, <2>2, RowsWholeKept
  <2> QED BY <2>1, <2>3
<1> QED BY <1>4, <1>5

LEMMA CalmInit == Init => CalmInv
<1> SUFFICES ASSUME Init PROVE CalmInv
  OBVIOUS
<1>1. Logged(log) = {} BY DEF Init, Logged, Absent
<1>2. \A w \in Writer : writer[w].step = "idle" BY DEF Init, NoWrite
<1>3. TurnInv BY <1>1, <1>2 DEF TurnInv, At
<1>4. Lists(Ats(log), <<>>, {}) /\ Linked(log, <<>>)
  <2>1. Cardinality({}) = 0 BY FS_EmptySet
  <2> QED BY <2>1 DEF Lists, Linked
<1>5. DOMAIN anchors = {} /\ \A j \in Job : job[j].step = "idle" BY DEF Init, NoJob
<1> QED BY <1>1, <1>3, <1>4, <1>5 DEF CalmInv

LEMMA CalmKept ==
  ASSUME IInv, [Next]_vars
  PROVE  CalmInv'
<1>1. TypeOK /\ LogInv /\ AnchorInv /\ JobInv /\ CalmInv BY DEF IInv
<1>2. SUFFICES ASSUME calm'
               PROVE  /\ TurnInv'
                      /\ \E walk : Lists(Ats(log'), walk, Logged(log')) /\ Linked(log', walk)
                      /\ \A i \in DOMAIN anchors' : Whole(log', anchors'[i])
                      /\ \A j \in Job : job'[j].step = "persist"
                                          => RowsWhole(log', Prior(j)', job'[j].rows)
  BY DEF CalmInv
<1>3. calm BY <1>2, CalmEnds
<1>4. /\ TurnInv
      /\ \E walk : Lists(Ats(log), walk, Logged(log)) /\ Linked(log, walk)
      /\ \A i \in DOMAIN anchors : Whole(log, anchors[i])
      /\ \A j \in Job : job[j].step = "persist" => RowsWhole(log, Prior(j), job[j].rows)
  BY <1>1, <1>3 DEF CalmInv
<1>5. TurnInv' BY <1>1, <1>2, <1>4, TurnKept
<1>6. PICK walk : Lists(Ats(log), walk, Logged(log)) /\ Linked(log, walk) BY <1>4
<1>7. \E on : Lists(Ats(log'), on, Logged(log')) /\ Linked(log', on)
  BY <1>1, <1>4, <1>6, WalkKept
<1>8. /\ \A i \in DOMAIN anchors' : Whole(log', anchors'[i])
      /\ \A j \in Job : job'[j].step = "persist" => RowsWhole(log', Prior(j)', job'[j].rows)
  BY <1>1, <1>4, WholesKept
<1> QED BY <1>5, <1>7, <1>8

---------------------------------------------------------------------------
(* The theorems.                                                           *)

LEMMA InvInit == Init => IInv
<1> SUFFICES ASSUME Init PROVE IInv
  OBVIOUS
<1>1. AnchorInv /\ ZerosInv /\ JobInv BY DEF Init, AnchorInv, ZerosInv, JobInv, NoJob
<1> QED BY <1>1, TypeInit, LogInit, CalmInit DEF IInv

LEMMA InvKept == IInv /\ [Next]_vars => IInv'
<1> SUFFICES ASSUME IInv, [Next]_vars PROVE IInv'
  OBVIOUS
<1>1. TypeOK /\ LogInv /\ AnchorInv /\ ZerosInv /\ JobInv BY DEF IInv
<1>2. TypeOK' BY <1>1, TypeKept
<1>3. LogInv' BY <1>1, <1>2, LogKept
<1>4. AnchorInv' BY <1>1, AnchorKept
<1>5. JobInv' BY <1>1, JobKept
<1>6. CalmInv' BY CalmKept
<1>7. ZerosInv' BY <1>1, ZerosKept
<1> QED BY <1>2, <1>3, <1>4, <1>5, <1>6, <1>7 DEF IInv

LEMMA SpecInv == Spec => []IInv
BY InvInit, InvKept, PTL DEF Spec

\* The log, its anchors and what writers and jobs hold stay well formed.
THEOREM TypeCorrect == Spec => []TypeOK
<1>1. IInv => TypeOK BY DEF IInv
<1> QED BY <1>1, SpecInv, PTL

\* No root counts an entry twice or one that was rolled back, with any number of
\* overlapping runs of hash.anchor and of entries that commit late.
THEOREM AnchorsCorrect == Spec => []AnchorsCountOnce
<1>1. IInv => AnchorsCountOnce
  <2> SUFFICES ASSUME IInv, NEW i \in DOMAIN anchors
               PROVE  /\ \A k \in DOMAIN anchors[i].fold : anchors[i].fold[k] \in Committed
                      /\ InOrder(anchors[i].fold)
    BY DEF AnchorsCountOnce
  <2>1. TypeOK /\ Sound(log, anchors[i]) BY DEF IInv, AnchorInv
  <2>2. anchors[i].fold \in Seq(Entry)
    <3>1. anchors \in Seq(AnchorRow) BY <2>1, TypeIs DEF TypesOK
    <3>2. anchors[i] \in AnchorRow BY <3>1
    <3> QED BY <3>2 DEF AnchorRow
  <2>3. InOrder(anchors[i].fold) BY <2>1, <2>2, InOrderIsAscends DEF Sound
  <2>4. \A k \in DOMAIN anchors[i].fold : anchors[i].fold[k] \in Committed
    BY <2>1, LogOfState DEF Sound, UpTo
  <2> QED BY <2>3, <2>4
<1> QED BY <1>1, SpecInv, PTL

\* If every entry was stamped after the one before it had committed, the walk finds
\* the chain intact, and what was hashed a day at a time counts what a full re-hash
\* up to the watermark would; its root is another one only from the anchor of an
\* empty log on.
THEOREM CalmCorrect == Spec => []CalmIsIntact
<1>1. IInv => CalmIsIntact
  <2> SUFFICES ASSUME IInv, calm
               PROVE  /\ Intact
                      /\ \A i \in DOMAIN anchors :
                           anchors[i].fold
                             = Sorted({e \in Committed : ~Less(anchors[i].mark, Key(e))})
    BY DEF CalmIsIntact, IInv, ZerosInv
  <2>1. TypeOK /\ LogInv /\ CalmInv BY DEF IInv
  <2>2. log \in LogTable BY <2>1, TypeIs DEF TypesOK
  <2>3. Logged(log) \in SUBSET Entry /\ IsFiniteSet(Logged(log))
    BY <2>1, <2>2, KeysOfLog DEF LogInv
  <2>4. PICK walk : Lists(Ats(log), walk, Logged(log)) /\ Linked(log, walk)
    BY <2>1 DEF CalmInv
  <2>5. Sorted(Committed) = walk BY <2>1, <2>3, <2>4, SortedIs, LogOfState
  <2>6. Intact BY <2>4, <2>5 DEF Intact, Linked
  <2>7. ASSUME NEW i \in DOMAIN anchors
        PROVE  anchors[i].fold = Sorted({e \in Committed : ~Less(anchors[i].mark, Key(e))})
    <3>1. Lists(Ats(log), anchors[i].fold, UpTo(log, anchors[i].mark))
      BY <2>1 DEF CalmInv, Whole
    <3>2. UpTo(log, anchors[i].mark) \in SUBSET Logged(log) BY DEF UpTo
    <3>3. UpTo(log, anchors[i].mark) \in SUBSET Entry /\ IsFiniteSet(UpTo(log, anchors[i].mark))
      BY <2>3, <3>2, FS_Subset
    <3>4. anchors[i].fold = Sorted(UpTo(log, anchors[i].mark)) BY <2>1, <3>1, <3>3, SortedIs
    <3>5. UpTo(log, anchors[i].mark) = {e \in Committed : ~Less(anchors[i].mark, Key(e))}
      BY <2>3, LogOfState DEF UpTo
    <3> QED BY <3>4, <3>5
  <2> QED BY <2>6, <2>7
<1> QED BY <1>1, SpecInv, PTL
=============================================================================
