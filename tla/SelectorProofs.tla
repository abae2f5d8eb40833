--------------------------- MODULE SelectorProofs ---------------------------
(***************************************************************************)
(* Theorems about the selection of an account, for any table of accounts   *)
(* and any file size, and the lemmas about sums over a finite set that     *)
(* they and the proofs about the books of an account rest on.              *)
(***************************************************************************)
EXTENDS SelectorLoop, FiniteSetTheorems, NaturalsInduction, WellFoundedInduction, TLAPS

(***************************************************************************)
(* The sum of v over S.  The fold of the community modules is a recursive  *)
(* function on the subsets of S; its equation has a solution because a     *)
(* smallest subset without one would be solved by the function below, and  *)
(* two solutions agree because a smallest subset on which they differ      *)
(* would have a smaller one.                                               *)
(***************************************************************************)
Total(v, S) == MapThenSumSet(LAMBDA x : v[x], S)

First(s) == CHOOSE x \in s : TRUE

\* g adds up v over the subsets of S.
Adds(g, v, S) ==
  g = [s \in SUBSET S |-> IF s = {} THEN 0 ELSE v[First(s)] + g[s \ {First(s)}]]

Adder(v, S) == CHOOSE g : Adds(g, v, S)

LEMMA LeastSubset ==
  ASSUME NEW S, IsFiniteSet(S), NEW T, T \subseteq SUBSET S, T # {}
  PROVE  \E s \in T : \A t \in T : t \subseteq s => t = s
<1>1. IsWellFoundedOn(StrictSubsetOrdering(S), SUBSET S)
  BY FS_FiniteSubsetsOfFinite, FS_StrictSubsetOrderingWellFounded, Zenon
<1>2. \E s \in T : \A t \in T : ~ (<<t, s>> \in StrictSubsetOrdering(S))
  BY <1>1, WFMin, Zenon
<1> QED  BY <1>2 DEF StrictSubsetOrdering

LEMMA TotalIsAdder ==
  ASSUME NEW v, NEW S
  PROVE  Total(v, S) = Adder(v, S)[S]
BY DEF Total, Adder, Adds, First, MapThenSumSet, MapThenFoldSet

LEMMA FirstIn == ASSUME NEW s, s # {} PROVE First(s) \in s
BY DEF First

LEMMA AddersAgree ==
  ASSUME NEW v, NEW S, NEW T, IsFiniteSet(S), NEW g, NEW h, Adds(g, v, S), Adds(h, v, T)
  PROVE  \A s \in SUBSET S : s \subseteq T => g[s] = h[s]
<1> DEFINE Bad == {s \in SUBSET S : s \subseteq T /\ g[s] # h[s]}
<1>1. CASE Bad = {}
  BY <1>1
<1>2. CASE Bad # {}
  <2>0. Bad \subseteq SUBSET S
    OBVIOUS
  <2>1. PICK s \in Bad : \A t \in Bad : t \subseteq s => t = s
    <3> HIDE DEF Bad
    <3> QED  BY <1>2, <2>0, LeastSubset
  <2>2. \A t \in SUBSET S : g[t] = IF t = {} THEN 0 ELSE v[First(t)] + g[t \ {First(t)}]
    BY DEF Adds
  <2>3. \A t \in SUBSET T : h[t] = IF t = {} THEN 0 ELSE v[First(t)] + h[t \ {First(t)}]
    BY DEF Adds
  <2>4. s # {}
    BY <2>1, <2>2, <2>3
  <2>5. g[s \ {First(s)}] = h[s \ {First(s)}]
    BY <2>1, <2>4, FirstIn
  <2> QED  BY <2>1, <2>2, <2>3, <2>4, <2>5
<1> QED  BY <1>1, <1>2

LEMMA AdderAdds ==
  ASSUME NEW v, NEW S, IsFiniteSet(S)
  PROVE  Adds(Adder(v, S), v, S)
<1> DEFINE Bad == {s \in SUBSET S : ~ \E g : Adds(g, v, s)}
<1>1. CASE Bad # {}
  <2>0. Bad \subseteq SUBSET S
    OBVIOUS
  <2>1. PICK s \in Bad : \A t \in Bad : t \subseteq s => t = s
    <3> HIDE DEF Bad
    <3> QED  BY <1>1, <2>0, LeastSubset
  <2> DEFINE Below(t) == Adder(v, t)[t]
             g == [t \in SUBSET s |-> IF t = {} THEN 0 ELSE v[First(t)] + Below(t \ {First(t)})]
  <2>2. ASSUME NEW t, t \subseteq s, t # s  PROVE Adds(Adder(v, t), v, t)
    <3>1. \E h : Adds(h, v, t)
      BY <2>1, <2>2
    <3> QED  BY <3>1 DEF Adder
  <2>3. ASSUME NEW t, t \subseteq s, t # s  PROVE g[t] = Below(t)
    <3>1. CASE t = {}
      BY <2>2, <2>3, <3>1 DEF Adds
    <3>2. CASE t # {}
      <4> DEFINE u == t \ {First(t)}
      <4>1. u \subseteq t /\ u # s /\ IsFiniteSet(t)
        BY <2>1, <2>3, <3>2, FirstIn, FS_Subset
      <4>2. Adds(Adder(v, t), v, t) /\ Adds(Adder(v, u), v, u)
        BY <2>2, <2>3, <4>1
      <4>3. Below(t) = v[First(t)] + Adder(v, t)[u]
        BY <3>2, <4>2 DEF Adds
      <4>4. Adder(v, t)[u] = Adder(v, u)[u]
        BY <4>1, <4>2, AddersAgree
      <4>5. g[t] = v[First(t)] + Below(u)
        BY <2>3, <3>2
      <4> QED  BY <4>3, <4>4, <4>5
    <3> QED  BY <3>1, <3>2
  <2>4. \A t \in SUBSET s : t # {} => g[t \ {First(t)}] = Below(t \ {First(t)})
    BY <2>3, FirstIn
  <2>5. Adds(g, v, s)
    BY <2>4 DEF Adds
  <2> QED  BY <2>1, <2>5
<1>2. CASE Bad = {}
  <2>1. \E g : Adds(g, v, S)
    BY <1>2
  <2> QED  BY <2>1 DEF Adder
<1> QED  BY <1>1, <1>2

LEMMA TotalStep ==
  ASSUME NEW v, NEW S, IsFiniteSet(S)
  PROVE  Total(v, S) = IF S = {} THEN 0 ELSE v[First(S)] + Total(v, S \ {First(S)})
<1> DEFINE T == S \ {First(S)}
<1>1. Adds(Adder(v, S), v, S) /\ IsFiniteSet(T)
  BY AdderAdds, FS_RemoveElement
<1>2. Adds(Adder(v, T), v, T)
  BY <1>1, AdderAdds
<1>3. Adder(v, S)[S] = IF S = {} THEN 0 ELSE v[First(S)] + Adder(v, S)[T]
  BY <1>1 DEF Adds
<1>4. Adder(v, S)[T] = Adder(v, T)[T]
  BY <1>1, <1>2, AddersAgree
<1> QED  BY <1>3, <1>4, TotalIsAdder

LEMMA TotalEmpty == ASSUME NEW v PROVE Total(v, {}) = 0
BY TotalStep, FS_EmptySet

LEMMA TotalNat ==
  ASSUME NEW v, NEW S, IsFiniteSet(S), \A x \in S : v[x] \in Nat
  PROVE  Total(v, S) \in Nat
<1> DEFINE Bad == {s \in SUBSET S : Total(v, s) \notin Nat}
<1>1. Bad \subseteq SUBSET S
  OBVIOUS
<1>2. CASE Bad # {}
  <2>1. PICK s \in Bad : \A t \in Bad : t \subseteq s => t = s
    <3> HIDE DEF Bad
    <3> QED  BY <1>1, <1>2, LeastSubset
  <2>2. IsFiniteSet(s) /\ s \subseteq S
    BY <2>1, FS_Subset
  <2>3. s # {}
    <3>1. Total(v, s) # 0
      BY <2>1
    <3> QED  BY <3>1, TotalEmpty, Zenon
  <2>4. First(s) \in s
    BY <2>3, FirstIn
  <2>5. Total(v, s \ {First(s)}) \in Nat
    BY <2>1, <2>2, <2>4
  <2>6. Total(v, s) = v[First(s)] + Total(v, s \ {First(s)})
    BY <2>2, <2>3, TotalStep
  <2>7. v[First(s)] \in Nat
    BY <2>2, <2>4
  <2> QED  BY <2>1, <2>5, <2>6, <2>7
<1>3. CASE Bad = {}
  BY <1>3
<1> QED  BY <1>2, <1>3

\* The order in which a total is added up does not matter.
LEMMA TotalSplit ==
  ASSUME NEW v, NEW S, IsFiniteSet(S), \A x \in S : v[x] \in Nat, NEW y \in S
  PROVE  Total(v, S) = v[y] + Total(v, S \ {y})
<1> DEFINE Bad == {s \in SUBSET S : \E x \in s : Total(v, s) # v[x] + Total(v, s \ {x})}
<1>1. Bad \subseteq SUBSET S
  OBVIOUS
<1>2. CASE Bad # {}
  <2>1. PICK s \in Bad : \A t \in Bad : t \subseteq s => t = s
    <3> HIDE DEF Bad
    <3> QED  BY <1>1, <1>2, LeastSubset
  <2>2. PICK x \in s : Total(v, s) # v[x] + Total(v, s \ {x})
    BY <2>1
  <2> DEFINE f    == First(s)
             rest == s \ {f}
             both == rest \ {x}
  <2>3. IsFiniteSet(s) /\ s \subseteq S /\ s # {} /\ f \in s
    BY <2>1, <2>2, FS_Subset, FirstIn
  <2>4. Total(v, s) = v[f] + Total(v, rest)
    BY <2>3, TotalStep
  <2>5. x # f
    BY <2>2, <2>4
  <2>6. Total(v, rest) = v[x] + Total(v, both)
    <3>1. rest \in SUBSET S /\ rest # s /\ rest \subseteq s /\ x \in rest
      BY <2>2, <2>3, <2>5
    <3>2. rest \notin Bad
      BY <2>1, <3>1
    <3> QED  BY <3>1, <3>2
  <2>7. Total(v, s \ {x}) = v[f] + Total(v, both)
    <3>1. s \ {x} \in SUBSET S /\ s \ {x} # s /\ f \in s \ {x}
      BY <2>2, <2>3, <2>5
    <3>2. s \ {x} \notin Bad
      BY <2>1, <3>1
    <3>3. (s \ {x}) \ {f} = both
      OBVIOUS
    <3> QED  BY <3>1, <3>2, <3>3
  <2>8. v[x] \in Nat /\ v[f] \in Nat /\ Total(v, both) \in Nat
    <3>1. IsFiniteSet(both)
      BY <2>3, FS_Subset
    <3> QED  BY <2>2, <2>3, <3>1, TotalNat
  <2> HIDE DEF f, rest, both
  <2> QED  BY <2>2, <2>4, <2>6, <2>7, <2>8
<1>3. CASE Bad = {}
  BY <1>3
<1> QED  BY <1>2, <1>3

LEMMA TotalSame ==
  ASSUME NEW v, NEW w, NEW S, IsFiniteSet(S), \A x \in S : v[x] = w[x]
  PROVE  Total(v, S) = Total(w, S)
<1> DEFINE Bad == {s \in SUBSET S : Total(v, s) # Total(w, s)}
<1>1. Bad \subseteq SUBSET S
  OBVIOUS
<1>2. CASE Bad # {}
  <2>1. PICK s \in Bad : \A t \in Bad : t \subseteq s => t = s
    <3> HIDE DEF Bad
    <3> QED  BY <1>1, <1>2, LeastSubset
  <2>2. IsFiniteSet(s) /\ s \subseteq S
    BY <2>1, FS_Subset
  <2>3. s # {}
    BY <2>1, <2>2, TotalStep
  <2>4. First(s) \in s
    BY <2>3, FirstIn
  <2>5. Total(v, s \ {First(s)}) = Total(w, s \ {First(s)})
    BY <2>1, <2>2, <2>4
  <2>6. v[First(s)] = w[First(s)]
    BY <2>2, <2>4
  <2> QED  BY <2>1, <2>2, <2>3, <2>5, <2>6, TotalStep
<1>3. CASE Bad = {}
  BY <1>3
<1> QED  BY <1>2, <1>3

\* Only the elements that count for something count.
LEMMA TotalSupport ==
  ASSUME NEW v, NEW S, IsFiniteSet(S), \A x \in S : v[x] \in Nat,
         NEW T, T \subseteq S, \A x \in S \ T : v[x] = 0
  PROVE  Total(v, S) = Total(v, T)
<1> DEFINE Bad == {s \in SUBSET S : Total(v, s) # Total(v, s \cap T)}
<1>1. Bad \subseteq SUBSET S
  OBVIOUS
<1>2. CASE Bad # {}
  <2>1. PICK s \in Bad : \A t \in Bad : t \subseteq s => t = s
    <3> HIDE DEF Bad
    <3> QED  BY <1>1, <1>2, LeastSubset
  <2>2. IsFiniteSet(s) /\ s \subseteq S /\ Total(v, s) # Total(v, s \cap T)
    BY <2>1, FS_Subset
  <2>3. s # {}
    <3>1. s = {} => s \cap T = s
      OBVIOUS
    <3> QED  BY <2>2, <3>1
  <2> DEFINE f == First(s)
             t == s \ {f}
  <2>4. f \in s /\ t \in SUBSET S /\ t \subseteq s /\ t # s
    BY <2>2, <2>3, FirstIn
  <2>5. Total(v, t) = Total(v, t \cap T)
    BY <2>1, <2>4
  <2>6. Total(v, s) = v[f] + Total(v, t)
    BY <2>2, <2>3, TotalStep
  <2>7. CASE f \in T
    <3>1. (s \cap T) \ {f} = t \cap T /\ f \in s \cap T
      BY <2>4, <2>7
    <3>2. IsFiniteSet(s \cap T) /\ \A x \in s \cap T : v[x] \in Nat
      BY <2>2, FS_Subset
    <3>3. Total(v, s \cap T) = v[f] + Total(v, (s \cap T) \ {f})
      BY <3>1, <3>2, TotalSplit
    <3> QED  BY <2>2, <2>5, <2>6, <3>1, <3>3
  <2>8. CASE f \notin T
    <3>1. s \cap T = t \cap T /\ v[f] = 0
      BY <2>2, <2>4, <2>8
    <3>2. Total(v, t) \in Nat
      <4>1. IsFiniteSet(t) /\ \A x \in t : v[x] \in Nat
        BY <2>2, <2>4, FS_Subset
      <4> QED  BY <4>1, TotalNat
    <3>3. Total(v, s) = Total(v, t)
      <4> HIDE DEF f, t
      <4> QED  BY <2>6, <3>1, <3>2
    <3>4. Total(v, s \cap T) = Total(v, t \cap T)
      BY <3>1
    <3> QED  BY <2>2, <2>5, <3>3, <3>4
  <2> QED  BY <2>7, <2>8
<1>3. CASE Bad = {}
  <2>1. Total(v, S) = Total(v, S \cap T)
    BY <1>3
  <2>2. S \cap T = T
    OBVIOUS
  <2> QED  BY <2>1, <2>2
<1> QED  BY <1>2, <1>3

LEMMA TotalAtLeast ==
  ASSUME NEW v, NEW S, IsFiniteSet(S), \A x \in S : v[x] \in Nat, NEW y \in S
  PROVE  v[y] <= Total(v, S)
<1>1. IsFiniteSet(S \ {y})
  BY FS_RemoveElement
<1>2. Total(v, S \ {y}) \in Nat
  BY <1>1, TotalNat
<1> QED  BY <1>2, TotalSplit

\* One term changed.
LEMMA TotalChange ==
  ASSUME NEW v, NEW w, NEW S, IsFiniteSet(S), \A x \in S : v[x] \in Nat /\ w[x] \in Nat,
         NEW y \in S, \A x \in S \ {y} : w[x] = v[x]
  PROVE  /\ Total(v, S) \in Nat /\ Total(w, S) \in Nat /\ v[y] <= Total(v, S)
         /\ Total(w, S) = (Total(v, S) - v[y]) + w[y]
<1> DEFINE T == S \ {y}
<1>1. IsFiniteSet(T)
  BY FS_RemoveElement
<1>2. Total(v, S) = v[y] + Total(v, T) /\ Total(w, S) = w[y] + Total(w, T)
  BY TotalSplit
<1>3. Total(w, T) = Total(v, T) /\ Total(v, T) \in Nat
  BY <1>1, TotalSame, TotalNat
<1>4. v[y] \in Nat /\ w[y] \in Nat
  OBVIOUS
<1> HIDE DEF T
<1> QED  BY <1>2, <1>3, <1>4

\* Floors added up are no less than the sums subtracted.
LEMMA TotalDifference ==
  ASSUME NEW f, NEW l, NEW u, NEW S, IsFiniteSet(S),
         \A x \in S : /\ f[x] \in Nat /\ l[x] \in Nat /\ u[x] \in Nat
                      /\ l[x] <= f[x] + u[x]
  PROVE  Total(l, S) <= Total(f, S) + Total(u, S)
<1> DEFINE Bad == {s \in SUBSET S : ~ (Total(l, s) <= Total(f, s) + Total(u, s))}
<1>1. Bad \subseteq SUBSET S
  OBVIOUS
<1>2. CASE Bad # {}
  <2>1. PICK s \in Bad : \A t \in Bad : t \subseteq s => t = s
    <3> HIDE DEF Bad
    <3> QED  BY <1>1, <1>2, LeastSubset
  <2>2. IsFiniteSet(s) /\ s \subseteq S
    BY <2>1, FS_Subset
  <2>3. s # {}
    <3>1. Total(l, {}) = 0 /\ Total(f, {}) = 0 /\ Total(u, {}) = 0
      BY TotalEmpty
    <3>2. ~ (Total(l, s) <= Total(f, s) + Total(u, s))
      BY <2>1
    <3> QED  BY <3>1, <3>2
  <2> DEFINE x == First(s)
             t == s \ {x}
  <2>4. x \in s /\ t \in SUBSET S /\ t \subseteq s /\ t # s /\ IsFiniteSet(t)
    BY <2>2, <2>3, FirstIn, FS_RemoveElement
  <2>5. Total(l, t) <= Total(f, t) + Total(u, t)
    BY <2>1, <2>4
  <2>6. /\ Total(l, s) = l[x] + Total(l, t)
        /\ Total(f, s) = f[x] + Total(f, t)
        /\ Total(u, s) = u[x] + Total(u, t)
    BY <2>2, <2>3, TotalStep
  <2>7. /\ Total(l, t) \in Nat /\ Total(f, t) \in Nat /\ Total(u, t) \in Nat
    BY <2>2, <2>4, TotalNat
  <2>8. f[x] \in Nat /\ l[x] \in Nat /\ u[x] \in Nat /\ l[x] <= f[x] + u[x]
    BY <2>2, <2>4
  <2>9. ~ (Total(l, s) <= Total(f, s) + Total(u, s))
    BY <2>1
  <2> HIDE DEF x, t
  <2> QED  BY <2>5, <2>6, <2>7, <2>8, <2>9
<1>3. CASE Bad = {}
  BY <1>3
<1> QED  BY <1>2, <1>3

LEMMA FiniteSetHasMax ==
  ASSUME NEW S, S \subseteq Nat, IsFiniteSet(S), S # {}
  PROVE  Max(S) \in S /\ \A y \in S : y <= Max(S)
<1> DEFINE Bad == {s \in SUBSET S : s # {} /\ ~ \E x \in s : \A y \in s : x >= y}
<1>1. Bad \subseteq SUBSET S
  OBVIOUS
<1>2. CASE Bad # {}
  <2>1. PICK s \in Bad : \A t \in Bad : t \subseteq s => t = s
    <3> HIDE DEF Bad
    <3> QED  BY ONLY IsFiniteSet(S), <1>1, <1>2, LeastSubset
  <2> DEFINE x == First(s)
             t == s \ {x}
  <2>2. x \in s /\ s \subseteq Nat /\ t \subseteq s /\ t # s /\ t \in SUBSET S
    <3>1. s # {} /\ s \subseteq S
      BY <2>1
    <3>2. x \in s
      BY <3>1, FirstIn
    <3> QED  BY <3>1, <3>2
  <2>3. s # {x}
    <3>1. CASE s = {x}
      <4>1. x \in s /\ \A y \in s : x >= y
        BY <2>2, <3>1
      <4> QED  BY <2>1, <4>1
    <3> QED  BY <3>1
  <2>4. t # {} /\ t \notin Bad
    BY <2>1, <2>2, <2>3
  <2>5. PICK z \in t : \A y \in t : z >= y
    BY <2>2, <2>4
  <2>6. ~ \E w \in s : \A y \in s : w >= y
    BY <2>1
  <2>7. x \in Nat /\ z \in Nat /\ z \in s
    BY <2>2, <2>5
  <2>8. \A y \in s : y = x \/ z >= y
    BY <2>5
  <2>9. \A y \in s : y \in Nat
    BY <2>2
  <2> HIDE DEF x, t
  <2>10. CASE x >= z
    <3>1. \A y \in s : x >= y
      BY <2>7, <2>8, <2>9, <2>10
    <3> QED  BY <2>2, <2>6, <3>1
  <2>11. CASE z >= x
    <3>1. \A y \in s : z >= y
      BY <2>7, <2>8, <2>9, <2>11
    <3> QED  BY <2>7, <2>6, <3>1
  <2> QED  BY <2>7, <2>10, <2>11
<1>3. CASE Bad = {}
  <2>1. \E x \in S : \A y \in S : x >= y
    BY <1>3
  <2>2. Max(S) \in S /\ \A y \in S : Max(S) >= y
    BY <2>1 DEF Max
  <2> QED  BY <2>2
<1> QED  BY <1>2, <1>3

-----------------------------------------------------------------------------

LEMMA FillRankRange ==
  ASSUME NEW row, row.slot \in 0..2
  PROVE  FillRank(row) \in 0..3
BY DEF FillRank, NullSlot

\* There is a first account in fill order because the ranks are 0..3.
LEMMA FirstInFillOrderIsFirst ==
  ASSUME NEW rows, NEW S, S # {},
         \A a \in S : FillRank(rows[a]) \in 0..3
  PROVE  /\ FirstInFillOrder(rows, S) \in S
         /\ \A b \in S : FillRank(rows[FirstInFillOrder(rows, S)]) <= FillRank(rows[b])
<1> DEFINE IsFirst(a) == \A b \in S : FillRank(rows[a]) <= FillRank(rows[b])
<1>1. \E a \in S : IsFirst(a)
  <2>1. CASE \E a \in S : FillRank(rows[a]) = 0
    BY <2>1
  <2>2. CASE (\A a \in S : FillRank(rows[a]) # 0) /\ (\E a \in S : FillRank(rows[a]) = 1)
    BY <2>2
  <2>3. CASE (\A a \in S : FillRank(rows[a]) \in {2, 3}) /\ (\E a \in S : FillRank(rows[a]) = 2)
    BY <2>3
  <2>4. CASE \A a \in S : FillRank(rows[a]) = 3
    BY <2>4
  <2> QED  BY <2>1, <2>2, <2>3, <2>4
<1> QED  BY <1>1 DEF FirstInFillOrder

\* selectAccountForUpload, when it names an account, names an active one with
\* room for the whole file, and none before it in the fill order has the room.
THEOREM SelectionIsFirstFit ==
  ASSUME NEW rows, NEW size,
         \A a \in ActiveAccounts(rows) : rows[a].slot \in 0..2,
         SelectAccount(rows, size) # None
  PROVE  /\ SelectAccount(rows, size) \in Fitting(rows, size)
         /\ \A b \in Fitting(rows, size) :
              FillRank(rows[SelectAccount(rows, size)]) <= FillRank(rows[b])
<1> DEFINE S == Fitting(rows, size)
<1>1. S # {} /\ SelectAccount(rows, size) = FirstInFillOrder(rows, S)
  BY DEF SelectAccount
<1>2. \A a \in S : FillRank(rows[a]) \in 0..3
  BY FillRankRange DEF Fitting
<1> HIDE DEF S
<1>3. /\ FirstInFillOrder(rows, S) \in S
      /\ \A b \in S : FillRank(rows[FirstInFillOrder(rows, S)]) <= FillRank(rows[b])
  BY ONLY <1>1, <1>2, FirstInFillOrderIsFirst
<1> QED  BY <1>1, <1>3 DEF S
-----------------------------------------------------------------------------
(***************************************************************************)
(* The capacity of a vault: the figures of the selection and of the vault  *)
(* page, for any finite table of accounts, charged above their limits too. *)
(***************************************************************************)
IsTable(rows) ==
  /\ IsFiniteSet(ActiveAccounts(rows))
  /\ \A a \in DOMAIN rows :
       rows[a].used \in Nat /\ rows[a].limit \in Nat /\ rows[a].slot \in 0..2

LEMMA FreeBytesRange ==
  ASSUME NEW row, row.used \in Nat, row.limit \in Nat
  PROVE  FreeBytes(row) \in Nat /\ row.limit <= FreeBytes(row) + row.used
BY DEF FreeBytes

LEMMA ActiveAreFinite ==
  ASSUME NEW rows, IsTable(rows)
  PROVE  IsFiniteSet(ActiveAccounts(rows)) /\ ActiveAccounts(rows) \subseteq DOMAIN rows
BY FS_Subset DEF IsTable, ActiveAccounts

LEMMA VaultFreeBytesIsTotal ==
  ASSUME NEW rows, IsTable(rows)
  PROVE  VaultFreeBytes(rows) =
           Total([a \in DOMAIN rows |-> FreeBytes(rows[a])], ActiveAccounts(rows))
<1> DEFINE S == ActiveAccounts(rows)
           v == [a \in DOMAIN rows |-> FreeBytes(rows[a])]
           Sums(g) == g = [s \in SUBSET S |-> IF s = {} THEN 0
                             ELSE FreeBytes(rows[First(s)]) + g[s \ {First(s)}]]
<1>1. VaultFreeBytes(rows) = (CHOOSE g : Sums(g))[S]
  BY DEF VaultFreeBytes, MapThenSumSet, MapThenFoldSet, First
<1>2. IsFiniteSet(S) /\ S \subseteq DOMAIN rows
  BY ActiveAreFinite
<1> HIDE DEF S
<1>3. \A s \in SUBSET S : s # {} => v[First(s)] = FreeBytes(rows[First(s)])
  BY <1>2, FirstIn
<1>4. \A g : Sums(g) <=> Adds(g, v, S)
  BY <1>3 DEF Adds
<1> HIDE DEF Sums, v
<1>5. Adds(Adder(v, S), v, S) /\ Adds(CHOOSE g : Sums(g), v, S)
  BY <1>2, <1>4, AdderAdds
<1>6. \A s \in SUBSET S : s \subseteq S => (CHOOSE g : Sums(g))[s] = Adder(v, S)[s]
  BY ONLY <1>2, <1>5, AddersAgree
<1> QED  BY <1>1, <1>6, TotalIsAdder DEF S, v

LEMMA LimitsAreTotal ==
  ASSUME NEW rows, IsTable(rows)
  PROVE  MapThenSumSet(LAMBDA a : rows[a].limit, ActiveAccounts(rows)) =
           Total([a \in DOMAIN rows |-> rows[a].limit], ActiveAccounts(rows))
<1> DEFINE S == ActiveAccounts(rows)
           v == [a \in DOMAIN rows |-> rows[a].limit]
           Sums(g) == g = [s \in SUBSET S |-> IF s = {} THEN 0
                             ELSE rows[First(s)].limit + g[s \ {First(s)}]]
<1>1. MapThenSumSet(LAMBDA a : rows[a].limit, S) = (CHOOSE g : Sums(g))[S]
  BY DEF MapThenSumSet, MapThenFoldSet, First
<1>2. IsFiniteSet(S) /\ S \subseteq DOMAIN rows
  BY ActiveAreFinite
<1> HIDE DEF S
<1>3. \A s \in SUBSET S : s # {} => v[First(s)] = rows[First(s)].limit
  BY <1>2, FirstIn
<1>4. \A g : Sums(g) <=> Adds(g, v, S)
  BY <1>3 DEF Adds
<1> HIDE DEF Sums, v
<1>5. Adds(Adder(v, S), v, S) /\ Adds(CHOOSE g : Sums(g), v, S)
  BY <1>2, <1>4, AdderAdds
<1>6. \A s \in SUBSET S : s \subseteq S => (CHOOSE g : Sums(g))[s] = Adder(v, S)[s]
  BY ONLY <1>2, <1>5, AddersAgree
<1> QED  BY <1>1, <1>6, TotalIsAdder DEF S, v

LEMMA UsedIsTotal ==
  ASSUME NEW rows, IsTable(rows)
  PROVE  MapThenSumSet(LAMBDA a : rows[a].used, ActiveAccounts(rows)) =
           Total([a \in DOMAIN rows |-> rows[a].used], ActiveAccounts(rows))
<1> DEFINE S == ActiveAccounts(rows)
           v == [a \in DOMAIN rows |-> rows[a].used]
           Sums(g) == g = [s \in SUBSET S |-> IF s = {} THEN 0
                             ELSE rows[First(s)].used + g[s \ {First(s)}]]
<1>1. MapThenSumSet(LAMBDA a : rows[a].used, S) = (CHOOSE g : Sums(g))[S]
  BY DEF MapThenSumSet, MapThenFoldSet, First
<1>2. IsFiniteSet(S) /\ S \subseteq DOMAIN rows
  BY ActiveAreFinite
<1> HIDE DEF S
<1>3. \A s \in SUBSET S : s # {} => v[First(s)] = rows[First(s)].used
  BY <1>2, FirstIn
<1>4. \A g : Sums(g) <=> Adds(g, v, S)
  BY <1>3 DEF Adds
<1> HIDE DEF Sums, v
<1>5. Adds(Adder(v, S), v, S) /\ Adds(CHOOSE g : Sums(g), v, S)
  BY <1>2, <1>4, AdderAdds
<1>6. \A s \in SUBSET S : s \subseteq S => (CHOOSE g : Sums(g))[s] = Adder(v, S)[s]
  BY ONLY <1>2, <1>5, AddersAgree
<1> QED  BY <1>1, <1>6, TotalIsAdder DEF S, v

LEMMA LargestIsFree ==
  ASSUME NEW rows, IsTable(rows)
  PROVE  /\ LargestFreeSlot(rows) \in Nat
         /\ \A a \in ActiveAccounts(rows) : FreeBytes(rows[a]) <= LargestFreeSlot(rows)
         /\ \/ LargestFreeSlot(rows) = 0
            \/ \E a \in ActiveAccounts(rows) : FreeBytes(rows[a]) = LargestFreeSlot(rows)
<1> DEFINE S == ActiveAccounts(rows)
           T == {FreeBytes(rows[a]) : a \in S}
           f == [a \in S |-> FreeBytes(rows[a])]
<1>1. IsFiniteSet(S) /\ S \subseteq DOMAIN rows
  BY ActiveAreFinite
<1>2. f \in Surjection(S, T)
  BY DEF Surjection
<1>3. IsFiniteSet(T \cup {0})
  <2>1. IsFiniteSet(T)
    BY <1>1, <1>2, FS_Surjection
  <2> QED  BY <2>1, FS_AddElement
<1>4. T \cup {0} \subseteq Nat
  BY <1>1, FreeBytesRange DEF IsTable
<1>5. LargestFreeSlot(rows) = Max(T \cup {0})
  BY DEF LargestFreeSlot
<1>6. \A a \in S : FreeBytes(rows[a]) \in T
  OBVIOUS
<1>7. \A n \in T : \E a \in S : n = FreeBytes(rows[a])
  OBVIOUS
<1> HIDE DEF T
<1>8. /\ Max(T \cup {0}) \in T \cup {0}
      /\ \A n \in T \cup {0} : n <= Max(T \cup {0})
  BY <1>3, <1>4, FiniteSetHasMax
<1> QED  BY <1>4, <1>5, <1>6, <1>7, <1>8

\* A file is refused exactly when it exceeds the largest free slot that the
\* answer reports, although the refusal is decided on the sum of the free
\* bytes first (selectAccountForUpload).
THEOREM RefusedAboveLargestSlot ==
  ASSUME NEW rows, IsTable(rows), NEW size \in Nat \ {0}, None \notin DOMAIN rows
  PROVE  SelectAccount(rows, size) = None <=> size > LargestFreeSlot(rows)
<1> DEFINE S == ActiveAccounts(rows)
           v == [a \in DOMAIN rows |-> FreeBytes(rows[a])]
<1>1. IsFiniteSet(S) /\ S \subseteq DOMAIN rows
  BY ActiveAreFinite
<1>2. /\ \A a \in S : FreeBytes(rows[a]) \in Nat
      /\ \A a \in S : v[a] = FreeBytes(rows[a])
  BY <1>1, FreeBytesRange DEF IsTable
<1>3. VaultFreeBytes(rows) = Total(v, S)
  BY VaultFreeBytesIsTotal
<1> HIDE DEF S, v
<1>4. VaultFreeBytes(rows) \in Nat /\ \A a \in S : FreeBytes(rows[a]) <= VaultFreeBytes(rows)
  <2>1. \A a \in S : v[a] \in Nat
    BY <1>2
  <2>2. Total(v, S) \in Nat
    BY <1>1, <2>1, TotalNat
  <2>3. \A a \in S : v[a] <= Total(v, S)
    BY <1>1, <2>1, TotalAtLeast
  <2> QED  BY <1>2, <1>3, <2>2, <2>3
<1>5. Fitting(rows, size) = {a \in S : FreeBytes(rows[a]) >= size}
  BY DEF Fitting, S
<1>6. CASE Fitting(rows, size) = {}
  <2>1. SelectAccount(rows, size) = None
    BY <1>6 DEF SelectAccount
  <2>2. size > LargestFreeSlot(rows)
    BY <1>2, <1>5, <1>6, LargestIsFree DEF S
  <2> QED  BY <2>1, <2>2
<1>7. CASE Fitting(rows, size) # {}
  <2>1. PICK a \in S : FreeBytes(rows[a]) >= size
    BY <1>5, <1>7
  <2>2. ~ (size > VaultFreeBytes(rows))
    BY <1>2, <1>4, <2>1
  <2>3. ~ (size > LargestFreeSlot(rows))
    BY <1>2, <2>1, LargestIsFree DEF S
  <2>4. SelectAccount(rows, size) = FirstInFillOrder(rows, Fitting(rows, size))
    BY <1>7, <2>2 DEF SelectAccount
  <2>5. \A b \in Fitting(rows, size) : FillRank(rows[b]) \in 0..3
    BY <1>1, <1>5, FillRankRange DEF IsTable
  <2>6. SelectAccount(rows, size) \in Fitting(rows, size)
    BY <1>7, <2>4, <2>5, FirstInFillOrderIsFirst
  <2>7. SelectAccount(rows, size) # None
    BY <1>1, <1>5, <2>6
  <2> QED  BY <2>3, <2>7
<1> QED  BY <1>6, <1>7

\* The vault page, which subtracts the sums and floors once, never shows more
\* free bytes than the selector has, which floors each account and adds: an
\* upload that the page has room for is not refused as VAULT_FULL (getVault
\* beside selectAccountForUpload).
THEOREM VaultFullOnlyBeyondPage ==
  ASSUME NEW rows, IsTable(rows), NEW size \in Nat,
         SelectAccount(rows, size) = None, RejectReason(rows, size) = "VAULT_FULL"
  PROVE  size > VaultPageFree(rows)
<1> DEFINE S == ActiveAccounts(rows)
           f == [a \in DOMAIN rows |-> FreeBytes(rows[a])]
           l == [a \in DOMAIN rows |-> rows[a].limit]
           u == [a \in DOMAIN rows |-> rows[a].used]
<1>1. IsFiniteSet(S) /\ S \subseteq DOMAIN rows
  BY ActiveAreFinite
<1>2. \A a \in S : /\ f[a] \in Nat /\ l[a] \in Nat /\ u[a] \in Nat
                    /\ l[a] <= f[a] + u[a]
  BY <1>1, FreeBytesRange DEF IsTable
<1>3. /\ VaultFreeBytes(rows) = Total(f, S)
      /\ VaultPageFree(rows) =
           IF Total(l, S) > Total(u, S) THEN Total(l, S) - Total(u, S) ELSE 0
  BY VaultFreeBytesIsTotal, LimitsAreTotal, UsedIsTotal DEF VaultPageFree
<1>4. size > VaultFreeBytes(rows)
  BY DEF RejectReason
<1> HIDE DEF S, f, l, u
<1>5. Total(f, S) \in Nat /\ Total(l, S) \in Nat /\ Total(u, S) \in Nat
  BY <1>1, <1>2, TotalNat
<1>6. Total(l, S) <= Total(f, S) + Total(u, S)
  BY <1>1, <1>2, TotalDifference
<1> QED  BY <1>3, <1>4, <1>5, <1>6
-----------------------------------------------------------------------------
(***************************************************************************)
(* The loops of selectAccountForUpload (SelectorLoop) give what the set    *)
(* definitions say, for any table whose accounts in use differ in rank.    *)
(***************************************************************************)
LEMMA LeastNat ==
  ASSUME NEW S, S \subseteq Nat, S # {}
  PROVE  \E n \in S : \A k \in S : n <= k
<1>1. \E n \in S : \A k \in S : ~ (<<k, n>> \in OpToRel(<, Nat))
  BY NatLessThanWellFounded, WFMin, Zenon
<1>2. \A k, n \in Nat : ~ (<<k, n>> \in OpToRel(<, Nat)) => n <= k
  BY DEF OpToRel
<1> QED  BY <1>1, <1>2

\* What the CHECK constraint and the partial unique indexes ensure.
RanksDiffer(rows) ==
  /\ \A a \in ActiveAccounts(rows) : rows[a].role = Primary => rows[a].slot = NullSlot
  /\ \A a, b \in ActiveAccounts(rows) : FillRank(rows[a]) = FillRank(rows[b]) => a = b

\* At most four accounts are in use, one per rank.
LEMMA RanksBound ==
  ASSUME NEW rows, RanksDiffer(rows), \A a \in DOMAIN rows : rows[a].slot \in 0..2
  PROVE  IsFiniteSet(ActiveAccounts(rows))
<1> DEFINE A == ActiveAccounts(rows)
           f == [a \in A |-> FillRank(rows[a])]
<1>1. \A a \in A : FillRank(rows[a]) \in 0..3
  BY FillRankRange DEF ActiveAccounts
<1>2. f \in Injection(A, 0..3)
  BY <1>1 DEF Injection, IsInjective, RanksDiffer
<1>3. IsFiniteSet(0..3)
  <2>1. 0 \in Int /\ 3 \in Int
    OBVIOUS
  <2> QED  BY <2>1, FS_Interval
<1> HIDE DEF A, f
<1>4. IsFiniteSet(A)
  BY <1>2, <1>3, FS_Injection
<1> QED  BY <1>4 DEF A

\* The comparator sorts by rank.
LEMMA SortsBeforeIsRank ==
  ASSUME NEW x, NEW y, x.slot \in 0..2, y.slot \in 0..2,
         x.role = Primary => x.slot = NullSlot, y.role = Primary => y.slot = NullSlot
  PROVE  SortsBefore(x, y) <=> FillRank(x) < FillRank(y)
<1>1. CASE x.role = Primary /\ y.role = Primary
  BY <1>1 DEF SortsBefore, RoleWeight, FillRank, NullSlot
<1>2. CASE x.role = Primary /\ y.role # Primary
  BY <1>2 DEF SortsBefore, RoleWeight, FillRank, NullSlot
<1>3. CASE x.role # Primary /\ y.role = Primary
  BY <1>3 DEF SortsBefore, RoleWeight, FillRank, NullSlot
<1>4. CASE x.role # Primary /\ y.role # Primary
  BY <1>4 DEF SortsBefore, RoleWeight, FillRank, NullSlot
<1> QED  BY <1>1, <1>2, <1>3, <1>4

LEMMA LargestRank ==
  ASSUME NEW v, NEW S, S # {}, IsFiniteSet(S), \A a \in S : v[a] \in Nat
  PROVE  \E m \in S : \A a \in S : v[a] <= v[m]
<1> DEFINE T == {v[a] : a \in S}
           f == [a \in S |-> v[a]]
<1>1. f \in Surjection(S, T)
  BY DEF Surjection
<1>2. IsFiniteSet(T)
  BY <1>1, FS_Surjection
<1>3. T \subseteq Nat /\ T # {}
  OBVIOUS
<1>4. \A a \in S : v[a] \in T
  OBVIOUS
<1>5. \A n \in T : \E a \in S : n = v[a]
  OBVIOUS
<1> HIDE DEF T
<1>6. Max(T) \in T /\ \A n \in T : n <= Max(T)
  BY <1>2, <1>3, FiniteSetHasMax
<1> QED  BY <1>4, <1>5, <1>6

\* s lists the members of S once each, by v.
Rises(s, v, S) ==
  /\ s \in [1 .. Cardinality(S) -> S]
  /\ \A i, j \in 1 .. Cardinality(S) : i < j => s[i] # s[j] /\ v[s[i]] <= v[s[j]]

LEMMA RisingExists ==
  ASSUME NEW v, NEW S, IsFiniteSet(S), \A a \in S : v[a] \in Nat
  PROVE  \E s : Rises(s, v, S)
<1> DEFINE Bad == {T \in SUBSET S : ~ \E s : Rises(s, v, T)}
<1>1. Bad \subseteq SUBSET S
  OBVIOUS
<1>2. CASE Bad # {}
  <2>1. PICK T \in Bad : \A U \in Bad : U \subseteq T => U = T
    <3> HIDE DEF Bad
    <3> QED  BY <1>1, <1>2, LeastSubset
  <2>2. IsFiniteSet(T) /\ T \subseteq S
    BY <2>1, FS_Subset
  <2>3. T # {}
    <3>1. Cardinality({}) = 0
      BY FS_EmptySet
    <3>2. [i \in 1 .. 0 |-> 0] \in [1 .. 0 -> {}]
      OBVIOUS
    <3>3. Rises([i \in 1 .. 0 |-> 0], v, {})
      BY <3>1, <3>2 DEF Rises
    <3> QED  BY <2>1, <3>3
  <2>4. PICK m \in T : \A a \in T : v[a] <= v[m]
    BY <2>2, <2>3, LargestRank
  <2> DEFINE U == T \ {m}
             n == Cardinality(T)
  <2>5. IsFiniteSet(U) /\ Cardinality(U) = n - 1
    BY <2>2, FS_RemoveElement
  <2>6. n \in Nat /\ n # 0
    BY <2>2, <2>3, FS_CardinalityType, FS_EmptySet
  <2>7. U \in SUBSET S /\ U \subseteq T /\ U # T
    BY <2>2
  <2>8. PICK t : Rises(t, v, U)
    BY <2>1, <2>7
  <2> DEFINE s == [i \in 1 .. n |-> IF i = n THEN m ELSE t[i]]
  <2> HIDE DEF n, U
  <2>9. \A i \in 1 .. n - 1 : t[i] \in U
    BY <2>5, <2>8 DEF Rises
  <2>10. \A i \in 1 .. n : i # n => i \in 1 .. n - 1
    BY <2>6
  <2>11. s \in [1 .. n -> T]
    BY <2>9, <2>10 DEF U
  <2>12. \A i, j \in 1 .. n : i < j => s[i] # s[j] /\ v[s[i]] <= v[s[j]]
    <3> SUFFICES ASSUME NEW i \in 1 .. n, NEW j \in 1 .. n, i < j
                 PROVE  s[i] # s[j] /\ v[s[i]] <= v[s[j]]
      OBVIOUS
    <3>1. i # n /\ i \in 1 .. n - 1 /\ s[i] = t[i] /\ t[i] \in U
      BY <2>6, <2>9
    <3>2. CASE j = n
      BY <2>4, <3>1, <3>2 DEF U
    <3>3. CASE j # n
      <4>1. j \in 1 .. n - 1 /\ s[j] = t[j]
        BY <2>10, <3>3
      <4> QED  BY <2>5, <2>8, <3>1, <4>1 DEF Rises
    <3> QED  BY <3>2, <3>3
  <2>13. Rises(s, v, T)
    BY <2>11, <2>12 DEF Rises, n
  <2> QED  BY <2>1, <2>13
<1>3. CASE Bad = {}
  BY <1>3
<1> QED  BY <1>2, <1>3

\* The sorted rows list each account in use once, by rank.
LEMMA OrderIsByRank ==
  ASSUME NEW rows, IsTable(rows), RanksDiffer(rows)
  PROVE  LET A == ActiveAccounts(rows)
             n == Cardinality(A)
             s == OrderAccounts(rows)
         IN  /\ n \in Nat /\ s \in [1 .. n -> A]
             /\ \A i, j \in 1 .. n : i < j => /\ s[i] # s[j]
                                              /\ FillRank(rows[s[i]]) <= FillRank(rows[s[j]])
             /\ \A a \in A : \E i \in 1 .. n : s[i] = a
<1> DEFINE A == ActiveAccounts(rows)
           n == Cardinality(A)
           v == [a \in A |-> FillRank(rows[a])]
           t == OrderAccounts(rows)
<1>1. IsFiniteSet(A) /\ n \in Nat /\ A \subseteq DOMAIN rows
  BY ActiveAreFinite, FS_CardinalityType
<1>2. \A a \in A : rows[a].slot \in 0..2 /\ (rows[a].role = Primary => rows[a].slot = NullSlot)
  BY <1>1 DEF IsTable, RanksDiffer
<1>3. \A a \in A : FillRank(rows[a]) \in 0..3 /\ v[a] = FillRank(rows[a])
  BY <1>2, FillRankRange
<1>4. \A a, b \in A : ~SortsBefore(rows[b], rows[a]) <=> v[a] <= v[b]
  <2> SUFFICES ASSUME NEW a \in A, NEW b \in A
               PROVE  ~SortsBefore(rows[b], rows[a]) <=> v[a] <= v[b]
    OBVIOUS
  <2>1. SortsBefore(rows[b], rows[a]) <=> FillRank(rows[b]) < FillRank(rows[a])
    BY <1>2, SortsBeforeIsRank
  <2> QED  BY <1>3, <2>1
<1>5. \A s \in [1 .. n -> A] : IsSorted(s, rows) <=> Rises(s, v, A)
  <2> HIDE DEF A, v
  <2> SUFFICES ASSUME NEW s \in [1 .. n -> A]
               PROVE  IsSorted(s, rows) <=> Rises(s, v, A)
    OBVIOUS
  <2>1. DOMAIN s = 1 .. n /\ \A i \in 1 .. n : s[i] \in A
    OBVIOUS
  <2> QED  BY <1>4, <2>1 DEF IsSorted, Rises
<1> HIDE DEF v
<1>6. \E s : Rises(s, v, A)
  BY <1>1, <1>3, RisingExists
<1>7. \E s \in [1 .. n -> A] : IsSorted(s, rows)
  BY <1>5, <1>6 DEF Rises
<1>8. t \in [1 .. n -> A] /\ IsSorted(t, rows)
  BY <1>7 DEF OrderAccounts
<1> HIDE DEF A, t
<1>9. \A i, j \in 1 .. n : i < j => t[i] # t[j] /\ v[t[i]] <= v[t[j]]
  BY <1>5, <1>8 DEF Rises
<1>10. t \in Surjection(1 .. n, A)
  <2>1. \A i, j \in 1 .. n : t[i] = t[j] => i = j
    <3> SUFFICES ASSUME NEW i \in 1 .. n, NEW j \in 1 .. n, i # j  PROVE t[i] # t[j]
      OBVIOUS
    <3>1. i < j \/ j < i
      BY <1>1
    <3> QED  BY <1>9, <3>1
  <2>2. t \in Injection(1 .. n, A)
    BY <1>8, <2>1 DEF Injection, IsInjective
  <2>3. Cardinality(1 .. n) = Cardinality(A)
    <3>1. 1 \in Int /\ n \in Int
      BY <1>1
    <3>2. Cardinality(1 .. n) = IF 1 > n THEN 0 ELSE n - 1 + 1
      BY <3>1, FS_Interval
    <3> QED  BY <1>1, <3>2
  <2> QED  BY <1>1, <2>2, <2>3, FS_Injection
<1>11. \A a \in A : \E i \in 1 .. n : t[i] = a
  BY <1>10 DEF Surjection
<1>12. \A i, j \in 1 .. n : i < j => /\ t[i] # t[j]
                                     /\ FillRank(rows[t[i]]) <= FillRank(rows[t[j]])
  BY <1>3, <1>8, <1>9
<1> QED  BY <1>1, <1>8, <1>11, <1>12 DEF A, t

\* f holds the sums of the first loop after each of the first n rows.
Counts(f, rows, s, n) ==
  f = [i \in 0 .. n |->
         IF i = 0 THEN [vaultFree |-> 0, largestFree |-> 0]
         ELSE [vaultFree   |-> f[i - 1].vaultFree + FreeBytes(rows[s[i]]),
               largestFree |-> IF FreeBytes(rows[s[i]]) > f[i - 1].largestFree
                                 THEN FreeBytes(rows[s[i]])
                                 ELSE f[i - 1].largestFree]]

LEMMA CountsExist ==
  ASSUME NEW rows, NEW s, NEW n \in Nat
  PROVE  \E f : Counts(f, rows, s, n)
<1> DEFINE Bad == {k \in Nat : ~ \E f : Counts(f, rows, s, k)}
           Next(h, i) == [vaultFree   |-> h.vaultFree + FreeBytes(rows[s[i]]),
                          largestFree |-> IF FreeBytes(rows[s[i]]) > h.largestFree
                                            THEN FreeBytes(rows[s[i]])
                                            ELSE h.largestFree]
           None0 == [vaultFree |-> 0, largestFree |-> 0]
<1>0. \A f, k : Counts(f, rows, s, k) <=>
                  f = [i \in 0 .. k |-> IF i = 0 THEN None0 ELSE Next(f[i - 1], i)]
  BY DEF Counts
<1> HIDE DEF Next, None0
<1>1. CASE Bad = {}
  BY <1>1
<1>2. CASE Bad # {}
  <2>1. PICK k \in Bad : \A j \in Bad : k <= j
    <3>1. Bad \subseteq Nat
      OBVIOUS
    <3> HIDE DEF Bad
    <3> QED  BY <1>2, <3>1, LeastNat
  <2>2. CASE k = 0
    <3> DEFINE f == [i \in 0 .. 0 |-> None0]
    <3>1. f = [i \in 0 .. 0 |-> IF i = 0 THEN None0 ELSE Next(f[i - 1], i)]
      OBVIOUS
    <3>2. Counts(f, rows, s, 0)
      BY <1>0, <3>1
    <3> QED  BY <2>1, <2>2, <3>2
  <2>3. CASE k # 0
    <3>1. k - 1 \in Nat /\ k - 1 \notin Bad
      BY <2>1, <2>3
    <3>2. PICK f : Counts(f, rows, s, k - 1)
      BY <3>1
    <3> DEFINE g == [i \in 0 .. k |-> IF i = k THEN Next(f[k - 1], k) ELSE f[i]]
    <3>3. \A i \in 0 .. k - 1 : f[i] = IF i = 0 THEN None0 ELSE Next(f[i - 1], i)
      BY <1>0, <3>2
    <3>4. \A i \in 0 .. k : g[i] = IF i = 0 THEN None0 ELSE Next(g[i - 1], i)
      BY <2>1, <2>3, <3>3
    <3>5. g = [i \in 0 .. k |-> IF i = 0 THEN None0 ELSE Next(g[i - 1], i)]
      BY <3>4
    <3>6. Counts(g, rows, s, k)
      BY <1>0, <3>5
    <3> QED  BY <2>1, <3>6
  <2> QED  BY <2>2, <2>3
<1> QED  BY <1>1, <1>2

Seen(s, k) == {s[i] : i \in 1 .. k}

\* After k rows: their free bytes in total, and the most that one of them has.
LEMMA CountsHold ==
  ASSUME NEW rows, NEW A, NEW n \in Nat, NEW s \in [1 .. n -> A], NEW f,
         Counts(f, rows, s, n), IsFiniteSet(A), NEW v,
         \A a \in A : v[a] = FreeBytes(rows[a]) /\ v[a] \in Nat,
         \A i, j \in 1 .. n : i < j => s[i] # s[j]
  PROVE  \A k \in 0 .. n :
           /\ f[k].vaultFree = Total(v, Seen(s, k))
           /\ f[k].largestFree \in Nat
           /\ \A i \in 1 .. k : v[s[i]] <= f[k].largestFree
           /\ f[k].largestFree = 0 \/ \E i \in 1 .. k : v[s[i]] = f[k].largestFree
<1> DEFINE Good(k) == /\ f[k].vaultFree = Total(v, Seen(s, k))
                      /\ f[k].largestFree \in Nat
                      /\ \A i \in 1 .. k : v[s[i]] <= f[k].largestFree
                      /\ f[k].largestFree = 0 \/ \E i \in 1 .. k : v[s[i]] = f[k].largestFree
           Bad == {k \in 0 .. n : ~Good(k)}
<1>1. /\ f[0].vaultFree = 0 /\ f[0].largestFree = 0
      /\ \A k \in 1 .. n :
           /\ f[k].vaultFree = f[k - 1].vaultFree + v[s[k]]
           /\ f[k].largestFree = IF v[s[k]] > f[k - 1].largestFree THEN v[s[k]]
                                 ELSE f[k - 1].largestFree
  <2>1. \A k \in 1 .. n : v[s[k]] = FreeBytes(rows[s[k]])
    OBVIOUS
  <2>2. f[0] = [vaultFree |-> 0, largestFree |-> 0]
    BY DEF Counts
  <2>3. \A k \in 1 .. n :
          f[k] = [vaultFree   |-> f[k - 1].vaultFree + FreeBytes(rows[s[k]]),
                  largestFree |-> IF FreeBytes(rows[s[k]]) > f[k - 1].largestFree
                                    THEN FreeBytes(rows[s[k]])
                                    ELSE f[k - 1].largestFree]
    BY DEF Counts
  <2>4. f[0].vaultFree = 0 /\ f[0].largestFree = 0
    BY <2>2
  <2>5. ASSUME NEW k \in 1 .. n
        PROVE  /\ f[k].vaultFree = f[k - 1].vaultFree + v[s[k]]
               /\ f[k].largestFree = IF v[s[k]] > f[k - 1].largestFree THEN v[s[k]]
                                     ELSE f[k - 1].largestFree
    <3> DEFINE h == f[k - 1]
               b == FreeBytes(rows[s[k]])
    <3>1. f[k] = [vaultFree   |-> h.vaultFree + b,
                  largestFree |-> IF b > h.largestFree THEN b ELSE h.largestFree]
      BY <2>3
    <3>2. v[s[k]] = b
      BY <2>1
    <3> HIDE DEF h, b
    <3>3. /\ f[k].vaultFree = h.vaultFree + b
          /\ f[k].largestFree = IF b > h.largestFree THEN b ELSE h.largestFree
      BY <3>1
    <3> QED  BY <3>2, <3>3 DEF h
  <2> QED  BY <2>4, <2>5
<1>2. Good(0)
  <2>1. Seen(s, 0) = {}
    BY DEF Seen
  <2>2. Total(v, Seen(s, 0)) = 0
    BY <2>1, TotalEmpty, Zenon
  <2> QED  BY <1>1, <2>2
<1>3. ASSUME NEW k \in 1 .. n, Good(k - 1)  PROVE Good(k)
  <2>1. v[s[k]] \in Nat /\ s[k] \in A
    OBVIOUS
  <2>2. Seen(s, k) \ {s[k]} = Seen(s, k - 1) /\ s[k] \in Seen(s, k)
    <3>1. s[k] \in Seen(s, k)
      BY DEF Seen
    <3>2. \A i \in 1 .. k - 1 : i \in 1 .. k /\ s[i] # s[k]
      OBVIOUS
    <3>3. \A i \in 1 .. k : i # k => i \in 1 .. k - 1
      OBVIOUS
    <3> QED  BY <3>1, <3>2, <3>3 DEF Seen
  <2>3. IsFiniteSet(Seen(s, k)) /\ \A a \in Seen(s, k) : v[a] \in Nat
    <3>1. Seen(s, k) \in SUBSET A
      BY DEF Seen
    <3> QED  BY <3>1, FS_Subset
  <2>4. Total(v, Seen(s, k)) = v[s[k]] + Total(v, Seen(s, k - 1)) /\ Total(v, Seen(s, k - 1)) \in Nat
    <3>1. Total(v, Seen(s, k)) = v[s[k]] + Total(v, Seen(s, k) \ {s[k]})
      BY <2>2, <2>3, TotalSplit
    <3>2. IsFiniteSet(Seen(s, k) \ {s[k]})
      BY <2>3, FS_RemoveElement
    <3>3. Total(v, Seen(s, k) \ {s[k]}) \in Nat
      BY <2>3, <3>2, TotalNat
    <3> QED  BY <2>2, <3>1, <3>3
  <2>5. f[k].vaultFree = Total(v, Seen(s, k))
    BY <1>1, <1>3, <2>1, <2>4
  <2>6. /\ f[k].largestFree \in Nat
        /\ \A i \in 1 .. k : v[s[i]] <= f[k].largestFree
    <3>1. \A i \in 1 .. k : (i = k \/ i \in 1 .. k - 1) /\ v[s[i]] \in Nat
      OBVIOUS
    <3>2. /\ f[k].largestFree \in Nat /\ v[s[k]] <= f[k].largestFree
          /\ f[k - 1].largestFree \in Nat /\ f[k - 1].largestFree <= f[k].largestFree
      BY <1>1, <1>3, <2>1
    <3>3. \A i \in 1 .. k - 1 : v[s[i]] <= f[k - 1].largestFree
      BY <1>3
    <3> QED  BY <3>1, <3>2, <3>3
  <2>7. f[k].largestFree = 0 \/ \E i \in 1 .. k : v[s[i]] = f[k].largestFree
    <3>1. k \in 1 .. k /\ \A i \in 1 .. k - 1 : i \in 1 .. k
      OBVIOUS
    <3> QED  BY <1>1, <1>3, <3>1
  <2> QED  BY <2>5, <2>6, <2>7
<1> HIDE DEF Good
<1>4. CASE Bad # {}
  <2>1. PICK k \in Bad : \A j \in Bad : k <= j
    <3>1. Bad \subseteq Nat
      OBVIOUS
    <3> HIDE DEF Bad
    <3> QED  BY <1>4, <3>1, LeastNat
  <2>2. k # 0 /\ k \in 0 .. n
    BY <1>2, <2>1
  <2>3. k \in 1 .. n /\ k - 1 \in 0 .. n /\ k - 1 \notin Bad
    BY <2>1, <2>2
  <2>4. Good(k - 1)
    BY <2>3
  <2> QED  BY <1>3, <2>1, <2>3, <2>4
<1>5. CASE Bad = {}
  <2>1. \A k \in 0 .. n : Good(k)
    BY <1>5
  <2> QED  BY <2>1 DEF Good
<1> QED  BY <1>4, <1>5

\* The first loop: the hints are the free bytes of the vault and of the
\* account that has most of them.
LEMMA HintsHold ==
  ASSUME NEW rows, IsTable(rows), RanksDiffer(rows)
  PROVE  /\ Hints(rows, OrderAccounts(rows)).vaultFree = VaultFreeBytes(rows)
         /\ Hints(rows, OrderAccounts(rows)).largestFree = LargestFreeSlot(rows)
<1> DEFINE A == ActiveAccounts(rows)
           n == Cardinality(A)
           t == OrderAccounts(rows)
           v == [a \in DOMAIN rows |-> FreeBytes(rows[a])]
<1>1. IsFiniteSet(A) /\ A \subseteq DOMAIN rows
  BY ActiveAreFinite
<1>2. \A a \in A : v[a] = FreeBytes(rows[a]) /\ v[a] \in Nat
  BY <1>1, FreeBytesRange DEF IsTable
<1>3. /\ n \in Nat /\ t \in [1 .. n -> A]
      /\ \A i, j \in 1 .. n : i < j => t[i] # t[j]
      /\ \A a \in A : \E i \in 1 .. n : t[i] = a
  BY OrderIsByRank
<1>4. VaultFreeBytes(rows) = Total(v, A)
  BY VaultFreeBytesIsTotal
<1>5. /\ LargestFreeSlot(rows) \in Nat
      /\ \A a \in A : v[a] <= LargestFreeSlot(rows)
      /\ LargestFreeSlot(rows) = 0 \/ \E a \in A : v[a] = LargestFreeSlot(rows)
  BY <1>2, LargestIsFree
<1> HIDE DEF A, v
<1>6. Len(t) = n
  BY <1>3
<1>7. \E f : Counts(f, rows, t, n) /\ Hints(rows, t) = f[n]
  <2>1. \E f : Counts(f, rows, t, n)
    BY <1>3, CountsExist
  <2> DEFINE f == CHOOSE g : Counts(g, rows, t, n)
  <2>2. Counts(f, rows, t, n)
    BY <2>1
  <2>3. Hints(rows, t) = f[n]
    BY <1>6 DEF Hints, Counts
  <2> QED  BY <2>2, <2>3
<1>8. PICK f : Counts(f, rows, t, n) /\ Hints(rows, t) = f[n]
  BY <1>7
<1> HIDE DEF n, t
<1>9. \A k \in 0 .. n :
        /\ f[k].vaultFree = Total(v, Seen(t, k))
        /\ f[k].largestFree \in Nat
        /\ \A i \in 1 .. k : v[t[i]] <= f[k].largestFree
        /\ f[k].largestFree = 0 \/ \E i \in 1 .. k : v[t[i]] = f[k].largestFree
  <2>1. n \in Nat /\ t \in [1 .. n -> A] /\ IsFiniteSet(A) /\ Counts(f, rows, t, n)
    BY <1>1, <1>3, <1>8
  <2>2. \A i, j \in 1 .. n : i < j => t[i] # t[j]
    BY <1>3
  <2> QED  BY ONLY <1>2, <2>1, <2>2, CountsHold
<1>10. n \in 0 .. n
  BY <1>3
<1>11. Seen(t, n) = A
  BY <1>3 DEF Seen
<1>12. f[n].vaultFree = VaultFreeBytes(rows)
  BY <1>4, <1>9, <1>10, <1>11
<1>13. f[n].largestFree = LargestFreeSlot(rows)
  <2> DEFINE L == f[n].largestFree
  <2>1. L \in Nat /\ (L = 0 \/ \E i \in 1 .. n : v[t[i]] = L)
    BY <1>9, <1>10
  <2>2. \A a \in A : v[a] <= L /\ v[a] \in Nat
    BY <1>2, <1>3, <1>9, <1>10
  <2>3. L <= LargestFreeSlot(rows)
    BY <1>3, <1>5, <2>1
  <2>4. LargestFreeSlot(rows) <= L
    BY <1>5, <2>1, <2>2
  <2> HIDE DEF L
  <2>5. L = LargestFreeSlot(rows)
    BY <1>5, <2>1, <2>3, <2>4
  <2> QED  BY <2>5 DEF L
<1> QED  BY <1>8, <1>12, <1>13 DEF t

\* The two loops of selectAccountForUpload over the sorted rows take the
\* account, and give the reason, that the set definitions name.
THEOREM LoopsSelectAsDefined ==
  ASSUME NEW rows, IsTable(rows), RanksDiffer(rows), None \notin DOMAIN rows,
         NEW size \in Nat
  PROVE  LET ordered == OrderAccounts(rows)
             answer  == SelectInLoop(rows, ordered, Hints(rows, ordered), size)
         IN  /\ answer.account = SelectAccount(rows, size)
             /\ answer.account = None => answer.reason = RejectReason(rows, size)
<1> DEFINE A == ActiveAccounts(rows)
           n == Cardinality(A)
           t == OrderAccounts(rows)
           answer == SelectInLoop(rows, t, Hints(rows, t), size)
           fits == {i \in DOMAIN t : FreeBytes(rows[t[i]]) >= size}
<1>1. A \subseteq DOMAIN rows
  BY ActiveAreFinite
<1>2. /\ n \in Nat /\ t \in [1 .. n -> A]
      /\ \A i, j \in 1 .. n : i < j => FillRank(rows[t[i]]) <= FillRank(rows[t[j]])
      /\ \A a \in A : \E i \in 1 .. n : t[i] = a
  BY OrderIsByRank
<1>3. VaultIsFull(size, Hints(rows, t)) <=> size > VaultFreeBytes(rows)
  BY HintsHold DEF VaultIsFull
<1>4. Fitting(rows, size) = {a \in A : FreeBytes(rows[a]) >= size}
  BY DEF Fitting
<1>5. /\ fits \subseteq 1 .. n
      /\ \A i \in fits : t[i] \in Fitting(rows, size)
      /\ \A a \in Fitting(rows, size) : \E i \in fits : t[i] = a
  BY <1>2, <1>4
<1>6. answer = IF size > VaultFreeBytes(rows) THEN [account |-> None, reason |-> "VAULT_FULL"]
               ELSE IF fits # {} THEN [account |-> t[Min(fits)], reason |-> "none"]
               ELSE [account |-> None, reason |-> "FILE_TOO_LARGE_FOR_ANY_ACCOUNT"]
  <2> DEFINE full == VaultIsFull(size, Hints(rows, t))
  <2>1. answer = IF full THEN [account |-> None, reason |-> "VAULT_FULL"]
                 ELSE IF fits # {} THEN [account |-> t[Min(fits)], reason |-> "none"]
                 ELSE [account |-> None, reason |-> "FILE_TOO_LARGE_FOR_ANY_ACCOUNT"]
    BY DEF SelectInLoop
  <2>2. full <=> size > VaultFreeBytes(rows)
    BY <1>3
  <2> HIDE DEF full, fits, answer, t
  <2> QED  BY <2>1, <2>2
<1> HIDE DEF fits, answer, t
<1>7. CASE size > VaultFreeBytes(rows)
  <2>1. answer = [account |-> None, reason |-> "VAULT_FULL"]
    BY <1>6, <1>7
  <2>2. SelectAccount(rows, size) = None /\ RejectReason(rows, size) = "VAULT_FULL"
    BY <1>7 DEF SelectAccount, RejectReason
  <2> QED  BY <2>1, <2>2 DEF answer, t
<1>8. CASE ~(size > VaultFreeBytes(rows)) /\ fits = {}
  <2>1. answer = [account |-> None, reason |-> "FILE_TOO_LARGE_FOR_ANY_ACCOUNT"]
    BY <1>6, <1>8
  <2>2. Fitting(rows, size) = {}
    BY <1>5, <1>8
  <2>3. /\ SelectAccount(rows, size) = None
        /\ RejectReason(rows, size) = "FILE_TOO_LARGE_FOR_ANY_ACCOUNT"
    BY <1>8, <2>2 DEF SelectAccount, RejectReason
  <2> QED  BY <2>1, <2>3 DEF answer, t
<1>9. CASE ~(size > VaultFreeBytes(rows)) /\ fits # {}
  <2> DEFINE k == Min(fits)
             S == Fitting(rows, size)
  <2>1. k \in fits /\ \A i \in fits : k <= i
    <3>1. fits \subseteq Nat
      BY <1>2, <1>5
    <3>2. \E m \in fits : \A i \in fits : m <= i
      BY <1>9, <3>1, LeastNat
    <3> QED  BY <3>2 DEF Min
  <2>2. answer = [account |-> t[k], reason |-> "none"]
    BY <1>6, <1>9
  <2>3. t[k] \in S /\ S \subseteq A
    BY <1>4, <1>5, <2>1
  <2>4. SelectAccount(rows, size) = FirstInFillOrder(rows, S)
    BY <1>9, <2>3 DEF SelectAccount
  <2> HIDE DEF k, S
  <2>5. \A b \in S : FillRank(rows[b]) \in 0..3
    BY <1>1, <2>3, FillRankRange DEF IsTable
  <2>6. \A b \in S : FillRank(rows[t[k]]) <= FillRank(rows[b])
    <3> SUFFICES ASSUME NEW b \in S  PROVE FillRank(rows[t[k]]) <= FillRank(rows[b])
      OBVIOUS
    <3>1. PICK i \in fits : t[i] = b
      BY <1>5 DEF S
    <3>2. k \in 1 .. n /\ i \in 1 .. n /\ k <= i
      BY <1>5, <2>1
    <3>3. CASE k = i
      BY <2>5, <3>1, <3>3
    <3>4. CASE k # i
      BY <1>2, <3>1, <3>2, <3>4
    <3> QED  BY <3>3, <3>4
  <2>7. LET a == FirstInFillOrder(rows, S)
        IN  a \in S /\ \A b \in S : FillRank(rows[a]) <= FillRank(rows[b])
    BY <2>3, <2>5, FirstInFillOrderIsFirst
  <2>8. FirstInFillOrder(rows, S) = t[k]
    <3>1. FillRank(rows[FirstInFillOrder(rows, S)]) = FillRank(rows[t[k]])
      BY <2>3, <2>5, <2>6, <2>7
    <3> QED  BY <2>3, <2>7, <3>1 DEF RanksDiffer
  <2>9. t[k] # None
    BY <1>1, <2>3
  <2> QED  BY <2>2, <2>4, <2>8, <2>9 DEF answer, t
<1> QED  BY <1>7, <1>8, <1>9
=============================================================================
