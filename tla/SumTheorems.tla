---------------------------- MODULE SumTheorems ----------------------------
(***************************************************************************)
(* Sums over finite sets, as FoldFunctionOnSet(+, 0, f, S) adds them up:   *)
(* the facts the conservation proofs need. The library's induction         *)
(* theorems take an operator as a parameter; what is used here instead is  *)
(* that a non-empty collection of subsets of a finite set has a minimal    *)
(* member, which speaks of sets only.                                      *)
(***************************************************************************)
EXTENDS Integers, FiniteSets, Functions, FiniteSetTheorems, WellFoundedInduction, TLAPS

SumOver(f, S) == FoldFunctionOnSet(+, 0, f, S)

Pick(s) == CHOOSE x \in s : TRUE

\* g adds f up over every subset of S, taking the elements as the fold does.
Adds(g, f, S) ==
    g = [s \in SUBSET S |-> IF s = {} THEN 0 ELSE f[Pick(s)] + g[s \ {Pick(s)}]]

Totals(f, S) == CHOOSE g : Adds(g, f, S)

-----------------------------------------------------------------------------
(* The fold is well defined *)

\* The fold is the total its recursive function gives the whole set.
LEMMA SumIsTotal ==
    ASSUME NEW f, NEW S
    PROVE  SumOver(f, S) = Totals(f, S)[S]
BY DEF SumOver, FoldFunctionOnSet, MapThenFoldSet, Totals, Adds, Pick

\* Of some subsets of a finite set, one contains no other.
LEMMA MinimalSubset ==
    ASSUME NEW S, IsFiniteSet(S), NEW C, C \subseteq SUBSET S, C # {}
    PROVE  \E s \in C : \A t \in C : t \subseteq s => t = s
<1>1. IsWellFoundedOn(StrictSubsetOrdering(S), FiniteSubsetsOf(S))
  BY FS_StrictSubsetOrderingWellFounded
<1>2. FiniteSubsetsOf(S) = SUBSET S
  BY FS_FiniteSubsetsOfFinite
<1>3. \E s \in C : \A t \in C : <<t, s>> \notin StrictSubsetOrdering(S)
  BY <1>1, <1>2, WFMin
<1> QED
  BY <1>3 DEF StrictSubsetOrdering

\* Of finitely many things, one is the least and one the most.
LEMMA LeastOfMany ==
    ASSUME NEW S, IsFiniteSet(S), S # {}, NEW f, \A x \in S : f[x] \in Int
    PROVE  \E x \in S : \A y \in S : f[x] <= f[y]
<1> DEFINE Bounded(s) == \E x \in s : \A y \in s : f[x] <= f[y]
           C == {s \in SUBSET S : s # {} /\ ~Bounded(s)}
<1>1. SUFFICES ASSUME C # {}
               PROVE  FALSE
  OBVIOUS
<1>2. PICK s \in C : \A t \in C : t \subseteq s => t = s
  <2>1. C \subseteq SUBSET S
    OBVIOUS
  <2> HIDE DEF C
  <2> QED
    BY <1>1, <2>1, MinimalSubset
<1>3. PICK x \in s : TRUE
  OBVIOUS
<1> DEFINE t == s \ {x}
<1>4. t # {}
  <2>1. f[x] \in Int
    BY <1>3
  <2> QED BY <1>3, <2>1
<1>5. PICK y \in t : \A z \in t : f[y] <= f[z]
  <2>1. t \subseteq s /\ t # s /\ t \in SUBSET S
    BY <1>3
  <2>2. t \notin C
    BY <1>2, <2>1
  <2>3. Bounded(t)
    BY <1>4, <2>1, <2>2
  <2> QED BY <2>3
<1>6. f[x] \in Int /\ f[y] \in Int /\ \A z \in s : f[z] \in Int
  BY <1>3, <1>5
<1>7. CASE f[x] <= f[y]
  <2>1. \A z \in s : f[x] <= f[z]
    BY <1>5, <1>6, <1>7
  <2> QED BY <2>1
<1>8. CASE ~(f[x] <= f[y])
  <2>1. \A z \in s : f[y] <= f[z]
    BY <1>5, <1>6, <1>8
  <2> QED BY <1>5, <2>1
<1> QED BY <1>7, <1>8

LEMMA MostOfMany ==
    ASSUME NEW S, IsFiniteSet(S), S # {}, NEW f, \A x \in S : f[x] \in Int
    PROVE  \E x \in S : \A y \in S : f[y] <= f[x]
<1> DEFINE g == [x \in S |-> -f[x]]
<1>1. PICK x \in S : \A y \in S : g[x] <= g[y]
  <2>1. \A y \in S : g[y] \in Int
    OBVIOUS
  <2> HIDE DEF g
  <2> QED BY <2>1, LeastOfMany
<1> QED BY <1>1

LEMMA PickIn == \A s : s # {} => Pick(s) \in s
BY DEF Pick

\* One step of a total.
LEMMA AddsStep ==
    ASSUME NEW f, NEW S, NEW g, Adds(g, f, S), NEW s, s \subseteq S
    PROVE  /\ s = {} => g[s] = 0
           /\ s # {} => g[s] = f[Pick(s)] + g[s \ {Pick(s)}]
BY DEF Adds

\* Totals over two sets agree on what the sets share.
LEMMA TotalsAgree ==
    ASSUME NEW f, NEW S, NEW T, IsFiniteSet(S), NEW g, NEW h, Adds(g, f, S), Adds(h, f, T)
    PROVE  \A s : s \subseteq S /\ s \subseteq T => g[s] = h[s]
<1> DEFINE C == {s \in SUBSET S : s \subseteq T /\ g[s] # h[s]}
<1>1. SUFFICES ASSUME C # {}
               PROVE  FALSE
  OBVIOUS
<1>2. PICK s \in C : \A t \in C : t \subseteq s => t = s
  <2>1. C \subseteq SUBSET S
    OBVIOUS
  <2> HIDE DEF C
  <2> QED
    BY <1>1, <2>1, MinimalSubset
<1>3. CASE s = {}
  BY <1>3, AddsStep
<1>4. CASE s # {}
  <2> DEFINE t == s \ {Pick(s)}
  <2>1. t \subseteq s /\ t # s /\ t \subseteq S /\ t \subseteq T
    BY <1>4, PickIn
  <2>2. g[t] = h[t]
    BY <1>2, <2>1
  <2>3. g[s] = f[Pick(s)] + g[t] /\ h[s] = f[Pick(s)] + h[t]
    BY <1>4, AddsStep
  <2> QED
    BY <2>2, <2>3
<1> QED
  BY <1>3, <1>4

\* The recursive function of the fold exists.
LEMMA TotalsExist ==
    ASSUME NEW f, NEW S, IsFiniteSet(S)
    PROVE  Adds(Totals(f, S), f, S)
<1> DEFINE C == {s \in SUBSET S : ~Adds(Totals(f, s), f, s)}
<1>1. SUFFICES ASSUME C # {}
               PROVE  FALSE
  OBVIOUS
<1>2. PICK s \in C : \A t \in C : t \subseteq s => t = s
  <2>1. C \subseteq SUBSET S
    OBVIOUS
  <2> HIDE DEF C
  <2> QED
    BY <1>1, <2>1, MinimalSubset
<1>3. \A t : t \subseteq s /\ t # s => Adds(Totals(f, t), f, t)
  BY <1>2
<1> DEFINE Rest(t) == t \ {Pick(t)}
           g == [t \in SUBSET s |->
                    IF t = {} THEN 0 ELSE f[Pick(t)] + Totals(f, Rest(t))[Rest(t)]]
<1>4. ASSUME NEW t, t \subseteq s, t # {}
      PROVE  g[Rest(t)] = Totals(f, Rest(t))[Rest(t)]
  <2>1. Rest(t) \subseteq s /\ Rest(t) # s
    BY <1>4, PickIn
  <2>2. Adds(Totals(f, Rest(t)), f, Rest(t))
    BY <1>3, <2>1
  <2>3. CASE Rest(t) = {}
    BY <2>1, <2>2, <2>3, AddsStep
  <2>4. CASE Rest(t) # {}
    <3> DEFINE r == Rest(t)
    <3>1. Rest(r) \subseteq r /\ Rest(r) # r /\ Rest(r) # s /\ Rest(r) \subseteq s
      BY <2>1, <2>4, PickIn
    <3>2. Adds(Totals(f, Rest(r)), f, Rest(r))
      BY <1>3, <3>1
    <3>3. IsFiniteSet(r)
      BY <2>1, FS_Subset
    <3> HIDE DEF Rest
    <3>4. Totals(f, r)[Rest(r)] = Totals(f, Rest(r))[Rest(r)]
      BY <2>2, <3>1, <3>2, <3>3, TotalsAgree
    <3>5. Totals(f, r)[r] = f[Pick(r)] + Totals(f, r)[Rest(r)]
      <4>1. r # {} /\ Adds(Totals(f, r), f, r) /\ r \subseteq r
        BY <2>2, <2>4
      <4> HIDE DEF r
      <4> QED
        BY <4>1, AddsStep DEF Rest
    <3>6. g[r] = f[Pick(r)] + Totals(f, Rest(r))[Rest(r)]
      BY <2>1, <2>4
    <3> QED
      BY <3>4, <3>5, <3>6
  <2> QED
    BY <2>3, <2>4
<1>5. Adds(g, f, s)
  BY <1>4 DEF Adds
<1>6. Adds(Totals(f, s), f, s)
  BY <1>5 DEF Totals
<1> QED
  BY <1>2, <1>6
-----------------------------------------------------------------------------
(* What a sum is *)

LEMMA SumEmpty == ASSUME NEW f PROVE SumOver(f, {}) = 0
<1>1. Adds(Totals(f, {}), f, {})
  BY TotalsExist, FS_EmptySet
<1>2. Totals(f, {})[{}] = 0
  BY <1>1, AddsStep
<1> QED
  BY <1>2, SumIsTotal

\* A set without the element the fold takes first.
LEMMA SumPick ==
    ASSUME NEW f, NEW S, IsFiniteSet(S), S # {}
    PROVE  SumOver(f, S) = f[Pick(S)] + SumOver(f, S \ {Pick(S)})
<1> DEFINE R == S \ {Pick(S)}
<1>1. IsFiniteSet(R) /\ R \subseteq S /\ R \subseteq R
  BY FS_RemoveElement
<1>2. Adds(Totals(f, S), f, S) /\ Adds(Totals(f, R), f, R)
  BY <1>1, TotalsExist
<1>3. Totals(f, S)[R] = Totals(f, R)[R]
  <2> HIDE DEF R
  <2> QED
    BY <1>1, <1>2, TotalsAgree
<1>4. Totals(f, S)[S] = f[Pick(S)] + Totals(f, S)[R]
  BY <1>2, AddsStep
<1> QED
  BY <1>3, <1>4, SumIsTotal

LEMMA SumInt ==
    ASSUME NEW f, NEW S, IsFiniteSet(S), \A x \in S : f[x] \in Int
    PROVE  SumOver(f, S) \in Int
<1> DEFINE C == {s \in SUBSET S : SumOver(f, s) \notin Int}
<1>1. SUFFICES ASSUME C # {}
               PROVE  FALSE
  OBVIOUS
<1>2. PICK s \in C : \A t \in C : t \subseteq s => t = s
  <2>1. C \subseteq SUBSET S
    OBVIOUS
  <2> HIDE DEF C
  <2> QED
    BY <1>1, <2>1, MinimalSubset
<1>3. s # {}
  BY SumEmpty
<1>4. SumOver(f, s \ {Pick(s)}) \in Int
  BY <1>2, <1>3, PickIn
<1>5. f[Pick(s)] \in Int /\ IsFiniteSet(s)
  BY <1>3, PickIn, FS_Subset
<1> QED
  BY <1>3, <1>4, <1>5, SumPick

\* Whichever element is taken first.
LEMMA SumRemove ==
    ASSUME NEW f, NEW S, IsFiniteSet(S), \A y \in S : f[y] \in Int, NEW x \in S
    PROVE  SumOver(f, S) = f[x] + SumOver(f, S \ {x})
<1> DEFINE C == {s \in SUBSET S : \E y \in s : SumOver(f, s) # f[y] + SumOver(f, s \ {y})}
<1>1. SUFFICES ASSUME C # {}
               PROVE  FALSE
  OBVIOUS
<1>2. PICK s \in C : \A t \in C : t \subseteq s => t = s
  <2>1. C \subseteq SUBSET S
    OBVIOUS
  <2> HIDE DEF C
  <2> QED
    BY <1>1, <2>1, MinimalSubset
<1>3. PICK y \in s : SumOver(f, s) # f[y] + SumOver(f, s \ {y})
  OBVIOUS
<1> DEFINE p == Pick(s)
           t == s \ {p}
           u == s \ {y}
           r == s \ {p, y}
<1>4. p \in s /\ s \subseteq S /\ IsFiniteSet(s)
  BY <1>3, PickIn, FS_Subset
<1>5. IsFiniteSet(t) /\ IsFiniteSet(u) /\ IsFiniteSet(r)
  BY <1>4, FS_Subset
<1>6. SumOver(f, s) = f[p] + SumOver(f, t)
  BY <1>3, <1>4, SumPick
<1>7. p # y
  BY <1>3, <1>6
<1>8. t \notin C /\ u \notin C
  BY <1>2, <1>3, <1>4
<1>9. SumOver(f, t) = f[y] + SumOver(f, r)
  <2>1. y \in t /\ t \in SUBSET S /\ t \ {y} = r
    BY <1>3, <1>4, <1>7
  <2> QED
    BY <1>8, <2>1
<1>10. SumOver(f, u) = f[p] + SumOver(f, r)
  <2>1. p \in u /\ u \in SUBSET S /\ u \ {p} = r
    BY <1>3, <1>4, <1>7
  <2> QED
    BY <1>8, <2>1
<1>11. SumOver(f, r) \in Int /\ f[p] \in Int /\ f[y] \in Int
  BY <1>3, <1>4, <1>5, SumInt
<1> HIDE DEF p, t, u, r, C
<1>12. SumOver(f, s) = f[y] + SumOver(f, u)
  BY <1>6, <1>9, <1>10, <1>11
<1> QED
  BY <1>3, <1>12 DEF u

LEMMA SumAdd ==
    ASSUME NEW f, NEW S, IsFiniteSet(S), NEW x, x \notin S, \A y \in S \cup {x} : f[y] \in Int
    PROVE  SumOver(f, S \cup {x}) = SumOver(f, S) + f[x]
<1>1. IsFiniteSet(S \cup {x}) /\ (S \cup {x}) \ {x} = S
  BY FS_AddElement
<1>2. SumOver(f, S \cup {x}) = f[x] + SumOver(f, S)
  BY <1>1, SumRemove
<1>3. SumOver(f, S) \in Int
  BY SumInt
<1> QED
  BY <1>2, <1>3

\* A sum depends on the terms only.
LEMMA SumSame ==
    ASSUME NEW f, NEW g, NEW S, IsFiniteSet(S), \A x \in S : f[x] = g[x]
    PROVE  SumOver(f, S) = SumOver(g, S)
<1> DEFINE C == {s \in SUBSET S : SumOver(f, s) # SumOver(g, s)}
<1>1. SUFFICES ASSUME C # {}
               PROVE  FALSE
  OBVIOUS
<1>2. PICK s \in C : \A t \in C : t \subseteq s => t = s
  <2>1. C \subseteq SUBSET S
    OBVIOUS
  <2> HIDE DEF C
  <2> QED
    BY <1>1, <2>1, MinimalSubset
<1>3. s # {}
  BY SumEmpty
<1>4. SumOver(f, s \ {Pick(s)}) = SumOver(g, s \ {Pick(s)})
  BY <1>2, <1>3, PickIn
<1>5. f[Pick(s)] = g[Pick(s)] /\ IsFiniteSet(s)
  BY <1>3, PickIn, FS_Subset
<1> QED
  BY <1>3, <1>4, <1>5, SumPick

LEMMA SumNat ==
    ASSUME NEW f, NEW S, IsFiniteSet(S), \A x \in S : f[x] \in Nat
    PROVE  SumOver(f, S) \in Nat
<1> DEFINE C == {s \in SUBSET S : SumOver(f, s) \notin Nat}
<1>1. SUFFICES ASSUME C # {}
               PROVE  FALSE
  OBVIOUS
<1>2. PICK s \in C : \A t \in C : t \subseteq s => t = s
  <2>1. C \subseteq SUBSET S
    OBVIOUS
  <2> HIDE DEF C
  <2> QED
    BY <1>1, <2>1, MinimalSubset
<1>3. s # {}
  BY SumEmpty
<1>4. SumOver(f, s \ {Pick(s)}) \in Nat
  BY <1>2, <1>3, PickIn
<1>5. f[Pick(s)] \in Nat /\ IsFiniteSet(s)
  BY <1>3, PickIn, FS_Subset
<1> QED
  BY <1>3, <1>4, <1>5, SumPick

\* A term that changes moves the sum by what it changed.
LEMMA SumChange ==
    ASSUME NEW f, NEW g, NEW S, IsFiniteSet(S), NEW x \in S,
           \A y \in S : f[y] \in Int /\ g[y] \in Int,
           \A y \in S \ {x} : g[y] = f[y]
    PROVE  SumOver(g, S) = SumOver(f, S) + g[x] - f[x]
<1> DEFINE R == S \ {x}
<1>1. IsFiniteSet(R)
  BY FS_RemoveElement
<1>2. SumOver(f, R) = SumOver(g, R) /\ SumOver(f, R) \in Int
  BY <1>1, SumSame, SumInt
<1>3. SumOver(f, S) = f[x] + SumOver(f, R) /\ SumOver(g, S) = g[x] + SumOver(g, R)
  BY SumRemove
<1> QED
  BY <1>2, <1>3

\* No term of naturals is above its sum.
LEMMA SumBounds ==
    ASSUME NEW f, NEW S, IsFiniteSet(S), \A y \in S : f[y] \in Nat, NEW x \in S
    PROVE  f[x] <= SumOver(f, S)
<1>1. SumOver(f, S) = f[x] + SumOver(f, S \ {x})
  BY SumRemove
<1>2. SumOver(f, S \ {x}) \in Nat
  BY FS_RemoveElement, SumNat
<1> QED
  BY <1>1, <1>2

\* A part and the rest make the whole.
LEMMA SumSplit ==
    ASSUME NEW f, NEW S, IsFiniteSet(S), \A y \in S : f[y] \in Int, NEW T, T \subseteq S
    PROVE  SumOver(f, S) = SumOver(f, T) + SumOver(f, S \ T)
<1> DEFINE C == {s \in SUBSET S : SumOver(f, S) # SumOver(f, s) + SumOver(f, S \ s)}
<1>1. SUFFICES ASSUME C # {}
               PROVE  FALSE
  OBVIOUS
<1>2. PICK s \in C : \A t \in C : t \subseteq s => t = s
  <2>1. C \subseteq SUBSET S
    OBVIOUS
  <2> HIDE DEF C
  <2> QED
    BY <1>1, <2>1, MinimalSubset
<1>3. SumOver(f, S) \in Int
  BY SumInt
<1>4. s # {}
  BY <1>3, SumEmpty
<1> DEFINE p == Pick(s)
           r == s \ {p}
<1>5. p \in s /\ r \subseteq S /\ r \notin C
  BY <1>2, <1>4, PickIn
<1>6. IsFiniteSet(s) /\ IsFiniteSet(S \ s) /\ IsFiniteSet(S \ r) /\ IsFiniteSet(r)
  BY <1>5, FS_Subset
<1>7. SumOver(f, S) = SumOver(f, r) + SumOver(f, S \ r)
  BY <1>5
<1>8. SumOver(f, s) = f[p] + SumOver(f, r)
  BY <1>5, <1>6, SumRemove
<1>9. SumOver(f, S \ r) = f[p] + SumOver(f, S \ s)
  <2>1. (S \ r) \ {p} = S \ s /\ p \in S \ r
    BY <1>5
  <2> QED
    BY <1>6, <2>1, SumRemove
<1>10. f[p] \in Int /\ SumOver(f, r) \in Int /\ SumOver(f, S \ s) \in Int
  BY <1>5, <1>6, SumInt
<1> HIDE DEF p, r
<1>11. SumOver(f, S) = SumOver(f, s) + SumOver(f, S \ s)
  BY <1>7, <1>8, <1>9, <1>10
<1> QED
  BY <1>11

\* Adding up class by class gives the same sum.
LEMMA SumByClass ==
    ASSUME NEW f, NEW S, IsFiniteSet(S), \A x \in S : f[x] \in Int,
           NEW I, IsFiniteSet(I), NEW h, \A x \in S : h[x] \in I
    PROVE  SumOver(f, S) = SumOver([i \in I |-> SumOver(f, {x \in S : h[x] = i})], I)
<1> DEFINE g == [i \in I |-> SumOver(f, {x \in S : h[x] = i})]
           In(J) == {x \in S : h[x] \in J}
           C == {J \in SUBSET I : SumOver(f, In(J)) # SumOver(g, J)}
<1>1. SUFFICES ASSUME C # {}
               PROVE  FALSE
  <2>1. In(I) = S /\ I \in SUBSET I
    OBVIOUS
  <2> QED
    BY <2>1
<1>2. PICK J \in C : \A K \in C : K \subseteq J => K = J
  <2>1. C \subseteq SUBSET I
    OBVIOUS
  <2> HIDE DEF C
  <2> QED
    BY <1>1, <2>1, MinimalSubset
<1>3. J # {}
  <2>1. In({}) = {}
    OBVIOUS
  <2> HIDE DEF In, g
  <2> QED
    BY <2>1, SumEmpty
<1> DEFINE p == Pick(J)
           K == J \ {p}
           Own == {x \in S : h[x] = p}
<1>4. p \in J /\ K \subseteq J /\ K # J /\ J \subseteq I
  BY <1>3, PickIn
<1>5. SumOver(f, In(K)) = SumOver(g, K)
  BY <1>2, <1>4
<1>6. IsFiniteSet(J) /\ IsFiniteSet(K) /\ IsFiniteSet(In(J)) /\ IsFiniteSet(In(K)) /\ IsFiniteSet(Own)
  BY <1>4, FS_Subset
<1>7. Own \subseteq In(J) /\ In(J) \ Own = In(K)
  BY <1>4
<1>8. SumOver(f, In(J)) = SumOver(f, Own) + SumOver(f, In(K))
  <2>1. \A x \in In(J) : f[x] \in Int
    OBVIOUS
  <2> HIDE DEF In, Own, K
  <2> QED
    BY <1>6, <1>7, <2>1, SumSplit
<1>9. SumOver(g, J) = g[p] + SumOver(g, K)
  <2> HIDE DEF g
  <2> QED
    BY <1>3, <1>6, SumPick
<1>10. g[p] = SumOver(f, Own)
  BY <1>4
<1> HIDE DEF g, p, K, Own, In
<1>11. SumOver(f, In(J)) = SumOver(g, J)
  BY <1>5, <1>8, <1>9, <1>10
<1> QED
  BY <1>11
=============================================================================
