---------------------------------- MODULE Sums ----------------------------------
(***************************************************************************)
(* Sums over finite sets: what SumFunctionOnSet of the module Functions    *)
(* returns.  It is a fold over the subsets of its set, by a recursive      *)
(* function; the lemmas here are proved by induction over those subsets,   *)
(* as the absence of a smallest counterexample.                            *)
(***************************************************************************)
EXTENDS Integers, Functions, FiniteSets, FiniteSetTheorems, WellFoundedInduction, TLAPS

\* Among subsets of a finite set there is a smallest one.
LEMMA SmallestSubset ==
  ASSUME NEW S, IsFiniteSet(S), NEW F, F \subseteq SUBSET S, F # {}
  PROVE  \E T \in F : \A U \in F : ~(U \subseteq T /\ U # T)
<1>1. IsWellFoundedOn(StrictSubsetOrdering(S), SUBSET S)
  BY FS_StrictSubsetOrderingWellFounded, FS_FiniteSubsetsOfFinite
<1>2. PICK T \in F : \A U \in F : ~ (<<U, T>> \in StrictSubsetOrdering(S))
  BY <1>1, WFMin
<1>3. ASSUME NEW U \in F, U \subseteq T, U # T PROVE FALSE
  <2>1. <<U, T>> \in StrictSubsetOrdering(S)
    BY <1>3 DEF StrictSubsetOrdering
  <2> QED BY <1>2, <2>1
<1> QED BY <1>3

-------------------------------------------------------------------------------
(* The recursion                                                           *)

\* The element the fold takes first.
Some(s) == CHOOSE x \in s : TRUE

\* g holds the sums of f over the subsets of S.
Sums(g, f, S) ==
    g = [s \in SUBSET S |-> IF s = {} THEN 0 ELSE f[Some(s)] + g[s \ {Some(s)}]]

\* The fold is such a g.
LEMMA SumIs ==
  ASSUME NEW f, NEW S
  PROVE  SumFunctionOnSet(f, S) = (CHOOSE g : Sums(g, f, S))[S]
  BY DEF SumFunctionOnSet, FoldFunctionOnSet, MapThenFoldSet, Sums, Some

\* It takes an element of the set.
LEMMA SomeIn == ASSUME NEW s, s # {} PROVE Some(s) \in s
  BY DEF Some

\* What g says of one subset.
LEMMA SumsAt ==
  ASSUME NEW f, NEW S, NEW g, Sums(g, f, S)
  PROVE  \A s \in SUBSET S : g[s] = IF s = {} THEN 0 ELSE f[Some(s)] + g[s \ {Some(s)}]
  BY DEF Sums

\* There is one way to sum.
LEMMA SumsAgree ==
  ASSUME NEW f, NEW S, NEW T, NEW g, NEW h, Sums(g, f, S), Sums(h, f, T), IsFiniteSet(S)
  PROVE  \A s \in (SUBSET S) \cap (SUBSET T) : g[s] = h[s]
<1> DEFINE F == {s \in (SUBSET S) \cap (SUBSET T) : g[s] # h[s]}
<1> SUFFICES ASSUME F # {} PROVE FALSE
  OBVIOUS
<1>1. PICK s \in F : \A u \in F : ~(u \subseteq s /\ u # s)
  <2>1. F \subseteq SUBSET S
    OBVIOUS
  <2> HIDE DEF F
  <2> QED BY <2>1, SmallestSubset
<1>2. /\ g[s] = IF s = {} THEN 0 ELSE f[Some(s)] + g[s \ {Some(s)}]
      /\ h[s] = IF s = {} THEN 0 ELSE f[Some(s)] + h[s \ {Some(s)}]
  <2>1. s \in SUBSET S /\ s \in SUBSET T
    BY <1>1
  <2> HIDE DEF F
  <2>2. \A u \in SUBSET S : g[u] = IF u = {} THEN 0 ELSE f[Some(u)] + g[u \ {Some(u)}]
    BY SumsAt
  <2>3. \A u \in SUBSET T : h[u] = IF u = {} THEN 0 ELSE f[Some(u)] + h[u \ {Some(u)}]
    BY SumsAt
  <2> QED BY <2>1, <2>2, <2>3
<1>3. s # {}
  BY <1>2
<1>4. g[s \ {Some(s)}] = h[s \ {Some(s)}]
  BY <1>1, <1>3, SomeIn
<1> QED BY <1>2, <1>3, <1>4

\* And there is a way.
LEMMA SumsExist ==
  ASSUME NEW f, NEW S, IsFiniteSet(S)
  PROVE  \E g : Sums(g, f, S)
<1> DEFINE F == {T \in SUBSET S : ~ \E g : Sums(g, f, T)}
           Way(T) == CHOOSE g : Sums(g, f, T)
           Rest(s) == s \ {Some(s)}
<1> SUFFICES ASSUME F # {} PROVE FALSE
  OBVIOUS
<1>1. PICK T \in F : \A U \in F : ~(U \subseteq T /\ U # T)
  <2>1. F \subseteq SUBSET S
    OBVIOUS
  <2> HIDE DEF F
  <2> QED BY <2>1, SmallestSubset
<1>2. \A u \in SUBSET T : u # T => Sums(Way(u), f, u)
  <2> SUFFICES ASSUME NEW u \in SUBSET T, u # T PROVE Sums(Way(u), f, u)
    OBVIOUS
  <2>1. u \notin F /\ u \in SUBSET S
    BY <1>1
  <2>2. \E g : Sums(g, f, u)
    BY <2>1
  <2> HIDE DEF F
  <2> QED BY <2>2
<1>3. \A s \in SUBSET T : s # {} => Rest(s) \in SUBSET T /\ Rest(s) # T /\ Rest(s) \subseteq s /\ Rest(s) # s
  BY SomeIn
<1> DEFINE g == [s \in SUBSET T |-> IF s = {} THEN 0 ELSE f[Some(s)] + Way(Rest(s))[Rest(s)]]
<1>4. ASSUME NEW u \in SUBSET T, u # T
      PROVE  g[u] = Way(u)[u]
  <2>1. Sums(Way(u), f, u) /\ IsFiniteSet(u)
    BY <1>2, <1>4, FS_Subset
  <2>2. CASE u = {}
    <3>1. Way(u)[u] = 0
      BY <2>1, <2>2, SumsAt
    <3> QED BY <2>2, <3>1
  <2>3. CASE u # {}
    <3>1. Rest(u) \in SUBSET T /\ Rest(u) # T /\ Rest(u) \in SUBSET u
      BY <1>3, <2>3
    <3>2. Sums(Way(Rest(u)), f, Rest(u))
      BY <1>2, <3>1
    <3>3. Way(u)[Rest(u)] = Way(Rest(u))[Rest(u)]
      <4> HIDE DEF Way, Rest
      <4> QED BY <2>1, <3>1, <3>2, SumsAgree
    <3>4. Way(u)[u] = f[Some(u)] + Way(u)[Rest(u)]
      <4> HIDE DEF Way
      <4> QED BY <2>1, <2>3, SumsAt
    <3>5. g[u] = f[Some(u)] + Way(Rest(u))[Rest(u)]
      <4> HIDE DEF Way, Rest
      <4> QED BY <2>3
    <3> QED BY <3>3, <3>4, <3>5
  <2> QED BY <2>2, <2>3
<1>5. \A s \in SUBSET T : s # {} => Way(Rest(s))[Rest(s)] = g[Rest(s)]
  <2> HIDE DEF g, Way, Rest
  <2> QED BY <1>3, <1>4
<1>6. g = [s \in SUBSET T |-> IF s = {} THEN 0 ELSE f[Some(s)] + g[Rest(s)]]
  <2> HIDE DEF Way, Rest
  <2> QED BY <1>5
<1>7. Sums(g, f, T)
  <2> HIDE DEF g
  <2> QED BY <1>6 DEF Sums
<1> QED BY <1>7

\* The sum of nothing is 0, and one of the elements is taken first.
LEMMA SumUnfolds ==
  ASSUME NEW f, NEW S, IsFiniteSet(S)
  PROVE  SumFunctionOnSet(f, S) =
            IF S = {} THEN 0 ELSE f[Some(S)] + SumFunctionOnSet(f, S \ {Some(S)})
<1> DEFINE g == CHOOSE g : Sums(g, f, S)
           T == S \ {Some(S)}
           h == CHOOSE h : Sums(h, f, T)
<1>1. IsFiniteSet(T) /\ T \in SUBSET S
  BY FS_Subset
<1>2. Sums(g, f, S) /\ Sums(h, f, T)
  BY <1>1, SumsExist
<1>3. SumFunctionOnSet(f, S) = g[S] /\ SumFunctionOnSet(f, T) = h[T]
  BY SumIs
<1> HIDE DEF g, h
<1>4. g[T] = h[T]
  BY <1>1, <1>2, SumsAgree
<1>5. g[S] = IF S = {} THEN 0 ELSE f[Some(S)] + g[T]
  <2>1. \A u \in SUBSET S : g[u] = IF u = {} THEN 0 ELSE f[Some(u)] + g[u \ {Some(u)}]
    BY <1>2, SumsAt
  <2> QED BY <2>1
<1> QED BY <1>3, <1>4, <1>5
-------------------------------------------------------------------------------
(* What a sum is                                                           *)

\* It is of the values on the set alone.
THEOREM SumSame ==
  ASSUME NEW f, NEW g, NEW S, IsFiniteSet(S), \A x \in S : f[x] = g[x]
  PROVE  SumFunctionOnSet(f, S) = SumFunctionOnSet(g, S)
<1> DEFINE F == {T \in SUBSET S : SumFunctionOnSet(f, T) # SumFunctionOnSet(g, T)}
<1> SUFFICES ASSUME F # {} PROVE FALSE
  <2>1. F = {} => S \notin F
    OBVIOUS
  <2> QED BY <2>1
<1>1. PICK T \in F : \A U \in F : ~(U \subseteq T /\ U # T)
  <2>1. F \subseteq SUBSET S
    OBVIOUS
  <2> HIDE DEF F
  <2> QED BY <2>1, SmallestSubset
<1>2. /\ SumFunctionOnSet(f, T) =
            IF T = {} THEN 0 ELSE f[Some(T)] + SumFunctionOnSet(f, T \ {Some(T)})
      /\ SumFunctionOnSet(g, T) =
            IF T = {} THEN 0 ELSE g[Some(T)] + SumFunctionOnSet(g, T \ {Some(T)})
  <2>1. IsFiniteSet(T)
    BY FS_Subset
  <2> HIDE DEF F
  <2> QED BY <2>1, SumUnfolds
<1>3. T # {}
  BY <1>1, <1>2
<1>4. Some(T) \in S /\ T \ {Some(T)} \notin F /\ T \ {Some(T)} \in SUBSET S
  BY <1>1, <1>3, SomeIn
<1> QED BY <1>1, <1>2, <1>3, <1>4

\* Of numbers it is a number.
THEOREM SumIsInt ==
  ASSUME NEW f, NEW S, IsFiniteSet(S), \A x \in S : f[x] \in Int
  PROVE  SumFunctionOnSet(f, S) \in Int
<1> DEFINE F == {T \in SUBSET S : SumFunctionOnSet(f, T) \notin Int}
<1> SUFFICES ASSUME F # {} PROVE FALSE
  <2>1. F = {} => S \notin F
    OBVIOUS
  <2> QED BY <2>1
<1>1. PICK T \in F : \A U \in F : ~(U \subseteq T /\ U # T)
  <2>1. F \subseteq SUBSET S
    OBVIOUS
  <2> HIDE DEF F
  <2> QED BY <2>1, SmallestSubset
<1>2. SumFunctionOnSet(f, T) =
            IF T = {} THEN 0 ELSE f[Some(T)] + SumFunctionOnSet(f, T \ {Some(T)})
  <2>1. IsFiniteSet(T)
    BY FS_Subset
  <2> HIDE DEF F
  <2> QED BY <2>1, SumUnfolds
<1>3. T # {}
  BY <1>1, <1>2
<1>4. Some(T) \in S /\ T \ {Some(T)} \notin F /\ T \ {Some(T)} \in SUBSET S
  BY <1>1, <1>3, SomeIn
<1> QED BY <1>1, <1>2, <1>3, <1>4

\* Any element may be taken first.
THEOREM SumTake ==
  ASSUME NEW f, NEW S, IsFiniteSet(S), \A x \in S : f[x] \in Int
  PROVE  \A x \in S : SumFunctionOnSet(f, S) = f[x] + SumFunctionOnSet(f, S \ {x})
<1> DEFINE Total(T) == SumFunctionOnSet(f, T)
           F == {T \in SUBSET S : \E x \in T : Total(T) # f[x] + Total(T \ {x})}
<1> SUFFICES ASSUME F # {} PROVE FALSE
  <2>1. F = {} => S \notin F
    OBVIOUS
  <2> QED BY <2>1
<1>1. PICK T \in F : \A U \in F : ~(U \subseteq T /\ U # T)
  <2>1. F \subseteq SUBSET S
    OBVIOUS
  <2> HIDE DEF F
  <2> QED BY <2>1, SmallestSubset
<1>2. PICK x \in T : Total(T) # f[x] + Total(T \ {x})
  BY <1>1
<1> DEFINE y == Some(T)
<1>3. y \in T /\ x \in S /\ y \in S
  BY SomeIn
<1>4. Total(T) = f[y] + Total(T \ {y})
  <2>1. IsFiniteSet(T) /\ T # {}
    BY FS_Subset
  <2> HIDE DEF F
  <2> QED BY <2>1, SumUnfolds
<1>5. x # y
  BY <1>2, <1>4
<1>6. T \ {x} \notin F /\ T \ {y} \notin F /\ T \ {x} \in SUBSET S /\ T \ {y} \in SUBSET S
  BY <1>1, <1>2, <1>3
<1>7. Total(T \ {x}) = f[y] + Total((T \ {x}) \ {y}) /\ Total(T \ {y}) = f[x] + Total((T \ {y}) \ {x})
  <2>1. y \in T \ {x} /\ x \in T \ {y}
    BY <1>3, <1>5
  <2> HIDE DEF Total, y
  <2> QED BY <1>6, <2>1
<1>8. (T \ {x}) \ {y} = (T \ {y}) \ {x}
  OBVIOUS
<1>9. Total((T \ {x}) \ {y}) \in Int /\ f[x] \in Int /\ f[y] \in Int
  <2>1. (T \ {x}) \ {y} \in SUBSET S /\ IsFiniteSet((T \ {x}) \ {y})
    BY FS_Subset
  <2> HIDE DEF F, y
  <2> QED BY <1>3, <2>1, SumIsInt
<1>10. f[x] + (f[y] + Total((T \ {x}) \ {y})) = f[y] + (f[x] + Total((T \ {x}) \ {y}))
  <2> HIDE DEF Total, y
  <2> QED BY <1>9
<1> HIDE DEF Total, y, F
<1> QED BY <1>2, <1>4, <1>7, <1>8, <1>10
\* The sum of nothing.
LEMMA SumEmpty == ASSUME NEW f PROVE SumFunctionOnSet(f, {}) = 0
<1>1. IsFiniteSet({})
  BY FS_EmptySet
<1> QED BY <1>1, SumUnfolds

\* An element more.
THEOREM SumAdd ==
  ASSUME NEW f, NEW S, IsFiniteSet(S), NEW x, x \notin S, f[x] \in Int, \A y \in S : f[y] \in Int
  PROVE  SumFunctionOnSet(f, S \cup {x}) = f[x] + SumFunctionOnSet(f, S)
<1> DEFINE T == S \cup {x}
<1>1. IsFiniteSet(T) /\ x \in T /\ T \ {x} = S /\ \A y \in T : f[y] \in Int
  BY FS_AddElement
<1> HIDE DEF T
<1>2. SumFunctionOnSet(f, T) = f[x] + SumFunctionOnSet(f, T \ {x})
  BY <1>1, SumTake
<1> QED BY <1>1, <1>2 DEF T

\* One element.
LEMMA SumSingle ==
  ASSUME NEW f, NEW x, f[x] \in Int
  PROVE  SumFunctionOnSet(f, {x}) = f[x]
<1>1. SumFunctionOnSet(f, {} \cup {x}) = f[x] + SumFunctionOnSet(f, {})
  BY SumAdd, FS_EmptySet
<1>2. {} \cup {x} = {x}
  OBVIOUS
<1> QED BY <1>1, <1>2, SumEmpty

\* Sums of disjoint sets add up.
THEOREM SumUnion ==
  ASSUME NEW f, NEW S, IsFiniteSet(S), NEW T, IsFiniteSet(T), S \cap T = {},
         \A x \in S \cup T : f[x] \in Int
  PROVE  SumFunctionOnSet(f, S \cup T) = SumFunctionOnSet(f, S) + SumFunctionOnSet(f, T)
<1> DEFINE Total(U) == SumFunctionOnSet(f, U)
           F == {U \in SUBSET T : Total(S \cup U) # Total(S) + Total(U)}
<1> SUFFICES ASSUME F # {} PROVE FALSE
  <2>1. F = {} => T \notin F
    OBVIOUS
  <2> QED BY <2>1
<1>1. PICK U \in F : \A V \in F : ~(V \subseteq U /\ V # U)
  <2>1. F \subseteq SUBSET T
    OBVIOUS
  <2> HIDE DEF F
  <2> QED BY <2>1, SmallestSubset
<1>2. U \in SUBSET T /\ Total(S \cup U) # Total(S) + Total(U)
  OBVIOUS
<1>3. Total(S) \in Int
  BY SumIsInt
<1>4. U # {}
  <2> SUFFICES ASSUME U = {} PROVE FALSE
    OBVIOUS
  <2>1. Total(U) = 0 /\ S \cup U = S
    BY SumEmpty
  <2> HIDE DEF F, Total
  <2> QED BY <1>2, <1>3, <2>1
<1>5. PICK x \in U : TRUE
  BY <1>4
<1> DEFINE V == U \ {x}
<1>6. V \in SUBSET T /\ V \notin F
  BY <1>1
<1>7. Total(S \cup V) = Total(S) + Total(V)
  BY <1>6
<1>8. /\ IsFiniteSet(V) /\ IsFiniteSet(S \cup V) /\ x \notin V /\ x \notin S \cup V
      /\ V \cup {x} = U /\ (S \cup V) \cup {x} = S \cup U
      /\ f[x] \in Int /\ (\A y \in S \cup V : f[y] \in Int)
  <2>1. IsFiniteSet(V)
    BY <1>6, FS_Subset
  <2>2. IsFiniteSet(S \cup V)
    BY <2>1, FS_Union
  <2> QED BY <1>2, <2>1, <2>2
<1> HIDE DEF F, V
<1>9. Total(U) = f[x] + Total(V) /\ Total(S \cup U) = f[x] + Total(S \cup V)
  <2>1. Total(V \cup {x}) = f[x] + Total(V)
    BY <1>8, SumAdd
  <2>2. Total((S \cup V) \cup {x}) = f[x] + Total(S \cup V)
    BY <1>8, SumAdd
  <2> HIDE DEF Total
  <2> QED BY <1>8, <2>1, <2>2
<1>10. Total(V) \in Int
  BY <1>8, SumIsInt
<1> HIDE DEF Total
<1>11. f[x] + (Total(S) + Total(V)) = Total(S) + (f[x] + Total(V))
  BY <1>3, <1>8, <1>10
<1> QED BY <1>2, <1>7, <1>9, <1>11

\* A sum of naturals is one.
THEOREM SumIsNat ==
  ASSUME NEW f, NEW S, IsFiniteSet(S), \A x \in S : f[x] \in Nat
  PROVE  SumFunctionOnSet(f, S) \in Nat
<1> DEFINE Total(U) == SumFunctionOnSet(f, U)
           F == {T \in SUBSET S : Total(T) \notin Nat}
<1> SUFFICES ASSUME F # {} PROVE FALSE
  <2>1. F = {} => S \notin F
    OBVIOUS
  <2> QED BY <2>1
<1>1. PICK T \in F : \A U \in F : ~(U \subseteq T /\ U # T)
  <2>1. F \subseteq SUBSET S
    OBVIOUS
  <2> HIDE DEF F
  <2> QED BY <2>1, SmallestSubset
<1>2. T \in SUBSET S /\ Total(T) \notin Nat /\ IsFiniteSet(T)
  BY FS_Subset
<1>3. T # {}
  <2> SUFFICES ASSUME T = {} PROVE FALSE
    OBVIOUS
  <2>1. Total(T) = 0
    BY SumEmpty
  <2> HIDE DEF F, Total
  <2> QED BY <1>2, <2>1
<1>4. PICK x \in T : TRUE
  BY <1>3
<1>5. Total(T \ {x}) \in Nat
  BY <1>1, <1>2
<1> HIDE DEF F
<1>6. Total(T) = f[x] + Total(T \ {x}) /\ f[x] \in Nat
  BY <1>2, SumTake
<1> HIDE DEF Total
<1> QED BY <1>2, <1>5, <1>6

\* A part of it is no more.
THEOREM SumOfPart ==
  ASSUME NEW f, NEW S, IsFiniteSet(S), NEW T \in SUBSET S, \A x \in S : f[x] \in Nat
  PROVE  /\ SumFunctionOnSet(f, T) <= SumFunctionOnSet(f, S)
         /\ SumFunctionOnSet(f, S \ T) = SumFunctionOnSet(f, S) - SumFunctionOnSet(f, T)
<1> DEFINE Total(U) == SumFunctionOnSet(f, U)
<1>1. IsFiniteSet(T) /\ IsFiniteSet(S \ T) /\ T \cup (S \ T) = S /\ T \cap (S \ T) = {}
  BY FS_Subset
<1>2. Total(T \cup (S \ T)) = Total(T) + Total(S \ T)
  BY <1>1, SumUnion
<1>3. Total(T) \in Nat /\ Total(S \ T) \in Nat
  BY <1>1, SumIsNat
<1> SUFFICES Total(T) <= Total(S) /\ Total(S \ T) = Total(S) - Total(T)
  OBVIOUS
<1> HIDE DEF Total
<1>4. Total(S) = Total(T) + Total(S \ T)
  BY <1>1, <1>2
<1>5. Total(T) <= Total(T) + Total(S \ T) /\ Total(S \ T) = (Total(T) + Total(S \ T)) - Total(T)
  BY <1>3
<1> QED BY <1>4, <1>5

\* A value that changes changes the sum by as much.
THEOREM SumUpdate ==
  ASSUME NEW f, NEW g, NEW S, IsFiniteSet(S), NEW x \in S,
         \A y \in S : f[y] \in Int /\ g[y] \in Int, \A y \in S \ {x} : g[y] = f[y]
  PROVE  SumFunctionOnSet(g, S) = SumFunctionOnSet(f, S) - f[x] + g[x]
<1> DEFINE T == S \ {x}
<1>1. IsFiniteSet(T)
  BY FS_Subset
<1>2. SumFunctionOnSet(f, S) = f[x] + SumFunctionOnSet(f, T)
  BY SumTake
<1>3. SumFunctionOnSet(g, S) = g[x] + SumFunctionOnSet(g, T)
  BY SumTake
<1>4. SumFunctionOnSet(f, T) = SumFunctionOnSet(g, T) /\ SumFunctionOnSet(g, T) \in Int
  BY <1>1, SumSame, SumIsInt
<1>5. f[x] \in Int /\ g[x] \in Int
  OBVIOUS
<1> HIDE DEF T
<1> QED BY <1>2, <1>3, <1>4, <1>5

\* Less of everything is less.
THEOREM SumAtMost ==
  ASSUME NEW f, NEW g, NEW S, IsFiniteSet(S),
         \A x \in S : f[x] \in Int /\ g[x] \in Int /\ f[x] <= g[x]
  PROVE  SumFunctionOnSet(f, S) <= SumFunctionOnSet(g, S)
<1> DEFINE F == {T \in SUBSET S : ~(SumFunctionOnSet(f, T) <= SumFunctionOnSet(g, T))}
<1> SUFFICES ASSUME F # {} PROVE FALSE
  <2>1. F = {} => S \notin F
    OBVIOUS
  <2> QED BY <2>1
<1>1. PICK T \in F : \A U \in F : ~(U \subseteq T /\ U # T)
  <2>1. F \subseteq SUBSET S
    OBVIOUS
  <2> HIDE DEF F
  <2> QED BY <2>1, SmallestSubset
<1>2. T \in SUBSET S /\ ~(SumFunctionOnSet(f, T) <= SumFunctionOnSet(g, T)) /\ IsFiniteSet(T)
  BY FS_Subset
<1>3. T # {}
  <2> SUFFICES ASSUME T = {} PROVE FALSE
    OBVIOUS
  <2>1. SumFunctionOnSet(f, T) = 0 /\ SumFunctionOnSet(g, T) = 0
    BY SumEmpty
  <2> HIDE DEF F
  <2> QED BY <1>2, <2>1
<1>4. PICK x \in T : TRUE
  BY <1>3
<1>5. SumFunctionOnSet(f, T \ {x}) <= SumFunctionOnSet(g, T \ {x})
  BY <1>1, <1>2
<1> HIDE DEF F
<1>6. SumFunctionOnSet(f, T) = f[x] + SumFunctionOnSet(f, T \ {x})
  BY <1>2, SumTake
<1>7. SumFunctionOnSet(g, T) = g[x] + SumFunctionOnSet(g, T \ {x})
  BY <1>2, SumTake
<1>8. f[x] \in Int /\ g[x] \in Int /\ f[x] <= g[x]
  BY <1>2
<1>9. SumFunctionOnSet(f, T \ {x}) \in Int /\ SumFunctionOnSet(g, T \ {x}) \in Int
  <2>1. IsFiniteSet(T \ {x})
    BY <1>2, FS_Subset
  <2> QED BY <1>2, <2>1, SumIsInt
<1> QED BY <1>2, <1>5, <1>6, <1>7, <1>8, <1>9

\* Sums of the same set add up.
THEOREM SumPlus ==
  ASSUME NEW f, NEW g, NEW h, NEW S, IsFiniteSet(S),
         \A x \in S : f[x] \in Int /\ g[x] \in Int /\ h[x] = f[x] + g[x]
  PROVE  SumFunctionOnSet(h, S) = SumFunctionOnSet(f, S) + SumFunctionOnSet(g, S)
<1> DEFINE F == {T \in SUBSET S : SumFunctionOnSet(h, T) #
                                      SumFunctionOnSet(f, T) + SumFunctionOnSet(g, T)}
<1> SUFFICES ASSUME F # {} PROVE FALSE
  <2>1. F = {} => S \notin F
    OBVIOUS
  <2> QED BY <2>1
<1>1. PICK T \in F : \A U \in F : ~(U \subseteq T /\ U # T)
  <2>1. F \subseteq SUBSET S
    OBVIOUS
  <2> HIDE DEF F
  <2> QED BY <2>1, SmallestSubset
<1>2. /\ T \in SUBSET S /\ IsFiniteSet(T)
      /\ SumFunctionOnSet(h, T) # SumFunctionOnSet(f, T) + SumFunctionOnSet(g, T)
  BY FS_Subset
<1>3. T # {}
  <2> SUFFICES ASSUME T = {} PROVE FALSE
    OBVIOUS
  <2>1. /\ SumFunctionOnSet(f, T) = 0 /\ SumFunctionOnSet(g, T) = 0
        /\ SumFunctionOnSet(h, T) = 0
    BY SumEmpty
  <2> HIDE DEF F
  <2> QED BY <1>2, <2>1
<1>4. PICK x \in T : TRUE
  BY <1>3
<1> DEFINE U == T \ {x}
<1>5. SumFunctionOnSet(h, U) = SumFunctionOnSet(f, U) + SumFunctionOnSet(g, U)
  BY <1>1, <1>2
<1>6. \A y \in T : f[y] \in Int /\ g[y] \in Int /\ h[y] \in Int
  BY <1>2
<1> HIDE DEF F
<1>7. SumFunctionOnSet(f, T) = f[x] + SumFunctionOnSet(f, U)
  BY <1>2, <1>6, SumTake
<1>8. SumFunctionOnSet(g, T) = g[x] + SumFunctionOnSet(g, U)
  BY <1>2, <1>6, SumTake
<1>9. SumFunctionOnSet(h, T) = h[x] + SumFunctionOnSet(h, U)
  BY <1>2, <1>6, SumTake
<1>10. IsFiniteSet(U) /\ \A y \in U : f[y] \in Int /\ g[y] \in Int
  BY <1>2, <1>6, FS_Subset
<1>11. SumFunctionOnSet(f, U) \in Int /\ SumFunctionOnSet(g, U) \in Int
  <2> HIDE DEF U
  <2> QED BY <1>10, SumIsInt
<1>12. f[x] \in Int /\ g[x] \in Int /\ h[x] = f[x] + g[x]
  BY <1>2
<1> HIDE DEF U
<1> QED BY <1>2, <1>5, <1>7, <1>8, <1>9, <1>11, <1>12

\* What is 0 everywhere sums to 0.
LEMMA SumZero ==
  ASSUME NEW f, NEW S, IsFiniteSet(S), \A x \in S : f[x] = 0
  PROVE  SumFunctionOnSet(f, S) = 0
<1>1. \A x \in S : f[x] \in Int /\ f[x] = f[x] + f[x]
  OBVIOUS
<1>2. SumFunctionOnSet(f, S) \in Int
  BY SumIsInt
<1>3. SumFunctionOnSet(f, S) = SumFunctionOnSet(f, S) + SumFunctionOnSet(f, S)
  BY <1>1, SumPlus
<1>4. \A n \in Int : n = n + n => n = 0
  OBVIOUS
<1> QED BY <1>2, <1>3, <1>4, Zenon

\* A sum over a part of a set is a sum over the whole, of 0 elsewhere.
THEOREM SumWhere ==
  ASSUME NEW f, NEW g, NEW S, IsFiniteSet(S), NEW T \in SUBSET S,
         \A x \in T : f[x] \in Int /\ g[x] = f[x], \A x \in S \ T : g[x] = 0
  PROVE  SumFunctionOnSet(f, T) = SumFunctionOnSet(g, S)
<1>1. IsFiniteSet(T) /\ IsFiniteSet(S \ T) /\ T \cap (S \ T) = {} /\ T \cup (S \ T) = S
  BY FS_Subset
<1>2. \A x \in T \cup (S \ T) : g[x] \in Int
  OBVIOUS
<1>3. SumFunctionOnSet(g, T \cup (S \ T)) =
          SumFunctionOnSet(g, T) + SumFunctionOnSet(g, S \ T)
  BY <1>1, <1>2, SumUnion
<1>4. SumFunctionOnSet(g, S \ T) = 0
  BY <1>1, SumZero
<1>5. SumFunctionOnSet(f, T) = SumFunctionOnSet(g, T)
  BY <1>1, SumSame
<1>6. SumFunctionOnSet(g, T) \in Int
  BY <1>1, SumIsInt
<1>7. SumFunctionOnSet(g, S) = SumFunctionOnSet(g, T) + SumFunctionOnSet(g, S \ T)
  BY <1>1, <1>3
<1> QED BY <1>4, <1>5, <1>6, <1>7

\* Bounds on the groups bound the whole.
THEOREM SumGrouped ==
  ASSUME NEW S, IsFiniteSet(S), NEW R, IsFiniteSet(R), NEW key, NEW f, NEW g,
         \A x \in S : f[x] \in Int /\ (key[x] \in R \/ f[x] = 0),
         \A r \in R : g[r] \in Int,
         \A r \in R :
            SumFunctionOnSet([x \in S |-> IF key[x] = r THEN f[x] ELSE 0], S) <= g[r]
  PROVE  SumFunctionOnSet(f, S) <= SumFunctionOnSet(g, R)
<1> DEFINE In(Q) == [x \in S |-> IF key[x] \in Q THEN f[x] ELSE 0]
           Of(r) == [x \in S |-> IF key[x] = r THEN f[x] ELSE 0]
           F == {Q \in SUBSET R : ~(SumFunctionOnSet(In(Q), S) <= SumFunctionOnSet(g, Q))}
<1>0. \A Q \in SUBSET R : SumFunctionOnSet(In(Q), S) <= SumFunctionOnSet(g, Q)
  <2> SUFFICES ASSUME F # {} PROVE FALSE
    OBVIOUS
  <2>1. PICK Q \in F : \A P \in F : ~(P \subseteq Q /\ P # Q)
    <3>1. F \subseteq SUBSET R
      OBVIOUS
    <3> HIDE DEF F
    <3> QED BY <3>1, SmallestSubset
  <2>2. /\ Q \in SUBSET R /\ IsFiniteSet(Q)
        /\ ~(SumFunctionOnSet(In(Q), S) <= SumFunctionOnSet(g, Q))
    BY FS_Subset
  <2>3. Q # {}
    <3> SUFFICES ASSUME Q = {} PROVE FALSE
      OBVIOUS
    <3>1. \A x \in S : In(Q)[x] = 0
      OBVIOUS
    <3> HIDE DEF F, In
    <3>2. SumFunctionOnSet(In(Q), S) = 0 /\ SumFunctionOnSet(g, Q) = 0
      BY <3>1, SumEmpty, SumZero
    <3> QED BY <2>2, <3>2
  <2>4. PICK r \in Q : TRUE
    BY <2>3
  <2> DEFINE P == Q \ {r}
  <2>5. SumFunctionOnSet(In(P), S) <= SumFunctionOnSet(g, P)
    <3>1. P \in SUBSET R /\ P \notin F
      BY <2>1, <2>2
    <3> HIDE DEF In, P
    <3> QED BY <3>1
  <2> HIDE DEF F
  <2>6. \A x \in S : /\ In(P)[x] \in Int /\ Of(r)[x] \in Int
                     /\ In(Q)[x] = In(P)[x] + Of(r)[x]
    OBVIOUS
  <2>7. IsFiniteSet(P) /\ \A q \in P : g[q] \in Int
    BY <2>2, FS_Subset
  <2>8. SumFunctionOnSet(Of(r), S) <= g[r] /\ g[r] \in Int
    BY <2>2
  <2>9. SumFunctionOnSet(g, Q) = g[r] + SumFunctionOnSet(g, P)
    BY <2>2, SumTake
  <2> HIDE DEF In, Of, P
  <2>10. SumFunctionOnSet(In(Q), S) = SumFunctionOnSet(In(P), S) + SumFunctionOnSet(Of(r), S)
    BY <2>6, SumPlus
  <2>11. SumFunctionOnSet(g, P) \in Int
    BY <2>7, SumIsInt
  <2>12. SumFunctionOnSet(In(P), S) \in Int
    BY <2>6, SumIsInt
  <2>13. SumFunctionOnSet(Of(r), S) \in Int
    BY <2>6, SumIsInt
  <2> QED BY <2>2, <2>5, <2>8, <2>9, <2>10, <2>11, <2>12, <2>13
<1>1. \A x \in S : In(R)[x] = f[x]
  OBVIOUS
<1>2. SumFunctionOnSet(In(R), S) <= SumFunctionOnSet(g, R)
  BY <1>0
<1> HIDE DEF In
<1>3. SumFunctionOnSet(In(R), S) = SumFunctionOnSet(f, S)
  BY <1>1, SumSame
<1> QED BY <1>2, <1>3
=================================================================================
