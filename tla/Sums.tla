-------------------------------- MODULE Sums --------------------------------
(***************************************************************************)
(* Lemmas about the sums of the community modules, which are folds over    *)
(* finite sets, and about cardinalities and extreme elements.  Induction   *)
(* is by a least counterexample: a set of bad subsets of a finite set, if  *)
(* there are any, has a least one by inclusion.                            *)
(***************************************************************************)
EXTENDS Integers, FiniteSets, FiniteSetsExt, FiniteSetTheorems, TLAPS

Pick(s) == CHOOSE x \in s : TRUE

\* What the fold calls iter, as the equation that defines it.
Solves(h, f, S) ==
  h = [s \in SUBSET S |-> IF s = {} THEN 0 ELSE f[Pick(s)] + h[s \ {Pick(s)}]]

Solution(f, S) == CHOOSE h : Solves(h, f, S)

\* The sum of a function's values over a set.
SumOver(f, S) == MapThenSumSet(LAMBDA x : f[x], S)

-----------------------------------------------------------------------------
(* The fold is what its equation says.                                     *)

LEMMA LeastSet ==
  ASSUME NEW S, IsFiniteSet(S), NEW Bad \in SUBSET SUBSET S, Bad # {}
  PROVE  \E T \in Bad : \A U \in Bad : U \subseteq T => U = T
<1>1. IsWellFoundedOn(StrictSubsetOrdering(S), FiniteSubsetsOf(S))
  BY FS_StrictSubsetOrderingWellFounded
<1>2. Bad \subseteq FiniteSubsetsOf(S)
  BY FS_FiniteSubsetsOfFinite
<1>3. PICK T \in Bad : \A U \in Bad : <<U, T>> \notin StrictSubsetOrdering(S)
  BY <1>1, <1>2, WFMin
<1>4. \A U \in Bad : U \subseteq T /\ U # T => <<U, T>> \in StrictSubsetOrdering(S)
  BY DEF StrictSubsetOrdering
<1>5. \A U \in Bad : U \subseteq T => U = T
  BY <1>3, <1>4
<1> QED BY <1>5

LEMMA PickIn ==
  ASSUME NEW s, s # {}
  PROVE  Pick(s) \in s
BY DEF Pick

LEMMA SolvesAt ==
  ASSUME NEW f, NEW S, NEW h, Solves(h, f, S), NEW s \in SUBSET S
  PROVE  /\ s = {} => h[s] = 0
         /\ s # {} => h[s] = f[Pick(s)] + h[s \ {Pick(s)}]
<1>1. h[s] = IF s = {} THEN 0 ELSE f[Pick(s)] + h[s \ {Pick(s)}]
  BY Zenon DEF Solves
<1> QED BY <1>1

\* Solutions on different sets agree where both are defined.
LEMMA SolutionsAgree ==
  ASSUME NEW f, NEW S, NEW T, IsFiniteSet(T), T \subseteq S,
         NEW g, NEW h, Solves(g, f, S), Solves(h, f, T)
  PROVE  \A s \in SUBSET T : g[s] = h[s]
<1> DEFINE Bad == {s \in SUBSET T : g[s] # h[s]}
<1> SUFFICES ASSUME Bad # {} PROVE FALSE
  OBVIOUS
<1>1. PICK s \in Bad : \A u \in Bad : u \subseteq s => u = s
  <2>1. Bad \in SUBSET SUBSET T
    OBVIOUS
  <2> HIDE DEF Bad
  <2> QED BY <2>1, LeastSet
<1>2. s \in SUBSET T /\ s \in SUBSET S
  OBVIOUS
<1>3. s # {}
  <2>1. s = {} => g[s] = 0 /\ h[s] = 0
    BY <1>2, SolvesAt
  <2> QED BY <2>1
<1>4. Pick(s) \in s
  BY <1>3, PickIn
<1>5. s \ {Pick(s)} \notin Bad /\ s \ {Pick(s)} \in SUBSET T
  BY <1>1, <1>2, <1>4
<1>6. g[s \ {Pick(s)}] = h[s \ {Pick(s)}]
  BY <1>5
<1>7. g[s] = f[Pick(s)] + g[s \ {Pick(s)}] /\ h[s] = f[Pick(s)] + h[s \ {Pick(s)}]
  BY <1>2, <1>3, SolvesAt
<1> QED BY <1>6, <1>7

LEMMA SolutionExists ==
  ASSUME NEW f, NEW S, IsFiniteSet(S)
  PROVE  Solves(Solution(f, S), f, S)
<1> DEFINE Good(T) == Solves(Solution(f, T), f, T)
           Bad == {T \in SUBSET S : ~Good(T)}
<1> SUFFICES ASSUME Bad # {} PROVE FALSE
  OBVIOUS
<1>1. PICK T \in Bad : \A U \in Bad : U \subseteq T => U = T
  <2>1. Bad \in SUBSET SUBSET S
    OBVIOUS
  <2> HIDE DEF Bad
  <2> QED BY <2>1, LeastSet
<1>2. \A U \in SUBSET T : U # T => Good(U)
  BY <1>1
<1> DEFINE value(u) == Solution(f, u)[u]
           g == [s \in SUBSET T |->
                   IF s = {} THEN 0 ELSE f[Pick(s)] + value(s \ {Pick(s)})]
<1>3. ASSUME NEW s \in SUBSET T, s # {}
      PROVE  value(s \ {Pick(s)}) = g[s \ {Pick(s)}]
  <2> DEFINE u == s \ {Pick(s)}
  <2>1. Pick(s) \in s
    BY <1>3, PickIn
  <2>2. u \in SUBSET T /\ u # T
    BY <2>1
  <2>3. Solves(Solution(f, u), f, u)
    BY <1>2, <2>2
  <2>4. CASE u = {}
    <3>1. Solution(f, u)[u] = 0
      BY <2>3, <2>4, SolvesAt
    <3> QED BY <3>1, <2>2, <2>4
  <2>5. CASE u # {}
    <3> DEFINE v == u \ {Pick(u)}
    <3>1. Pick(u) \in u
      BY <2>5, PickIn
    <3>2. v \in SUBSET T /\ v # T /\ v \subseteq u
      BY <2>2, <3>1
    <3>3. Solves(Solution(f, v), f, v)
      BY <1>2, <3>2
    <3>4. IsFiniteSet(v)
      BY <3>2, FS_Subset
    <3>5. Solution(f, u)[v] = Solution(f, v)[v]
      BY <2>3, <3>2, <3>3, <3>4, SolutionsAgree
    <3>6. Solution(f, u)[u] = f[Pick(u)] + Solution(f, u)[v]
      <4>1. \A h, w : Solves(h, f, w) /\ w # {} => h[w] = f[Pick(w)] + h[w \ {Pick(w)}]
        BY SolvesAt
      <4> QED BY <2>3, <2>5, <4>1
    <3>7. g[u] = f[Pick(u)] + Solution(f, v)[v]
      BY <2>2, <2>5
    <3> QED BY <3>5, <3>6, <3>7
  <2> QED BY <2>4, <2>5
<1>4. g = [s \in SUBSET T |-> IF s = {} THEN 0 ELSE f[Pick(s)] + g[s \ {Pick(s)}]]
  <2> HIDE DEF value
  <2>1. \A s \in SUBSET T : (IF s = {} THEN 0 ELSE f[Pick(s)] + value(s \ {Pick(s)}))
                            = (IF s = {} THEN 0 ELSE f[Pick(s)] + g[s \ {Pick(s)}])
    BY <1>3
  <2> DEFINE k == [s \in SUBSET T |-> IF s = {} THEN 0 ELSE f[Pick(s)] + g[s \ {Pick(s)}]]
  <2>2. g = k
    BY <2>1
  <2> QED BY <2>2
<1>5. Solves(g, f, T)
  <2> HIDE DEF g
  <2> QED BY <1>4 DEF Solves
<1>6. \E h : Solves(h, f, T)
  <2> HIDE DEF g
  <2> QED BY <1>5
<1>7. Solves(Solution(f, T), f, T)
  BY <1>6, Zenon DEF Solution
<1> QED BY <1>1, <1>7

LEMMA SumIsSolution ==
  ASSUME NEW f, NEW S
  PROVE  SumOver(f, S) = Solution(f, S)[S]
BY Zenon DEF SumOver, MapThenSumSet, MapThenFoldSet, Pick, Solution, Solves

LEMMA SumStep ==
  ASSUME NEW f, NEW S, IsFiniteSet(S)
  PROVE  /\ S = {} => SumOver(f, S) = 0
         /\ S # {} => SumOver(f, S) = f[Pick(S)] + SumOver(f, S \ {Pick(S)})
<1> DEFINE R == S \ {Pick(S)}
<1>1. IsFiniteSet(R)
  BY FS_RemoveElement
<1>2. Solves(Solution(f, S), f, S) /\ Solves(Solution(f, R), f, R)
  BY <1>1, SolutionExists
<1>3. Solution(f, S)[R] = Solution(f, R)[R]
  <2>1. R \subseteq S
    OBVIOUS
  <2>2. \A T : IsFiniteSet(T) /\ T \subseteq S /\ Solves(Solution(f, T), f, T)
                 => \A s \in SUBSET T : Solution(f, S)[s] = Solution(f, T)[s]
    BY <1>2, SolutionsAgree
  <2>3. \A s \in SUBSET R : Solution(f, S)[s] = Solution(f, R)[s]
    BY <1>1, <1>2, <2>1, <2>2
  <2> HIDE DEF R
  <2> QED BY <2>3
<1>4. SumOver(f, S) = Solution(f, S)[S] /\ SumOver(f, R) = Solution(f, R)[R]
  BY SumIsSolution
<1>5. /\ S = {} => Solution(f, S)[S] = 0
      /\ S # {} => Solution(f, S)[S] = f[Pick(S)] + Solution(f, S)[R]
  <2>1. \A h, w : Solves(h, f, w) =>
          (w = {} => h[w] = 0) /\ (w # {} => h[w] = f[Pick(w)] + h[w \ {Pick(w)}])
    BY SolvesAt
  <2> QED BY <1>2, <2>1
<1> QED BY <1>3, <1>4, <1>5

LEMMA SumEmpty == \A f : SumOver(f, {}) = 0
BY SumStep, FS_EmptySet

\* A set of natural numbers has a least one.
LEMMA LeastNatural ==
  ASSUME NEW S \in SUBSET Nat, S # {}
  PROVE  \E x \in S : \A y \in S : x <= y
<1>1. PICK x \in S : \A y \in S : <<y, x>> \notin OpToRel(<, Nat)
  BY NatLessThanWellFounded, WFMin
<1>2. \A y \in S : x <= y
  <2>1. \A y \in Nat : y < x => <<y, x>> \in OpToRel(<, Nat)
    BY Zenon DEF OpToRel
  <2>2. \A y \in S : ~(y < x)
    BY <1>1, <2>1, Zenon
  <2> QED BY <2>2
<1> QED BY <1>2

-----------------------------------------------------------------------------
(* What a sum is.                                                          *)

LEMMA SumInt ==
  ASSUME NEW f, NEW S, IsFiniteSet(S), \A x \in S : f[x] \in Int
  PROVE  SumOver(f, S) \in Int
<1> DEFINE Bad == {T \in SUBSET S : SumOver(f, T) \notin Int}
<1> SUFFICES ASSUME Bad # {} PROVE FALSE
  OBVIOUS
<1>1. PICK T \in Bad : \A U \in Bad : U \subseteq T => U = T
  <2>1. Bad \in SUBSET SUBSET S
    OBVIOUS
  <2> HIDE DEF Bad
  <2> QED BY <2>1, LeastSet
<1>2. T \in SUBSET S /\ IsFiniteSet(T) /\ SumOver(f, T) \notin Int
  BY <1>1, FS_Subset
<1>3. T # {}
  BY <1>2, SumEmpty
<1>4. Pick(T) \in T
  BY <1>3, PickIn
<1>5. SumOver(f, T \ {Pick(T)}) \in Int
  BY <1>1, <1>4
<1>6. SumOver(f, T) = f[Pick(T)] + SumOver(f, T \ {Pick(T)})
  BY <1>2, <1>3, SumStep
<1> QED BY <1>2, <1>4, <1>5, <1>6

\* The order in which the fold picks does not matter.
LEMMA SumRemove ==
  ASSUME NEW f, NEW S, IsFiniteSet(S), \A x \in S : f[x] \in Int, NEW e \in S
  PROVE  SumOver(f, S) = f[e] + SumOver(f, S \ {e})
<1> DEFINE Bad == {T \in SUBSET S : \E x \in T : SumOver(f, T) # f[x] + SumOver(f, T \ {x})}
<1> SUFFICES ASSUME Bad # {} PROVE FALSE
  OBVIOUS
<1>1. PICK T \in Bad : \A U \in Bad : U \subseteq T => U = T
  <2>1. Bad \in SUBSET SUBSET S
    OBVIOUS
  <2> HIDE DEF Bad
  <2> QED BY <2>1, LeastSet
<1>2. PICK x \in T : SumOver(f, T) # f[x] + SumOver(f, T \ {x})
  BY <1>1
<1> DEFINE p == Pick(T)
           R == (T \ {p}) \ {x}
<1>3. p \in T
  BY <1>2, PickIn
<1>4. IsFiniteSet(T) /\ IsFiniteSet(R) /\ T \in SUBSET S
  <2>1. T \in SUBSET S /\ R \in SUBSET S
    BY <1>1
  <2> HIDE DEF R
  <2> QED BY <2>1, FS_Subset
<1>5. SumOver(f, T) = f[p] + SumOver(f, T \ {p})
  BY <1>2, <1>4, SumStep
<1>6. x # p
  BY <1>2, <1>5
<1>7. SumOver(f, T \ {p}) = f[x] + SumOver(f, R)
  <2>1. T \ {p} \notin Bad /\ T \ {p} \in SUBSET S
    BY <1>1, <1>3
  <2>2. x \in T \ {p}
    BY <1>6
  <2> QED BY <2>1, <2>2
<1>8. SumOver(f, T \ {x}) = f[p] + SumOver(f, R)
  <2>1. T \ {x} \notin Bad /\ T \ {x} \in SUBSET S
    BY <1>1
  <2>2. p \in T \ {x}
    BY <1>3, <1>6
  <2>3. (T \ {x}) \ {p} = R
    OBVIOUS
  <2> QED BY <2>1, <2>2, <2>3
<1>9. f[x] \in Int /\ f[p] \in Int /\ SumOver(f, R) \in Int
  <2>1. x \in S /\ p \in S /\ R \subseteq S
    BY <1>3, <1>4
  <2>2. SumOver(f, R) \in Int
    <3> HIDE DEF R
    <3> QED BY <1>4, <2>1, SumInt
  <2> QED BY <2>1, <2>2
<1> HIDE DEF p, R, Bad
<1> QED BY <1>2, <1>5, <1>7, <1>8, <1>9

\* Sums of naturals are naturals.
LEMMA SumNat ==
  ASSUME NEW f, NEW S, IsFiniteSet(S), \A x \in S : f[x] \in Nat
  PROVE  SumOver(f, S) \in Nat
<1> DEFINE Bad == {T \in SUBSET S : ~(SumOver(f, T) \in Nat)}
<1> SUFFICES ASSUME Bad # {} PROVE FALSE
  OBVIOUS
<1>1. PICK T \in Bad : \A U \in Bad : U \subseteq T => U = T
  <2>1. Bad \in SUBSET SUBSET S
    OBVIOUS
  <2> HIDE DEF Bad
  <2> QED BY <2>1, LeastSet
<1> DEFINE e == Pick(T)
           R == T \ {e}
<1>2. T \in SUBSET S /\ IsFiniteSet(T) /\ ~(SumOver(f, T) \in Nat)
  BY <1>1, FS_Subset
<1>3. T # {}
  BY <1>2, SumEmpty
<1>4. e \in T /\ e \in S
  BY <1>2, <1>3, PickIn
<1>5. SumOver(f, R) \in Nat
  BY <1>1, <1>4
<1>6. SumOver(f, T) = f[e] + SumOver(f, R)
  BY <1>2, <1>3, SumStep
<1>7. SumOver(f, R) \in Int
  <2>1. IsFiniteSet(R) /\ R \subseteq S
    BY <1>2, FS_Subset, FS_RemoveElement
  <2> HIDE DEF R
  <2> QED BY <2>1, SumInt
<1> HIDE DEF e, R
<1> QED BY <1>2, <1>4, <1>5, <1>6

\* No natural number in a sum is above it.
LEMMA SumAbove ==
  ASSUME NEW f, NEW S, IsFiniteSet(S), \A x \in S : f[x] \in Nat, NEW e \in S
  PROVE  f[e] <= SumOver(f, S)
<1>1. \A x \in S : f[x] \in Int
  OBVIOUS
<1>2. SumOver(f, S) = f[e] + SumOver(f, S \ {e})
  BY <1>1, SumRemove
<1>3. SumOver(f, S \ {e}) \in Nat
  <2>1. IsFiniteSet(S \ {e}) /\ \A x \in S \ {e} : f[x] \in Nat
    BY FS_Subset
  <2> QED BY <2>1, SumNat
<1> QED BY <1>2, <1>3

\* Larger values have a larger sum.
LEMMA SumOrder ==
  ASSUME NEW f, NEW g, NEW S, IsFiniteSet(S), \A x \in S : f[x] \in Int /\ g[x] \in Int /\ f[x] <= g[x]
  PROVE  SumOver(f, S) <= SumOver(g, S)
<1> DEFINE Bad == {T \in SUBSET S : ~(SumOver(f, T) <= SumOver(g, T))}
<1> SUFFICES ASSUME Bad # {} PROVE FALSE
  OBVIOUS
<1>1. PICK T \in Bad : \A U \in Bad : U \subseteq T => U = T
  <2>1. Bad \in SUBSET SUBSET S
    OBVIOUS
  <2> HIDE DEF Bad
  <2> QED BY <2>1, LeastSet
<1> DEFINE e == Pick(T)
           R == T \ {e}
<1>2. T \in SUBSET S /\ IsFiniteSet(T) /\ ~(SumOver(f, T) <= SumOver(g, T))
  BY <1>1, FS_Subset
<1>3. T # {}
  BY <1>2, SumEmpty
<1>4. e \in T /\ e \in S
  BY <1>2, <1>3, PickIn
<1>5. SumOver(f, R) <= SumOver(g, R)
  BY <1>1, <1>4
<1>6. SumOver(f, T) = f[e] + SumOver(f, R) /\ SumOver(g, T) = g[e] + SumOver(g, R)
  BY <1>2, <1>3, SumStep
<1>7. SumOver(f, R) \in Int /\ SumOver(g, R) \in Int
  <2>1. IsFiniteSet(R) /\ R \subseteq S
    BY <1>2, FS_Subset, FS_RemoveElement
  <2> HIDE DEF R
  <2> QED BY <2>1, SumInt
<1> HIDE DEF e, R
<1> QED BY <1>2, <1>4, <1>5, <1>6, <1>7

\* Equal values have the same sum.
LEMMA SumSame ==
  ASSUME NEW f, NEW g, NEW S, IsFiniteSet(S), \A x \in S : f[x] \in Int /\ g[x] = f[x]
  PROVE  SumOver(f, S) = SumOver(g, S)
<1> DEFINE Bad == {T \in SUBSET S : ~(SumOver(f, T) = SumOver(g, T))}
<1> SUFFICES ASSUME Bad # {} PROVE FALSE
  OBVIOUS
<1>1. PICK T \in Bad : \A U \in Bad : U \subseteq T => U = T
  <2>1. Bad \in SUBSET SUBSET S
    OBVIOUS
  <2> HIDE DEF Bad
  <2> QED BY <2>1, LeastSet
<1> DEFINE e == Pick(T)
           R == T \ {e}
<1>2. T \in SUBSET S /\ IsFiniteSet(T) /\ ~(SumOver(f, T) = SumOver(g, T))
  BY <1>1, FS_Subset
<1>3. T # {}
  BY <1>2, SumEmpty
<1>4. e \in T /\ e \in S
  BY <1>2, <1>3, PickIn
<1>5. SumOver(f, R) = SumOver(g, R)
  BY <1>1, <1>4
<1>6. SumOver(f, T) = f[e] + SumOver(f, R) /\ SumOver(g, T) = g[e] + SumOver(g, R)
  BY <1>2, <1>3, SumStep
<1>7. SumOver(f, R) \in Int /\ SumOver(g, R) \in Int
  <2>1. IsFiniteSet(R) /\ R \subseteq S
    BY <1>2, FS_Subset, FS_RemoveElement
  <2> HIDE DEF R
  <2> QED BY <2>1, SumInt
<1> HIDE DEF e, R
<1> QED BY <1>2, <1>4, <1>5, <1>6, <1>7

\* The sum of two functions.
LEMMA SumPlus ==
  ASSUME NEW f, NEW g, NEW h, NEW S, IsFiniteSet(S), \A x \in S : f[x] \in Int /\ g[x] \in Int /\ h[x] = f[x] + g[x]
  PROVE  SumOver(h, S) = SumOver(f, S) + SumOver(g, S)
<1> DEFINE Bad == {T \in SUBSET S : ~(SumOver(h, T) = SumOver(f, T) + SumOver(g, T))}
<1> SUFFICES ASSUME Bad # {} PROVE FALSE
  OBVIOUS
<1>1. PICK T \in Bad : \A U \in Bad : U \subseteq T => U = T
  <2>1. Bad \in SUBSET SUBSET S
    OBVIOUS
  <2> HIDE DEF Bad
  <2> QED BY <2>1, LeastSet
<1> DEFINE e == Pick(T)
           R == T \ {e}
<1>2. T \in SUBSET S /\ IsFiniteSet(T) /\ ~(SumOver(h, T) = SumOver(f, T) + SumOver(g, T))
  BY <1>1, FS_Subset
<1>3. T # {}
  <2> SUFFICES ASSUME T = {} PROVE FALSE
    OBVIOUS
  <2>1. SumOver(f, T) = 0 /\ SumOver(g, T) = 0 /\ SumOver(h, T) = 0
    BY SumEmpty
  <2> QED BY <1>2, <2>1
<1>4. e \in T /\ e \in S
  BY <1>2, <1>3, PickIn
<1>5. SumOver(h, R) = SumOver(f, R) + SumOver(g, R)
  BY <1>1, <1>4
<1>6. SumOver(f, T) = f[e] + SumOver(f, R) /\ SumOver(g, T) = g[e] + SumOver(g, R) /\ SumOver(h, T) = h[e] + SumOver(h, R)
  BY <1>2, <1>3, SumStep
<1>7. SumOver(f, R) \in Int /\ SumOver(g, R) \in Int /\ SumOver(h, R) \in Int
  <2>1. IsFiniteSet(R) /\ R \subseteq S
    BY <1>2, FS_Subset, FS_RemoveElement
  <2> HIDE DEF R
  <2> QED BY <2>1, SumInt
<1> HIDE DEF e, R
<1> QED BY <1>2, <1>4, <1>5, <1>6, <1>7

\* A sum over a part of a set counts nothing for the rest.
LEMMA SumPart ==
  ASSUME NEW f, NEW g, NEW S, IsFiniteSet(S), NEW P \in SUBSET S,
         \A x \in S : f[x] \in Int /\ g[x] = IF x \in P THEN f[x] ELSE 0
  PROVE  SumOver(f, P) = SumOver(g, S)
<1> DEFINE Bad == {T \in SUBSET S : SumOver(f, T \cap P) # SumOver(g, T)}
<1> SUFFICES ASSUME Bad # {} PROVE FALSE
  <2>1. S \cap P = P
    OBVIOUS
  <2>2. S \notin Bad => SumOver(f, S \cap P) = SumOver(g, S)
    OBVIOUS
  <2> QED BY <2>1, <2>2
<1>1. PICK T \in Bad : \A U \in Bad : U \subseteq T => U = T
  <2>1. Bad \in SUBSET SUBSET S
    OBVIOUS
  <2> HIDE DEF Bad
  <2> QED BY <2>1, LeastSet
<1> DEFINE e == Pick(T)
           R == T \ {e}
<1>2. T \in SUBSET S /\ SumOver(f, T \cap P) # SumOver(g, T)
  BY <1>1
<1>3. IsFiniteSet(T) /\ IsFiniteSet(T \cap P)
  BY <1>2, FS_Subset
<1>4. T # {}
  <2>1. {} \cap P = {}
    OBVIOUS
  <2> QED BY <1>2, <2>1, SumEmpty
<1>5. e \in T /\ e \in S
  BY <1>2, <1>4, PickIn
<1>6. SumOver(f, R \cap P) = SumOver(g, R)
  BY <1>1, <1>5
<1>7. SumOver(g, T) = g[e] + SumOver(g, R)
  BY <1>3, <1>4, SumStep
<1>8. SumOver(g, R) \in Int
  <2>1. IsFiniteSet(R) /\ \A x \in R : g[x] \in Int
    BY <1>2, <1>3, FS_RemoveElement
  <2> HIDE DEF R
  <2> QED BY <2>1, SumInt
<1>9. CASE e \in P
  <2>1. (T \cap P) \ {e} = R \cap P
    OBVIOUS
  <2>2. e \in T \cap P /\ \A x \in T \cap P : f[x] \in Int
    BY <1>2, <1>5, <1>9
  <2> HIDE DEF e, R
  <2>3. SumOver(f, T \cap P) = f[e] + SumOver(f, (T \cap P) \ {e})
    BY <1>3, <2>2, SumRemove
  <2> QED BY <1>2, <1>5, <1>6, <1>7, <1>9, <2>1, <2>3
<1>10. CASE e \notin P
  <2>1. T \cap P = R \cap P
    BY <1>10
  <2> HIDE DEF e, R
  <2>2. g[e] = 0
    BY <1>5, <1>10
  <2>3. SumOver(g, T) = SumOver(g, R)
    BY <1>7, <1>8, <2>2
  <2> QED BY <1>2, <1>6, <2>1, <2>3
<1> QED BY <1>9, <1>10

\* The same value everywhere.
LEMMA SumEqual ==
  ASSUME NEW f, NEW n \in Int, NEW S, IsFiniteSet(S), \A x \in S : f[x] = n
  PROVE  SumOver(f, S) = n * Cardinality(S)
<1> DEFINE Bad == {T \in SUBSET S : ~(SumOver(f, T) = n * Cardinality(T))}
<1> SUFFICES ASSUME Bad # {} PROVE FALSE
  OBVIOUS
<1>1. PICK T \in Bad : \A U \in Bad : U \subseteq T => U = T
  <2>1. Bad \in SUBSET SUBSET S
    OBVIOUS
  <2> HIDE DEF Bad
  <2> QED BY <2>1, LeastSet
<1> DEFINE e == Pick(T)
           R == T \ {e}
<1>2. T \in SUBSET S /\ IsFiniteSet(T) /\ ~(SumOver(f, T) = n * Cardinality(T))
  BY <1>1, FS_Subset
<1>3. T # {}
  BY <1>2, SumEmpty, FS_EmptySet
<1>4. e \in T /\ e \in S
  BY <1>2, <1>3, PickIn
<1>5. SumOver(f, R) = n * Cardinality(R)
  BY <1>1, <1>4
<1>6. SumOver(f, T) = f[e] + SumOver(f, R)
  BY <1>2, <1>3, SumStep
<1>7. SumOver(f, R) \in Int
  <2>1. IsFiniteSet(R) /\ R \subseteq S
    BY <1>2, FS_Subset, FS_RemoveElement
  <2> HIDE DEF R
  <2> QED BY <2>1, SumInt
<1>8. Cardinality(T) = Cardinality(R) + 1 /\ Cardinality(R) \in Nat
  <2>1. IsFiniteSet(R) /\ Cardinality(R) = Cardinality(T) - 1
    BY <1>2, <1>4, FS_RemoveElement
  <2>2. Cardinality(T) \in Nat /\ Cardinality(R) \in Nat
    BY <1>2, <2>1, FS_CardinalityType
  <2> HIDE DEF R
  <2> QED BY <2>1, <2>2
<1>9. n * (Cardinality(R) + 1) = n + n * Cardinality(R)
  BY <1>8
<1> HIDE DEF e, R
<1> QED BY <1>2, <1>4, <1>5, <1>6, <1>8, <1>9

\* A sum over two sets that have nothing in common.
LEMMA SumUnion ==
  ASSUME NEW f, NEW A, NEW B, IsFiniteSet(A), IsFiniteSet(B), A \cap B = {},
         \A x \in A \cup B : f[x] \in Int
  PROVE  SumOver(f, A \cup B) = SumOver(f, A) + SumOver(f, B)
<1> DEFINE S == A \cup B
           a == [x \in S |-> IF x \in A THEN f[x] ELSE 0]
           b == [x \in S |-> IF x \in B THEN f[x] ELSE 0]
<1>1. IsFiniteSet(S) /\ A \in SUBSET S /\ B \in SUBSET S
  BY FS_Union
<1>2. \A x \in S : /\ f[x] \in Int /\ a[x] \in Int /\ b[x] \in Int /\ f[x] = a[x] + b[x]
                   /\ a[x] = IF x \in A THEN f[x] ELSE 0
                   /\ b[x] = IF x \in B THEN f[x] ELSE 0
  OBVIOUS
<1> HIDE DEF S, a, b
<1>3. SumOver(f, A) = SumOver(a, S)
  <2>1. \A x \in S : f[x] \in Int /\ a[x] = IF x \in A THEN f[x] ELSE 0
    BY <1>2
  <2> QED BY <1>1, <2>1, SumPart
<1>4. SumOver(f, B) = SumOver(b, S)
  <2>1. \A x \in S : f[x] \in Int /\ b[x] = IF x \in B THEN f[x] ELSE 0
    BY <1>2
  <2> QED BY <1>1, <2>1, SumPart
<1>5. SumOver(f, S) = SumOver(a, S) + SumOver(b, S)
  <2>1. \A x \in S : a[x] \in Int /\ b[x] \in Int /\ f[x] = a[x] + b[x]
    BY <1>2
  <2> QED BY <1>1, <2>1, SumPlus
<1> QED BY <1>3, <1>4, <1>5 DEF S

\* A sum does not depend on what its terms are called.
LEMMA SumRenamed ==
  ASSUME NEW A, IsFiniteSet(A), NEW b, \A x, y \in A : b[x] = b[y] => x = y,
         NEW f, NEW g, \A x \in A : f[b[x]] \in Int /\ g[x] = f[b[x]]
  PROVE  SumOver(g, A) = SumOver(f, {b[x] : x \in A})
<1> DEFINE image(T) == {b[x] : x \in T}
           Bad == {T \in SUBSET A : SumOver(g, T) # SumOver(f, image(T))}
<1> SUFFICES ASSUME Bad # {} PROVE FALSE
  <2>1. A \in SUBSET A
    OBVIOUS
  <2>2. A \notin Bad => SumOver(g, A) = SumOver(f, image(A))
    BY <2>1
  <2> QED BY <2>2
<1>1. PICK T \in Bad : \A U \in Bad : U \subseteq T => U = T
  <2>1. Bad \in SUBSET SUBSET A
    OBVIOUS
  <2> HIDE DEF Bad
  <2> QED BY <2>1, LeastSet
<1>2. T \in SUBSET A /\ SumOver(g, T) # SumOver(f, image(T))
  OBVIOUS
<1>3. T # {}
  <2> SUFFICES ASSUME T = {} PROVE FALSE
    OBVIOUS
  <2>1. image(T) = {}
    OBVIOUS
  <2> HIDE DEF image
  <2> QED BY <1>2, <2>1, SumEmpty
<1>4. PICK e \in T : TRUE
  BY <1>3
<1> DEFINE R == T \ {e}
<1>5. R \in SUBSET A /\ R \subseteq T /\ R # T
  BY <1>2, <1>4
<1>6. SumOver(g, R) = SumOver(f, image(R))
  <2>1. R \notin Bad
    <3> HIDE DEF Bad, R
    <3> QED BY <1>1, <1>5
  <2> HIDE DEF R, image
  <2> QED BY <1>5, <2>1
<1>7. IsFiniteSet(T) /\ IsFiniteSet(image(T))
  <2>1. IsFiniteSet(T)
    BY <1>2, FS_Subset
  <2> DEFINE h == [x \in T |-> b[x]]
  <2>2. h \in Surjection(T, image(T))
    BY DEF Surjection
  <2> HIDE DEF h, image
  <2> QED BY <2>1, <2>2, FS_Surjection
<1>8. SumOver(g, T) = g[e] + SumOver(g, R)
  <2>1. \A x \in T : g[x] \in Int
    BY <1>2
  <2> QED BY <1>4, <1>7, <2>1, SumRemove
<1>9. SumOver(f, image(T)) = f[b[e]] + SumOver(f, image(R))
  <2>1. image(T) \ {b[e]} = image(R)
    BY <1>2, <1>4
  <2>2. \A y \in image(T) : f[y] \in Int
    BY <1>2
  <2>3. b[e] \in image(T)
    BY <1>4
  <2> HIDE DEF image, R
  <2> QED BY <1>7, <2>1, <2>2, <2>3, SumRemove
<1>10. g[e] = f[b[e]]
  BY <1>2, <1>4
<1> QED BY <1>2, <1>6, <1>8, <1>9, <1>10

\* Nor does a number of elements.
LEMMA CardinalityRenamed ==
  ASSUME NEW A, IsFiniteSet(A), NEW b, \A x, y \in A : b[x] = b[y] => x = y
  PROVE  IsFiniteSet({b[x] : x \in A}) /\ Cardinality({b[x] : x \in A}) = Cardinality(A)
<1> DEFINE B == {b[x] : x \in A}
           h == [x \in A |-> b[x]]
<1>1. h \in Surjection(A, B)
  BY DEF Surjection
<1>2. h \in Injection(A, B)
  BY DEF Injection, IsInjective
<1> HIDE DEF B, h
<1>3. IsFiniteSet(B) /\ Cardinality(B) = Cardinality(A)
  BY <1>1, <1>2, FS_Surjection
<1> QED BY <1>3 DEF B

\* Sets that have nothing in common add up.
LEMMA CardinalityUnion ==
  ASSUME NEW A, NEW B, IsFiniteSet(A), IsFiniteSet(B), A \cap B = {}
  PROVE  /\ IsFiniteSet(A \cup B)
         /\ Cardinality(A \cup B) = Cardinality(A) + Cardinality(B)
<1>1. Cardinality(A \cup B) = Cardinality(A) + Cardinality(B) - Cardinality(A \cap B) /\ IsFiniteSet(A \cup B)
  BY FS_Union
<1>2. Cardinality(A \cap B) = 0
  BY FS_EmptySet
<1>3. Cardinality(A) \in Nat /\ Cardinality(B) \in Nat
  BY FS_CardinalityType
<1> QED BY <1>1, <1>2, <1>3

-----------------------------------------------------------------------------
(* The least and the greatest number of a set.                              *)

LEMMA MinIsLeast ==
  ASSUME NEW S \in SUBSET Nat, S # {}
  PROVE  Min(S) \in S /\ \A m \in S : Min(S) <= m
BY LeastNatural DEF Min

LEMMA MaxIsGreatest ==
  ASSUME NEW S \in SUBSET Nat, S # {}, IsFiniteSet(S)
  PROVE  Max(S) \in S /\ \A m \in S : m <= Max(S)
<1> DEFINE above(x) == {y \in S : y > x}
           sizes == {Cardinality(above(x)) : x \in S}
<1>1. \A x \in S : x \in Int
  OBVIOUS
<1>2. \A x \in S : IsFiniteSet(above(x)) /\ Cardinality(above(x)) \in Nat
  <2>1. \A x \in S : above(x) \in SUBSET S
    OBVIOUS
  <2> HIDE DEF above
  <2> QED BY <2>1, FS_Subset, FS_CardinalityType
<1>3. PICK x \in S : \A y \in S : Cardinality(above(x)) <= Cardinality(above(y))
  <2>1. sizes \in SUBSET Nat /\ sizes # {}
    <3> HIDE DEF above
    <3> QED BY <1>2
  <2>2. PICK m \in sizes : \A l \in sizes : m <= l
    <3> HIDE DEF sizes
    <3> QED BY <2>1, LeastNatural
  <2>3. PICK x \in S : m = Cardinality(above(x))
    BY <2>2
  <2>4. \A y \in S : Cardinality(above(y)) \in sizes
    OBVIOUS
  <2> HIDE DEF sizes, above
  <2> QED BY <2>2, <2>3, <2>4
<1>4. \A y \in S : y <= x
  <2> SUFFICES ASSUME NEW y \in S, y > x PROVE FALSE
    BY <1>1
  <2>1. above(y) \in SUBSET above(x)
    <3>1. \A z \in S : z > y => z > x
      BY <1>1
    <3> QED BY <3>1
  <2>2. y \in above(x) /\ y \notin above(y)
    BY <1>1
  <2> HIDE DEF above
  <2>3. Cardinality(above(y)) <= Cardinality(above(x)) /\ Cardinality(above(y)) # Cardinality(above(x))
    BY <1>2, <2>1, <2>2, FS_Subset
  <2> QED BY <1>2, <1>3, <2>3
<1>5. \E z \in S : \A y \in S : z >= y
  BY <1>4
<1>6. Max(S) \in S /\ \A y \in S : Max(S) >= y
  BY <1>5 DEF Max
<1> QED BY <1>6

=============================================================================
