--------------------------- MODULE BinPack_proofs ---------------------------
(***************************************************************************)
(* First fit ends in a placement in which the hard predicates hold of all  *)
(* pods at once, though each was looked at when its pod was placed only:   *)
(* for any nodes and pods whose constraints bind both ways.                *)
(***************************************************************************)
EXTENDS BinPack, Sums

-----------------------------------------------------------------------------
(* Ranked lists each element once.                                         *)

\* In a strict total order of a finite set, each number of predecessors occurs
\* once.
LEMMA RanksAreTaken ==
  ASSUME NEW S, IsFiniteSet(S), NEW R,
         \A x \in S : <<x, x>> \notin R,
         \A x, y \in S : x # y => <<x, y>> \in R \/ <<y, x>> \in R,
         \A x, y, z \in S : <<x, y>> \in R /\ <<y, z>> \in R => <<x, z>> \in R
  PROVE  \A r \in 1..Cardinality(S) :
           \E x \in S : Cardinality({y \in S : <<y, x>> \in R}) = r - 1
<1> DEFINE N == Cardinality(S)
           below(x) == {y \in S : <<y, x>> \in R}
           rank == [x \in S |-> Cardinality(below(x))]
<1>1. N \in Nat
  BY FS_CardinalityType
<1>2. \A x \in S : below(x) \in SUBSET (S \ {x})
  OBVIOUS
<1>3. \A x \in S : IsFiniteSet(below(x)) /\ rank[x] \in 0..(N - 1)
  <2> SUFFICES ASSUME NEW x \in S PROVE IsFiniteSet(below(x)) /\ rank[x] \in 0..(N - 1)
    OBVIOUS
  <2>1. IsFiniteSet(S \ {x}) /\ Cardinality(S \ {x}) = N - 1
    BY FS_RemoveElement
  <2>2. IsFiniteSet(below(x)) /\ Cardinality(below(x)) <= N - 1
    <3> HIDE DEF below, N
    <3> QED BY <1>2, <2>1, FS_Subset
  <2>3. Cardinality(below(x)) \in Nat
    BY <2>2, FS_CardinalityType
  <2> HIDE DEF below, N
  <2> QED BY <1>1, <2>2, <2>3
<1>4. \A x, z \in S : <<x, z>> \in R => rank[x] < rank[z]
  <2> SUFFICES ASSUME NEW x \in S, NEW z \in S, <<x, z>> \in R PROVE rank[x] < rank[z]
    OBVIOUS
  <2>1. below(x) \in SUBSET below(z) /\ x \in below(z) /\ x \notin below(x)
    OBVIOUS
  <2>2. IsFiniteSet(below(x)) /\ IsFiniteSet(below(z)) /\ rank[x] \in Nat /\ rank[z] \in Nat
    <3> HIDE DEF rank, below, N
    <3> QED BY <1>1, <1>3
  <2>3. rank[x] = Cardinality(below(x)) /\ rank[z] = Cardinality(below(z))
    OBVIOUS
  <2>4. Cardinality(below(x)) <= Cardinality(below(z)) /\ Cardinality(below(x)) # Cardinality(below(z))
    <3> HIDE DEF below
    <3> QED BY <2>1, <2>2, FS_Subset
  <2> HIDE DEF rank, below, N
  <2> QED BY <2>2, <2>3, <2>4
<1>5. \A x, z \in S : rank[x] = rank[z] => x = z
  <2>1. \A x \in S : rank[x] \in Int
    <3> HIDE DEF rank, below, N
    <3> QED BY <1>1, <1>3
  <2> HIDE DEF rank
  <2> SUFFICES ASSUME NEW x \in S, NEW z \in S, rank[x] = rank[z], x # z PROVE FALSE
    OBVIOUS
  <2>2. <<x, z>> \in R \/ <<z, x>> \in R
    OBVIOUS
  <2>3. rank[x] < rank[z] \/ rank[z] < rank[x]
    BY <1>4, <2>2
  <2> QED BY <2>1, <2>3
<1>6. rank \in Surjection(S, 0..(N - 1))
  <2>1. IsFiniteSet(0..(N - 1)) /\ Cardinality(0..(N - 1)) = N
    <3> HIDE DEF N
    <3> QED BY <1>1, FS_Interval
  <2>2. rank \in Injection(S, 0..(N - 1))
    <3>1. rank \in [S -> 0..(N - 1)]
      BY <1>3
    <3> HIDE DEF rank, N
    <3> QED BY <1>5, <3>1 DEF Injection, IsInjective
  <2> HIDE DEF rank
  <2>3. N = Cardinality(0..(N - 1))
    BY <2>1
  <2> QED BY <2>1, <2>2, <2>3, FS_Injection
<1>7. \A r \in 1..N : \E x \in S : rank[x] = r - 1
  <2> SUFFICES ASSUME NEW r \in 1..N PROVE \E x \in S : rank[x] = r - 1
    OBVIOUS
  <2> HIDE DEF rank, N
  <2>1. r - 1 \in 0..(N - 1)
    BY <1>1
  <2> QED BY <1>6, <2>1 DEF Surjection
<1> QED BY <1>7

\* What it means that a sequence lists a set.
Lists(f, S) ==
  /\ IsFiniteSet(S) /\ Cardinality(S) \in Nat
  /\ f \in [1..Cardinality(S) -> S] /\ Len(f) = Cardinality(S)
  /\ \A r, s \in 1..Cardinality(S) : f[r] = f[s] => r = s
  /\ \A x \in S : \E r \in 1..Cardinality(S) : f[r] = x

\* The same for a relation that is a set.
Enumeration(S, R) ==
  [r \in 1..Cardinality(S) |->
     CHOOSE x \in S : Cardinality({y \in S : <<y, x>> \in R}) = r - 1]

LEMMA EnumerationLists ==
  ASSUME NEW S, IsFiniteSet(S), NEW R,
         \A x \in S : <<x, x>> \notin R,
         \A x, y \in S : x # y => <<x, y>> \in R \/ <<y, x>> \in R,
         \A x, y, z \in S : <<x, y>> \in R /\ <<y, z>> \in R => <<x, z>> \in R
  PROVE  Lists(Enumeration(S, R), S)
<1> DEFINE f == Enumeration(S, R)
           N == Cardinality(S)
           place(x) == Cardinality({y \in S : <<y, x>> \in R})
<1>1. N \in Nat
  BY FS_CardinalityType
<1>2. \A r \in 1..N : \E x \in S : place(x) = r - 1
  BY RanksAreTaken
<1>3. f = [r \in 1..N |-> CHOOSE x \in S : place(x) = r - 1]
  BY DEF Enumeration
<1> HIDE DEF f, place, N
<1>4. \A r \in 1..N : f[r] \in S /\ place(f[r]) = r - 1
  BY <1>2, <1>3
<1>5. f \in [1..N -> S] /\ Len(f) = N
  <2>1. f \in [1..N -> S]
    BY <1>3, <1>4
  <2> DEFINE best(r) == CHOOSE x \in S : place(x) = r - 1
  <2>2. f = [r \in 1..N |-> best(r)]
    BY <1>3
  <2> HIDE DEF best
  <2>3. Len(f) = N
    BY <1>1, <2>2
  <2> QED BY <2>1, <2>3
<1>6. \A r, s \in 1..N : f[r] = f[s] => r = s
  <2>1. \A r \in 1..N : r \in Int
    BY <1>1
  <2> SUFFICES ASSUME NEW r \in 1..N, NEW s \in 1..N, f[r] = f[s] PROVE r = s
    OBVIOUS
  <2>2. r - 1 = s - 1
    BY <1>4
  <2> QED BY <2>1, <2>2
<1>7. IsFiniteSet(1..N) /\ Cardinality(1..N) = N
  BY <1>1, FS_Interval
<1>8. f \in Injection(1..N, S)
  BY <1>5, <1>6 DEF Injection, IsInjective
<1>9. f \in Surjection(1..N, S)
  <2>1. Cardinality(1..N) = Cardinality(S)
    BY <1>7 DEF N
  <2> QED BY <1>8, <2>1, FS_Injection
<1>10. \A x \in S : \E r \in 1..N : f[r] = x
  BY <1>9 DEF Surjection
<1> QED BY <1>1, <1>5, <1>6, <1>10 DEF Lists, N, f

-----------------------------------------------------------------------------
(* The simulation, pod after pod.                                          *)

\* The simulation's numbers are numbers.
SimTyped(nodes, pods) ==
  /\ Len(nodes) \in Nat
  /\ \A i \in 1..Len(nodes) :
       /\ nodes[i].cap \in [Resources -> Int] /\ nodes[i].reserved \in [Resources -> Int]
       /\ nodes[i].maxPods \in Int /\ nodes[i].reservedPods \in Int
       /\ nodes[i].extended \in [Extended -> Nat]
  /\ IsFiniteSet(DOMAIN pods) /\ DOMAIN pods \in SUBSET Nat
  /\ \A p \in DOMAIN pods :
       /\ pods[p].size \in [Resources -> Int] /\ pods[p].extended \in [Extended -> Nat]
       /\ \A c \in pods[p].topologySpread : c.maxSkew \in Int /\ c.minDomains \in Int

LEMMA SortedLists ==
  ASSUME NEW nodes, NEW pods, SimTyped(nodes, pods)
  PROVE  Lists(SortedForPacking(pods), DOMAIN pods)
<1> DEFINE S == DOMAIN pods
           R == {e \in S \X S : Precedes(pods, e[1], e[2])}
           before(r) == CHOOSE x \in S : Cardinality({y \in S : Precedes(pods, y, x)}) = r - 1
           among(r) == CHOOSE x \in S : Cardinality({y \in S : <<y, x>> \in R}) = r - 1
<1>1. \A x, y \in S : <<x, y>> \in R <=> Precedes(pods, x, y)
  OBVIOUS
<1>2. \A x \in S : x \in Nat /\ pods[x].size["mem"] \in Int /\ pods[x].size["cpu"] \in Int
  BY DEF SimTyped, Resources
<1>3. /\ \A x \in S : ~Precedes(pods, x, x)
      /\ \A x, y \in S : x # y => Precedes(pods, x, y) \/ Precedes(pods, y, x)
      /\ \A x, y, z \in S : Precedes(pods, x, y) /\ Precedes(pods, y, z) => Precedes(pods, x, z)
  BY <1>2 DEF Precedes
<1>4. SortedForPacking(pods) = Enumeration(S, R)
  <2>1. \A x \in S : {y \in S : Precedes(pods, y, x)} = {y \in S : <<y, x>> \in R}
    BY <1>1
  <2>2. \A r : before(r) = among(r)
    <3> HIDE DEF R, S
    <3> QED BY <2>1
  <2>3. SortedForPacking(pods) = [r \in 1..Cardinality(S) |-> before(r)]
    BY DEF SortedForPacking, Ranked
  <2>4. Enumeration(S, R) = [r \in 1..Cardinality(S) |-> among(r)]
    BY DEF Enumeration
  <2> HIDE DEF before, among, S, R
  <2> QED BY <2>2, <2>3, <2>4
<1>5. IsFiniteSet(S)
  BY DEF SimTyped
<1> HIDE DEF S, R
<1>6. Lists(Enumeration(S, R), S)
  BY <1>1, <1>3, <1>5, EnumerationLists
<1> QED BY <1>4, <1>6 DEF S

\* What Fit calls after, for the first pods.
Folds(h, nodes, pods, m) ==
  h = [r \in 0..m |-> IF r = 0 THEN [p \in DOMAIN pods |-> 0]
                      ELSE Assign(nodes, pods, h[r - 1], SortedForPacking(pods)[r])]

LEMMA FoldExists ==
  ASSUME NEW nodes, NEW pods, NEW m \in Nat
  PROVE  \E h : Folds(h, nodes, pods, m)
<1> DEFINE zero == [p \in DOMAIN pods |-> 0]
           next(a, r) == Assign(nodes, pods, a, SortedForPacking(pods)[r])
           Bad == {i \in Nat : ~\E h : Folds(h, nodes, pods, i)}
<1>1. \A h, i : Folds(h, nodes, pods, i) <=>
                  h = [r \in 0..i |-> IF r = 0 THEN zero ELSE next(h[r - 1], r)]
  BY DEF Folds
<1> HIDE DEF zero, next
<1> SUFFICES ASSUME Bad # {} PROVE FALSE
  OBVIOUS
<1>2. PICK i \in Bad : \A j \in Bad : i <= j
  <2>1. Bad \in SUBSET Nat
    OBVIOUS
  <2> HIDE DEF Bad
  <2> QED BY <2>1, LeastNatural
<1>3. i \in Nat /\ ~\E h : Folds(h, nodes, pods, i)
  OBVIOUS
<1>4. i # 0
  <2> SUFFICES ASSUME i = 0 PROVE FALSE
    OBVIOUS
  <2> DEFINE h == [r \in 0..0 |-> zero]
  <2>1. h = [r \in 0..0 |-> IF r = 0 THEN zero ELSE next(h[r - 1], r)]
    OBVIOUS
  <2> HIDE DEF h
  <2>2. Folds(h, nodes, pods, 0)
    BY <1>1, <2>1
  <2> QED BY <1>3, <2>2
<1>5. i - 1 \in Nat /\ i - 1 \notin Bad
  <2> HIDE DEF Bad
  <2> QED BY <1>2, <1>3, <1>4
<1>6. PICK g : Folds(g, nodes, pods, i - 1)
  BY <1>5
<1>7. g = [r \in 0..(i - 1) |-> IF r = 0 THEN zero ELSE next(g[r - 1], r)]
  BY <1>1, <1>6
<1> DEFINE h == [r \in 0..i |-> IF r = i THEN next(g[i - 1], i) ELSE g[r]]
<1>8. h = [r \in 0..i |-> IF r = 0 THEN zero ELSE next(h[r - 1], r)]
  <2>1. \A r \in 0..i : h[r] = IF r = 0 THEN zero ELSE next(h[r - 1], r)
    <3> SUFFICES ASSUME NEW r \in 0..i PROVE h[r] = IF r = 0 THEN zero ELSE next(h[r - 1], r)
      OBVIOUS
    <3>1. CASE r = 0
      BY <1>3, <1>4, <1>7, <3>1
    <3>2. CASE r = i
      <4>1. h[r] = next(g[r - 1], r) /\ h[r - 1] = g[r - 1]
        BY <1>3, <1>4, <3>2
      <4> QED BY <1>4, <3>2, <4>1
    <3>3. CASE r # 0 /\ r # i
      <4>1. r \in 0..(i - 1) /\ r - 1 \in 0..i /\ r - 1 # i
        BY <1>3, <3>3
      <4>2. h[r] = g[r] /\ h[r - 1] = g[r - 1]
        BY <3>3, <4>1
      <4> HIDE DEF h
      <4>3. g[r] = next(g[r - 1], r)
        BY <1>7, <3>3, <4>1
      <4> QED BY <3>3, <4>2, <4>3
    <3> QED BY <3>1, <3>2, <3>3
  <2> DEFINE h2 == [r \in 0..i |-> IF r = 0 THEN zero ELSE next(h[r - 1], r)]
  <2>2. \A r \in 0..i : h2[r] = IF r = 0 THEN zero ELSE next(h[r - 1], r)
    OBVIOUS
  <2>3. h = [r \in 0..i |-> h[r]] /\ h2 = [r \in 0..i |-> h2[r]]
    OBVIOUS
  <2>4. h = h2
    <3> HIDE DEF h, h2
    <3> QED BY <2>1, <2>2, <2>3
  <2> QED BY <2>4
<1> HIDE DEF h
<1>9. Folds(h, nodes, pods, i)
  BY <1>1, <1>8
<1> QED BY <1>3, <1>9

\* The simulation goes from pod to pod, each going to a node that admits it or
\* staying out.
LEMMA FitSteps ==
  ASSUME NEW nodes, NEW pods, Len(SortedForPacking(pods)) \in Nat
  PROVE  \E h : /\ h[0] = [p \in DOMAIN pods |-> 0]
                /\ \A r \in 1..Len(SortedForPacking(pods)) :
                     h[r] = Assign(nodes, pods, h[r - 1], SortedForPacking(pods)[r])
                /\ Fit(nodes, pods) = h[Len(SortedForPacking(pods))]
<1> DEFINE N == Len(SortedForPacking(pods))
           h == CHOOSE f : Folds(f, nodes, pods, N)
<1>1. Folds(h, nodes, pods, N)
  BY FoldExists, Zenon
<1>2. Fit(nodes, pods) = h[N]
  BY Zenon DEF Fit, Folds
<1>3. h = [r \in 0..N |-> IF r = 0 THEN [p \in DOMAIN pods |-> 0]
                          ELSE Assign(nodes, pods, h[r - 1], SortedForPacking(pods)[r])]
  BY <1>1, Zenon DEF Folds
<1> DEFINE next(a, r) == Assign(nodes, pods, a, SortedForPacking(pods)[r])
<1>4. h = [r \in 0..N |-> IF r = 0 THEN [p \in DOMAIN pods |-> 0] ELSE next(h[r - 1], r)]
  BY <1>3
<1> HIDE DEF h, N, next
<1>5. h[0] = [p \in DOMAIN pods |-> 0] /\ \A r \in 1..N : h[r] = next(h[r - 1], r)
  <2>1. N \in Nat
    BY DEF N
  <2> QED BY <1>4, <2>1
<1> QED BY <1>2, <1>5 DEF N, next

-----------------------------------------------------------------------------
(* What holds of the pods placed so far.                                   *)

LEMMA TotalIsSum == \A f : Total(f) = SumOver(f, DOMAIN f)
BY Zenon DEF Total, SumOver

\* Constraints between the simulated pods bind both ways.
SimMutual(pods) ==
  \A p, q \in DOMAIN pods : p # q =>
    /\ \A term \in pods[p].antiAffinity : Repels(term, pods[p], pods[q]) =>
         \E back \in pods[q].antiAffinity :
           back.topologyKey = term.topologyKey /\ Repels(back, pods[q], pods[p])
    /\ \A c \in pods[p].topologySpread : c.hard /\ CountsFor(c, pods[p], pods[q]) =>
         c \in pods[q].topologySpread

DomainOf(nodes, at, p, key) == Domain(nodes[at[p]], key)
Domains(nodes, key) == {Domain(nodes[j], key) : j \in 1..Len(nodes)} \ {{}}

\* The pods that a constraint of p counts in a domain, p among them.
Counted(nodes, pods, at, p, c, x) ==
  {q \in DOMAIN pods : /\ at[q] # 0 /\ DomainOf(nodes, at, q, c.topologyKey) = x
                       /\ CountsFor(c, pods[p], pods[q])}

SimRoom(nodes, pods, at) ==
  \A i \in 1..Len(nodes) : Occupants(at, i) # {} =>
    /\ \A d \in Resources :
         SumOver([q \in DOMAIN pods |-> pods[q].size[d]], Occupants(at, i))
           <= nodes[i].cap[d] - nodes[i].reserved[d]
    /\ nodes[i].maxPods > 0
         => nodes[i].reservedPods + Cardinality(Occupants(at, i)) <= nodes[i].maxPods

SimStore(nodes, pods, at) ==
  \A i \in 1..Len(nodes), e \in Extended :
    SumOver([q \in DOMAIN pods |-> pods[q].extended[e]], Occupants(at, i)) <= nodes[i].extended[e]

SimEligible(nodes, pods, at) ==
  \A p \in DOMAIN pods : at[p] # 0 =>
    /\ Eligible(pods[p], nodes[at[p]])
    /\ \A term \in pods[p].antiAffinity : DomainOf(nodes, at, p, term.topologyKey) # {}
    /\ \A c \in pods[p].topologySpread : c.hard => DomainOf(nodes, at, p, c.topologyKey) # {}

SimApart(nodes, pods, at) ==
  \A p, q \in DOMAIN pods : p # q /\ at[p] # 0 /\ at[q] # 0 =>
    \A term \in pods[p].antiAffinity : Repels(term, pods[p], pods[q]) =>
      DomainOf(nodes, at, p, term.topologyKey) # DomainOf(nodes, at, q, term.topologyKey)

\* No domain is ahead of another by more than the skew.
SimSpread(nodes, pods, at) ==
  \A p \in DOMAIN pods : at[p] # 0 =>
    \A c \in pods[p].topologySpread : c.hard =>
      LET here == Cardinality(Counted(nodes, pods, at, p, c, DomainOf(nodes, at, p, c.topologyKey))) IN
      /\ c.minDomains > Cardinality(Domains(nodes, c.topologyKey)) => here <= c.maxSkew
      /\ \A x \in Domains(nodes, c.topologyKey) :
           here <= Cardinality(Counted(nodes, pods, at, p, c, x)) + c.maxSkew

Packed(nodes, pods, at) ==
  /\ at \in [DOMAIN pods -> 0..Len(nodes)]
  /\ SimRoom(nodes, pods, at)
  /\ SimStore(nodes, pods, at)
  /\ SimEligible(nodes, pods, at)
  /\ SimApart(nodes, pods, at)
  /\ SimSpread(nodes, pods, at)

\* p, which is out, goes to a node that admits it.
Admitted(nodes, pods, at, p, i, then) ==
  /\ SimTyped(nodes, pods) /\ SimMutual(pods) /\ Packed(nodes, pods, at)
  /\ p \in DOMAIN pods /\ at[p] = 0 /\ i \in 1..Len(nodes)
  /\ Admits(nodes, pods, at, p, i)
  /\ then = [at EXCEPT ![p] = i]

LEMMA AdmittedFacts ==
  ASSUME NEW nodes, NEW pods, NEW at, NEW p, NEW i, NEW then, Admitted(nodes, pods, at, p, i, then)
  PROVE  /\ then \in [DOMAIN pods -> 0..Len(nodes)]
         /\ then[p] = i /\ i # 0 /\ \A q \in DOMAIN pods : q # p => then[q] = at[q]
         /\ Occupants(then, i) = Occupants(at, i) \cup {p} /\ p \notin Occupants(at, i)
         /\ \A j \in 1..Len(nodes) : j # i => Occupants(then, j) = Occupants(at, j)
         /\ \A j : Occupants(at, j) \in SUBSET DOMAIN pods /\ IsFiniteSet(Occupants(at, j))
<1>1. at \in [DOMAIN pods -> 0..Len(nodes)] /\ p \in DOMAIN pods /\ at[p] = 0 /\ i \in 1..Len(nodes)
      /\ Len(nodes) \in Nat /\ IsFiniteSet(DOMAIN pods)
  BY DEF Admitted, Packed, SimTyped
<1>2. then \in [DOMAIN pods -> 0..Len(nodes)] /\ DOMAIN then = DOMAIN pods /\ DOMAIN at = DOMAIN pods
  BY <1>1 DEF Admitted
<1>3. i # 0 /\ then[p] = i /\ \A q \in DOMAIN pods : q # p => then[q] = at[q]
  BY <1>1 DEF Admitted
<1>4. \A j : Occupants(at, j) = {q \in DOMAIN pods : at[q] = j}
  BY <1>2 DEF Occupants
<1>5. \A j : Occupants(then, j) = {q \in DOMAIN pods : then[q] = j}
  BY <1>2 DEF Occupants
<1>6. \A j : Occupants(at, j) \in SUBSET DOMAIN pods /\ IsFiniteSet(Occupants(at, j))
  BY <1>1, <1>4, FS_Subset
<1>7. Occupants(then, i) = Occupants(at, i) \cup {p} /\ p \notin Occupants(at, i)
  BY <1>1, <1>3, <1>4, <1>5
<1>8. \A j \in 1..Len(nodes) : j # i => Occupants(then, j) = Occupants(at, j)
  <2> SUFFICES ASSUME NEW j \in 1..Len(nodes), j # i PROVE Occupants(then, j) = Occupants(at, j)
    OBVIOUS
  <2>1. \A q \in DOMAIN pods : then[q] = j <=> at[q] = j
    BY <1>1, <1>3
  <2> QED BY <1>4, <1>5, <2>1
<1> QED BY <1>2, <1>3, <1>6, <1>7, <1>8

LEMMA RoomStep ==
  ASSUME NEW nodes, NEW pods, NEW at, NEW p, NEW i, NEW then, Admitted(nodes, pods, at, p, i, then)
  PROVE  SimRoom(nodes, pods, then)
<1> DEFINE size(d) == [q \in DOMAIN pods |-> pods[q].size[d]]
           O == Occupants(at, i)
<1>1. SimTyped(nodes, pods) /\ SimRoom(nodes, pods, at) /\ Fits(nodes, pods, at, p, i)
      /\ p \in DOMAIN pods /\ i \in 1..Len(nodes)
  BY DEF Admitted, Packed, Admits
<1>2. /\ O \in SUBSET DOMAIN pods /\ IsFiniteSet(O) /\ p \notin O /\ Occupants(then, i) = O \cup {p}
      /\ \A j \in 1..Len(nodes) : j # i => Occupants(then, j) = Occupants(at, j)
  BY AdmittedFacts
<1>3. \A d \in Resources : \A q \in DOMAIN pods : size(d)[q] \in Int
  BY <1>1 DEF SimTyped
<1>4. ASSUME NEW d \in Resources
      PROVE  SumOver(size(d), O \cup {p}) <= nodes[i].cap[d] - nodes[i].reserved[d]
  <2> DEFINE f == size(d)
             g == [q \in O |-> pods[q].size[d]]
  <2>1. Total(g) = SumOver(f, O)
    <3>1. DOMAIN g = O /\ \A q \in O : f[q] \in Int /\ g[q] = f[q]
      BY <1>2, <1>3
    <3> HIDE DEF f, g, O
    <3>2. SumOver(f, O) = SumOver(g, O)
      BY <1>2, <3>1, SumSame
    <3> QED BY <3>1, <3>2, TotalIsSum
  <2>2. f[p] + Total(g) <= nodes[i].cap[d] - nodes[i].reserved[d]
    BY <1>1 DEF Fits
  <2>3. SumOver(f, O \cup {p}) = f[p] + SumOver(f, O)
    <3>1. \A q \in O \cup {p} : f[q] \in Int
      BY <1>1, <1>2, <1>3
    <3>2. IsFiniteSet(O \cup {p}) /\ (O \cup {p}) \ {p} = O
      BY <1>2, FS_AddElement
    <3> HIDE DEF f, O
    <3> QED BY <3>1, <3>2, SumRemove
  <2> HIDE DEF g
  <2> QED BY <2>1, <2>2, <2>3
<1>5. nodes[i].maxPods > 0 => nodes[i].reservedPods + Cardinality(O \cup {p}) <= nodes[i].maxPods
  <2>1. Cardinality(O \cup {p}) = Cardinality(O) + 1 /\ Cardinality(O) \in Nat
    BY <1>2, FS_AddElement, FS_CardinalityType
  <2>2. nodes[i].maxPods \in Int /\ nodes[i].reservedPods \in Int
    BY <1>1 DEF SimTyped
  <2>3. nodes[i].maxPods > 0 => nodes[i].reservedPods + Cardinality(O) + 1 <= nodes[i].maxPods
    BY <1>1 DEF Fits
  <2> HIDE DEF O
  <2> QED BY <2>1, <2>2, <2>3
<1>6. SUFFICES ASSUME NEW j \in 1..Len(nodes), Occupants(then, j) # {}
               PROVE  /\ \A d \in Resources : SumOver(size(d), Occupants(then, j)) <= nodes[j].cap[d] - nodes[j].reserved[d]
                      /\ nodes[j].maxPods > 0
                           => nodes[j].reservedPods + Cardinality(Occupants(then, j)) <= nodes[j].maxPods
  BY DEF SimRoom
<1>7. CASE j = i
  <2> HIDE DEF O, size
  <2> QED BY <1>2, <1>4, <1>5, <1>7
<1>8. CASE j # i
  <2>1. /\ \A d \in Resources : SumOver(size(d), Occupants(at, j)) <= nodes[j].cap[d] - nodes[j].reserved[d]
        /\ nodes[j].maxPods > 0 => nodes[j].reservedPods + Cardinality(Occupants(at, j)) <= nodes[j].maxPods
    BY <1>1, <1>2, <1>6, <1>8 DEF SimRoom
  <2> HIDE DEF size
  <2> QED BY <1>2, <1>6, <1>8, <2>1
<1> QED BY <1>7, <1>8

LEMMA StoreStep ==
  ASSUME NEW nodes, NEW pods, NEW at, NEW p, NEW i, NEW then, Admitted(nodes, pods, at, p, i, then)
  PROVE  SimStore(nodes, pods, then)
<1> SUFFICES ASSUME NEW j \in 1..Len(nodes), NEW e \in Extended
             PROVE  SumOver([q \in DOMAIN pods |-> pods[q].extended[e]], Occupants(then, j)) <= nodes[j].extended[e]
  BY DEF SimStore
<1> DEFINE f == [q \in DOMAIN pods |-> pods[q].extended[e]]
           O == Occupants(at, i)
           g == [q \in O |-> pods[q].extended[e]]
<1>1. SimTyped(nodes, pods) /\ SimStore(nodes, pods, at) /\ Fits(nodes, pods, at, p, i)
      /\ p \in DOMAIN pods /\ i \in 1..Len(nodes)
  BY DEF Admitted, Packed, Admits
<1>2. /\ O \in SUBSET DOMAIN pods /\ IsFiniteSet(O) /\ p \notin O /\ Occupants(then, i) = O \cup {p}
      /\ \A l \in 1..Len(nodes) : l # i => Occupants(then, l) = Occupants(at, l)
  BY AdmittedFacts
<1>3. /\ \A q \in DOMAIN pods : f[q] \in Nat
      /\ SumOver(f, Occupants(at, j)) <= nodes[j].extended[e]
      /\ nodes[j].extended[e] \in Nat
  BY <1>1 DEF SimTyped, SimStore
<1>4. Total(g) = SumOver(f, O)
  <2>1. DOMAIN g = O /\ \A q \in O : f[q] \in Int /\ g[q] = f[q]
    BY <1>2, <1>3
  <2> HIDE DEF f, g, O
  <2>2. SumOver(f, O) = SumOver(g, O)
    BY <1>2, <2>1, SumSame
  <2> QED BY <2>1, <2>2, TotalIsSum
<1>5. f[p] > 0 => f[p] + Total(g) <= nodes[i].extended[e]
  BY <1>1 DEF Fits
<1> HIDE DEF f, g, O
<1>6. SumOver(f, O \cup {p}) = f[p] + SumOver(f, O) /\ SumOver(f, O) \in Nat /\ f[p] \in Nat
  <2>1. \A q \in O \cup {p} : f[q] \in Int
    BY <1>1, <1>2, <1>3
  <2>2. IsFiniteSet(O \cup {p}) /\ (O \cup {p}) \ {p} = O
    BY <1>2, FS_AddElement
  <2>3. SumOver(f, O \cup {p}) = f[p] + SumOver(f, O)
    BY <2>1, <2>2, SumRemove
  <2>4. SumOver(f, O) \in Nat
    BY <1>2, <1>3, SumNat
  <2> QED BY <1>1, <1>3, <2>3, <2>4
<1>7. CASE j # i
  <2>1. Occupants(then, j) = Occupants(at, j)
    BY <1>2, <1>7
  <2> QED BY <1>3, <2>1 DEF f
<1>8. CASE j = i
  <2>1. SumOver(f, O) <= nodes[i].extended[e] /\ nodes[i].extended[e] \in Nat
    BY <1>3, <1>8 DEF O
  <2>2. SumOver(f, Occupants(then, j)) = f[p] + SumOver(f, O)
    BY <1>2, <1>6, <1>8
  <2>3. f[p] + SumOver(f, O) <= nodes[i].extended[e]
    BY <1>4, <1>5, <1>6, <2>1
  <2> QED BY <1>8, <2>2, <2>3 DEF f
<1> QED BY <1>7, <1>8

LEMMA EligibleStep ==
  ASSUME NEW nodes, NEW pods, NEW at, NEW p, NEW i, NEW then, Admitted(nodes, pods, at, p, i, then)
  PROVE  SimEligible(nodes, pods, then)
<1>1. /\ then[p] = i /\ \A q \in DOMAIN pods : q # p => then[q] = at[q]
  BY AdmittedFacts
<1>2. SimEligible(nodes, pods, at) /\ Admits(nodes, pods, at, p, i)
  BY DEF Admitted, Packed
<1>3. /\ Eligible(pods[p], nodes[i])
      /\ \A term \in pods[p].antiAffinity : Domain(nodes[i], term.topologyKey) # {}
      /\ \A c \in pods[p].topologySpread : c.hard => Domain(nodes[i], c.topologyKey) # {}
  <2>1. \A term \in pods[p].antiAffinity : Domain(nodes[i], term.topologyKey) # {}
    BY <1>2 DEF Admits, SatisfiesAntiAffinity
  <2>2. \A c \in pods[p].topologySpread : c.hard => Domain(nodes[i], c.topologyKey) # {}
    BY <1>2 DEF Admits, SatisfiesSpread
  <2> QED BY <1>2, <2>1, <2>2 DEF Admits
<1> QED BY <1>1, <1>2, <1>3 DEF SimEligible, DomainOf

LEMMA ApartStep ==
  ASSUME NEW nodes, NEW pods, NEW at, NEW p, NEW i, NEW then, Admitted(nodes, pods, at, p, i, then)
  PROVE  SimApart(nodes, pods, then)
<1>1. /\ then[p] = i /\ \A q \in DOMAIN pods : q # p => then[q] = at[q]
  BY AdmittedFacts
<1>2. /\ SimApart(nodes, pods, at) /\ SimMutual(pods) /\ SatisfiesAntiAffinity(nodes, pods, at, p, i)
      /\ at \in [DOMAIN pods -> 0..Len(nodes)] /\ Len(nodes) \in Nat /\ p \in DOMAIN pods
  BY DEF Admitted, Packed, Admits, SimTyped
<1>3. \A q \in DOMAIN pods : q # p /\ at[q] # 0 =>
        \A term \in pods[p].antiAffinity : Repels(term, pods[p], pods[q]) =>
          Domain(nodes[i], term.topologyKey) # Domain(nodes[at[q]], term.topologyKey)
  <2> SUFFICES ASSUME NEW q \in DOMAIN pods, q # p, at[q] # 0, NEW term \in pods[p].antiAffinity,
                      Repels(term, pods[p], pods[q]),
                      Domain(nodes[i], term.topologyKey) = Domain(nodes[at[q]], term.topologyKey)
               PROVE  FALSE
    OBVIOUS
  <2>1. at[q] \in 1..Len(nodes)
    BY <1>2
  <2>2. q \in Occupants(at, at[q]) \ {p}
    BY <1>2 DEF Occupants
  <2> QED BY <1>2, <2>1, <2>2 DEF SatisfiesAntiAffinity
<1>4. SUFFICES ASSUME NEW q \in DOMAIN pods, NEW r \in DOMAIN pods, q # r, then[q] # 0, then[r] # 0,
                      NEW term \in pods[q].antiAffinity, Repels(term, pods[q], pods[r])
               PROVE  Domain(nodes[then[q]], term.topologyKey) # Domain(nodes[then[r]], term.topologyKey)
  BY DEF SimApart, DomainOf
<1>5. CASE q # p /\ r # p
  BY <1>1, <1>2, <1>4, <1>5 DEF SimApart, DomainOf
<1>6. CASE q = p
  BY <1>1, <1>3, <1>4, <1>6
<1>7. CASE r = p
  <2>1. PICK back \in pods[p].antiAffinity :
               back.topologyKey = term.topologyKey /\ Repels(back, pods[p], pods[q])
    BY <1>2, <1>4, <1>7 DEF SimMutual
  <2>2. Domain(nodes[i], back.topologyKey) # Domain(nodes[at[q]], back.topologyKey)
    BY <1>1, <1>3, <1>4, <1>7, <2>1
  <2> QED BY <1>1, <1>4, <1>7, <2>1, <2>2
<1> QED BY <1>5, <1>6, <1>7

LEMMA CountedGrows ==
  ASSUME NEW nodes, NEW pods, NEW at, NEW p, NEW i, NEW then, Admitted(nodes, pods, at, p, i, then),
         NEW q, NEW c, NEW y
  PROVE  LET old == Cardinality(Counted(nodes, pods, at, q, c, y))
             new == Cardinality(Counted(nodes, pods, then, q, c, y)) IN
         /\ old \in Nat /\ new \in Nat /\ old <= new /\ new <= old + 1
         /\ y # Domain(nodes[i], c.topologyKey) \/ ~CountsFor(c, pods[q], pods[p]) => new = old
<1> DEFINE A == Counted(nodes, pods, at, q, c, y)
           B == Counted(nodes, pods, then, q, c, y)
<1>1. /\ then[p] = i /\ \A r \in DOMAIN pods : r # p => then[r] = at[r]
  BY AdmittedFacts
<1>2. at[p] = 0 /\ p \in DOMAIN pods /\ IsFiniteSet(DOMAIN pods)
  BY DEF Admitted, SimTyped
<1>3. A \in SUBSET DOMAIN pods /\ A \subseteq B /\ B \subseteq A \cup {p}
  BY <1>1, <1>2 DEF Counted, DomainOf
<1>4. y # Domain(nodes[i], c.topologyKey) \/ ~CountsFor(c, pods[q], pods[p]) => p \notin B
  BY <1>1 DEF Counted, DomainOf
<1> HIDE DEF A, B
<1>5. IsFiniteSet(A) /\ IsFiniteSet(B) /\ IsFiniteSet(A \cup {p})
  <2>1. IsFiniteSet(A) /\ IsFiniteSet(A \cup {p})
    BY <1>2, <1>3, FS_Subset, FS_AddElement
  <2> QED BY <1>3, <2>1, FS_Subset
<1>6. Cardinality(A) \in Nat /\ Cardinality(B) \in Nat
  BY <1>5, FS_CardinalityType
<1>7. Cardinality(A) <= Cardinality(B)
  BY <1>3, <1>5, FS_Subset
<1>8. Cardinality(B) <= Cardinality(A) + 1
  <2>1. Cardinality(B) <= Cardinality(A \cup {p})
    BY <1>3, <1>5, FS_Subset
  <2>2. Cardinality(A \cup {p}) = IF p \in A THEN Cardinality(A) ELSE Cardinality(A) + 1
    BY <1>5, FS_AddElement
  <2> QED BY <1>6, <2>1, <2>2
<1>9. p \notin B => A = B
  BY <1>3
<1> QED BY <1>4, <1>6, <1>7, <1>8, <1>9 DEF A, B

\* What a hard constraint says of the pod that is placed, by what was counted.
LEMMA SpreadAdmits ==
  ASSUME NEW nodes, NEW pods, NEW at, NEW p, NEW i, NEW then, Admitted(nodes, pods, at, p, i, then),
         NEW c \in pods[p].topologySpread, c.hard
  PROVE  LET X == Domain(nodes[i], c.topologyKey)
             count(y) == Cardinality(Counted(nodes, pods, at, p, c, y)) IN
         /\ 0 <= c.maxSkew
         /\ c.minDomains > Cardinality(Domains(nodes, c.topologyKey)) => count(X) + 1 <= c.maxSkew
         /\ \A y \in Domains(nodes, c.topologyKey) : y # X => count(X) + 1 <= count(y) + c.maxSkew
<1> DEFINE X == Domain(nodes[i], c.topologyKey)
           count(y) == Cardinality(Counted(nodes, pods, at, p, c, y))
           D == Domains(nodes, c.topologyKey)
           others == {count(y) : y \in D \ {X}}
           all == {count(X) + 1} \cup others
<1> SUFFICES /\ 0 <= c.maxSkew
             /\ c.minDomains > Cardinality(D) => count(X) + 1 <= c.maxSkew
             /\ \A y \in D : y # X => count(X) + 1 <= count(y) + c.maxSkew
  OBVIOUS
<1>1. \A y : SpreadCount(nodes, pods, at, p, c, y) = count(y)
  <2> SUFFICES ASSUME NEW y PROVE SpreadCount(nodes, pods, at, p, c, y) = count(y)
    OBVIOUS
  <2>1. DOMAIN at = DOMAIN pods /\ at[p] = 0
    BY DEF Admitted, Packed
  <2>2. {q \in DOMAIN at \ {p} : /\ at[q] # 0 /\ Domain(nodes[at[q]], c.topologyKey) = y
                                 /\ CountsFor(c, pods[p], pods[q])}
          = Counted(nodes, pods, at, p, c, y)
    BY <2>1 DEF Counted, DomainOf
  <2> QED BY <2>2 DEF SpreadCount
<1>2. \A y : count(y) \in Nat
  BY CountedGrows
<1>3. c.maxSkew \in Int /\ c.minDomains \in Int
  BY DEF Admitted, SimTyped
<1>5. Min(all) \in all /\ \A m \in all : Min(all) <= m
  <2>1. all \in SUBSET Nat /\ all # {}
    <3> HIDE DEF count, D, X
    <3> QED BY <1>2
  <2> HIDE DEF all
  <2> QED BY <2>1, MinIsLeast
<1>6. count(X) + 1 \in all /\ \A y \in D : y # X => count(y) \in all
  OBVIOUS
<1>7. Min(all) <= count(X) + 1 /\ \A y \in D : y # X => Min(all) <= count(y)
  <2> HIDE DEF all
  <2> QED BY <1>5, <1>6
<1>8. Min(all) \in Int
  <2>1. \A m \in all : m \in Int
    <3> HIDE DEF count, D, X
    <3> QED BY <1>2 DEF all
  <2> HIDE DEF all
  <2> QED BY <1>5, <2>1
<1>9. count(X) + 1 - (IF c.minDomains > Cardinality(D) THEN 0 ELSE Min(all)) <= c.maxSkew
  <2> DEFINE counted(y) == SpreadCount(nodes, pods, at, p, c, y)
             projected(e) == SpreadCount(nodes, pods, at, p, e, Domain(nodes[i], e.topologyKey)) + 1
             base(e) ==
               IF e.minDomains > Cardinality({Domain(nodes[j], e.topologyKey) : j \in 1..Len(nodes)} \ {{}})
               THEN 0
               ELSE Min({projected(e)} \cup
                        {SpreadCount(nodes, pods, at, p, e, d) :
                           d \in ({Domain(nodes[j], e.topologyKey) : j \in 1..Len(nodes)} \ {{}})
                                 \ {Domain(nodes[i], e.topologyKey)}})
             hard == {e \in pods[p].topologySpread : e.hard}
  <2>1. SatisfiesSpread(nodes, pods, at, p, i) /\ c \in hard
    BY DEF Admitted, Admits
  <2>2. \A e \in hard : Domain(nodes[i], e.topologyKey) # {} /\ projected(e) - base(e) <= e.maxSkew
    BY <2>1, Zenon DEF SatisfiesSpread
  <2>3. projected(c) = counted(X) + 1 /\ counted(X) = count(X)
    BY <1>1
  <2>4. base(c) = IF c.minDomains > Cardinality(D) THEN 0
                  ELSE Min({counted(X) + 1} \cup {counted(y) : y \in D \ {X}})
    BY Zenon DEF Domains
  <2>5. {counted(y) : y \in D \ {X}} = others
    <3> HIDE DEF X, D, counted, count
    <3>1. \A y : counted(y) = count(y)
      BY <1>1 DEF counted
    <3> QED BY <3>1 DEF others
  <2>6. {counted(X) + 1} \cup {counted(y) : y \in D \ {X}} = all
    <3> HIDE DEF X, D, counted, count, others
    <3> QED BY <2>3, <2>5 DEF all
  <2> HIDE DEF hard, projected, base, D, X, counted, count, others
  <2>7. base(c) = IF c.minDomains > Cardinality(D) THEN 0 ELSE Min(all)
    BY <2>4, <2>6
  <2>8. projected(c) - base(c) <= c.maxSkew
    BY <2>1, <2>2
  <2>9. base(c) \in Int /\ count(X) \in Nat /\ projected(c) = count(X) + 1
    BY <1>2, <1>8, <2>3, <2>7
  <2> QED BY <1>3, <2>7, <2>8, <2>9
<1> HIDE DEF all
<1> HIDE DEF X, count, D
<1>10. /\ 0 <= c.maxSkew
       /\ c.minDomains > Cardinality(D) => count(X) + 1 <= c.maxSkew
       /\ \A y \in D : y # X => count(X) + 1 <= count(y) + c.maxSkew
  <2>1. CASE c.minDomains > Cardinality(D)
    BY <1>2, <1>3, <1>9, <2>1
  <2>2. CASE ~(c.minDomains > Cardinality(D))
    BY <1>2, <1>3, <1>7, <1>8, <1>9, <2>2
  <2> QED BY <2>1, <2>2
<1> QED BY <1>10

LEMMA SpreadStep ==
  ASSUME NEW nodes, NEW pods, NEW at, NEW p, NEW i, NEW then, Admitted(nodes, pods, at, p, i, then)
  PROVE  SimSpread(nodes, pods, then)
<1>1. /\ then[p] = i /\ \A q \in DOMAIN pods : q # p => then[q] = at[q]
  BY AdmittedFacts
<1>2. SimSpread(nodes, pods, at) /\ SimMutual(pods) /\ p \in DOMAIN pods
  BY DEF Admitted, Packed
<1>3. SUFFICES ASSUME NEW q \in DOMAIN pods, then[q] # 0, NEW c \in pods[q].topologySpread, c.hard
               PROVE  LET here == Cardinality(Counted(nodes, pods, then, q, c, DomainOf(nodes, then, q, c.topologyKey))) IN
                      /\ c.minDomains > Cardinality(Domains(nodes, c.topologyKey)) => here <= c.maxSkew
                      /\ \A x \in Domains(nodes, c.topologyKey) :
                           here <= Cardinality(Counted(nodes, pods, then, q, c, x)) + c.maxSkew
  BY DEF SimSpread
<1> DEFINE old(y) == Cardinality(Counted(nodes, pods, at, q, c, y))
           new(y) == Cardinality(Counted(nodes, pods, then, q, c, y))
           D == Domains(nodes, c.topologyKey)
           few == c.minDomains > Cardinality(D)
           X == Domain(nodes[i], c.topologyKey)
           x == DomainOf(nodes, then, q, c.topologyKey)
<1>4. \A y : /\ old(y) \in Nat /\ new(y) \in Nat /\ old(y) <= new(y) /\ new(y) <= old(y) + 1
             /\ y # X \/ ~CountsFor(c, pods[q], pods[p]) => new(y) = old(y)
  BY CountedGrows
<1>5. c.maxSkew \in Int
  BY DEF Admitted, SimTyped
<1>6. (few => new(x) <= c.maxSkew) /\ \A y \in D : new(x) <= new(y) + c.maxSkew
  <2>1. CASE q # p /\ (x # X \/ ~CountsFor(c, pods[q], pods[p]))
    <3>1. x = DomainOf(nodes, at, q, c.topologyKey) /\ at[q] # 0
      BY <1>1, <1>3, <2>1 DEF DomainOf
    <3>2. (few => old(x) <= c.maxSkew) /\ \A y \in D : old(x) <= old(y) + c.maxSkew
      BY <1>2, <1>3, <3>1 DEF SimSpread
    <3>3. new(x) = old(x)
      BY <1>4, <2>1
    <3> HIDE DEF old, new, D, few, X, x
    <3> QED BY <1>4, <1>5, <3>2, <3>3
  <2>2. CASE q = p \/ (x = X /\ CountsFor(c, pods[q], pods[p]))
    <3>1. x = X
      BY <1>1, <2>2 DEF DomainOf
    <3>2. c \in pods[p].topologySpread
      BY <1>2, <1>3, <2>2 DEF SimMutual
    <3>3. \A y : Counted(nodes, pods, at, p, c, y) = Counted(nodes, pods, at, q, c, y)
      <4>1. q = p \/ pods[p].ns = pods[q].ns
        BY <2>2 DEF CountsFor
      <4> QED BY <4>1 DEF Counted, CountsFor
    <3>4. /\ 0 <= c.maxSkew /\ (few => old(X) + 1 <= c.maxSkew)
          /\ \A y \in D : y # X => old(X) + 1 <= old(y) + c.maxSkew
      <4> DEFINE count(y) == Cardinality(Counted(nodes, pods, at, p, c, y))
      <4>1. /\ 0 <= c.maxSkew /\ (few => count(X) + 1 <= c.maxSkew)
            /\ \A y \in D : y # X => count(X) + 1 <= count(y) + c.maxSkew
        BY <1>3, <3>2, SpreadAdmits
      <4>2. \A y : count(y) = old(y)
        BY <3>3
      <4> HIDE DEF count, old, D, few, X
      <4> QED BY <4>1, <4>2
    <3>5. new(x) <= old(X) + 1
      BY <1>4, <3>1
    <3> HIDE DEF old, new, D, few, X, x
    <3> QED BY <1>4, <1>5, <3>1, <3>4, <3>5
  <2> QED BY <2>1, <2>2
<1> QED BY <1>6

-----------------------------------------------------------------------------
(* The whole simulation.                                                   *)

LEMMA AssignKeeps ==
  ASSUME NEW nodes, NEW pods, SimTyped(nodes, pods), SimMutual(pods),
         NEW at, Packed(nodes, pods, at), NEW p \in DOMAIN pods, at[p] = 0
  PROVE  /\ Packed(nodes, pods, Assign(nodes, pods, at, p))
         /\ \A q \in DOMAIN pods : q # p => Assign(nodes, pods, at, p)[q] = at[q]
<1> DEFINE open == {i \in 1..Len(nodes) : Admits(nodes, pods, at, p, i)}
           then == [at EXCEPT ![p] = Min(open)]
<1>1. CASE open = {}
  BY <1>1 DEF Assign
<1>2. CASE open # {}
  <2>1. open \in SUBSET Nat
    BY DEF SimTyped
  <2>2. Min(open) \in open
    <3> HIDE DEF open
    <3> QED BY <1>2, <2>1, MinIsLeast
  <2>3. Min(open) \in 1..Len(nodes) /\ Admits(nodes, pods, at, p, Min(open))
    BY <2>2
  <2>4. Assign(nodes, pods, at, p) = then
    BY <1>2 DEF Assign
  <2> HIDE DEF open
  <2>5. Admitted(nodes, pods, at, p, Min(open), then)
    BY <2>3 DEF Admitted
  <2> HIDE DEF then
  <2>6. Packed(nodes, pods, then)
    BY <2>5, AdmittedFacts, RoomStep, StoreStep, EligibleStep, ApartStep, SpreadStep DEF Packed
  <2>7. \A q \in DOMAIN pods : q # p => then[q] = at[q]
    BY <2>5, AdmittedFacts
  <2> QED BY <2>4, <2>6, <2>7
<1> QED BY <1>1, <1>2

LEMMA NonePacked ==
  ASSUME NEW nodes, NEW pods, SimTyped(nodes, pods)
  PROVE  Packed(nodes, pods, [p \in DOMAIN pods |-> 0])
<1> DEFINE at == [p \in DOMAIN pods |-> 0]
<1>1. at \in [DOMAIN pods -> 0..Len(nodes)] /\ \A p \in DOMAIN pods : at[p] = 0
  BY DEF SimTyped
<1>2. \A i \in 1..Len(nodes) : Occupants(at, i) = {}
  BY DEF Occupants, SimTyped
<1> HIDE DEF at
<1>3. SimRoom(nodes, pods, at) /\ SimEligible(nodes, pods, at)
  BY <1>1, <1>2 DEF SimRoom, SimEligible
<1>4. SimApart(nodes, pods, at) /\ SimSpread(nodes, pods, at)
  BY <1>1 DEF SimApart, SimSpread
<1>5. SimStore(nodes, pods, at)
  <2> SUFFICES ASSUME NEW i \in 1..Len(nodes), NEW e \in Extended
               PROVE  SumOver([p \in DOMAIN pods |-> pods[p].extended[e]], Occupants(at, i))
                        <= nodes[i].extended[e]
    BY DEF SimStore
  <2> DEFINE f == [p \in DOMAIN pods |-> pods[p].extended[e]]
  <2>1. nodes[i].extended[e] \in Nat
    BY DEF SimTyped
  <2> HIDE DEF f
  <2>2. Occupants(at, i) = {} /\ SumOver(f, {}) = 0
    BY <1>2, SumEmpty
  <2>3. SumOver(f, Occupants(at, i)) <= nodes[i].extended[e]
    BY <2>1, <2>2
  <2> QED BY <2>3 DEF f
<1> QED BY <1>1, <1>3, <1>4, <1>5 DEF Packed, at

\* First fit ends in a placement in which room, storage, eligibility, anti-affinity and
\* spread hold of all pods at once, whatever came after a pod (Fit, place).
THEOREM FitPacked ==
  ASSUME NEW nodes, NEW pods, SimTyped(nodes, pods), SimMutual(pods)
  PROVE  Packed(nodes, pods, Fit(nodes, pods))
<1> DEFINE order == SortedForPacking(pods)
           N == Cardinality(DOMAIN pods)
<1>1. /\ N \in Nat /\ Len(order) = N
      /\ \A r \in 1..N : order[r] \in DOMAIN pods
      /\ \A r, s \in 1..N : order[r] = order[s] => r = s
  BY SortedLists DEF Lists
<1>2. PICK h : /\ h[0] = [p \in DOMAIN pods |-> 0]
               /\ \A r \in 1..Len(order) : h[r] = Assign(nodes, pods, h[r - 1], order[r])
               /\ Fit(nodes, pods) = h[Len(order)]
  <2>1. Len(SortedForPacking(pods)) \in Nat
    BY <1>1
  <2> QED BY <2>1, FitSteps
<1> DEFINE Good(r) == /\ Packed(nodes, pods, h[r])
                      /\ \A s \in 1..N : s > r => h[r][order[s]] = 0
           Bad == {r \in 0..N : ~Good(r)}
<1> HIDE DEF order, N
<1>3. Good(0)
  BY <1>1, <1>2, NonePacked
<1>4. \A r \in 1..N : Good(r - 1) => Good(r)
  <2> SUFFICES ASSUME NEW r \in 1..N, Good(r - 1) PROVE Good(r)
    OBVIOUS
  <2>1. order[r] \in DOMAIN pods /\ h[r - 1][order[r]] = 0 /\ h[r] = Assign(nodes, pods, h[r - 1], order[r])
    BY <1>1, <1>2
  <2>2. /\ Packed(nodes, pods, h[r])
        /\ \A q \in DOMAIN pods : q # order[r] => h[r][q] = h[r - 1][q]
    BY <2>1, AssignKeeps
  <2>3. \A s \in 1..N : s > r => h[r][order[s]] = 0
    <3> SUFFICES ASSUME NEW s \in 1..N, s > r PROVE h[r][order[s]] = 0
      OBVIOUS
    <3>1. order[s] # order[r] /\ order[s] \in DOMAIN pods /\ s > r - 1
      BY <1>1
    <3> QED BY <2>2, <3>1
  <2> QED BY <2>2, <2>3
<1> HIDE DEF Good
<1>5. Bad = {}
  <2> SUFFICES ASSUME Bad # {} PROVE FALSE
    OBVIOUS
  <2>1. PICK r \in Bad : \A s \in Bad : r <= s
    <3>1. Bad \in SUBSET Nat
      BY <1>1
    <3> HIDE DEF Bad
    <3> QED BY <3>1, LeastNatural
  <2>2. r \in 1..N /\ ~Good(r)
    BY <1>1, <1>3
  <2>3. r - 1 \in 0..N /\ r - 1 \notin Bad
    <3>1. r - 1 \in 0..N /\ r \in Int
      BY <1>1, <2>2
    <3> HIDE DEF Bad
    <3> QED BY <2>1, <3>1
  <2> QED BY <1>4, <2>2, <2>3
<1>6. Good(N)
  BY <1>1, <1>5
<1> QED BY <1>1, <1>2, <1>6 DEF Good

=============================================================================
