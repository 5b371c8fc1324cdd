----------------------------- MODULE Sums_proofs -----------------------------
(***************************************************************************)
(* What a sum adds up to, by induction on the set: a set of subsets of a   *)
(* finite set has a smallest member, and a set of naturals a least one, so *)
(* that none is the smallest of which the claim fails.  The community      *)
(* module's fold takes the elements in the order of CHOOSE; SumRemove      *)
(* shows that the order does not matter.                                   *)
(***************************************************************************)
EXTENDS Integers, Functions, FiniteSetTheorems, TLAPS

Pick(s) == CHOOSE x \in s : TRUE
Fold(g, f, S) ==
  g = [s \in SUBSET S |-> IF s = {} THEN 0 ELSE f[Pick(s)] + g[s \ {Pick(s)}]]

-----------------------------------------------------------------------------
\* Every set of subsets of a finite set has a smallest one.
LEMMA Smallest ==
  ASSUME NEW S, IsFiniteSet(S), NEW T \in SUBSET (SUBSET S), T # {}
  PROVE  \E x \in T : \A y \in T : y \subseteq x => y = x
<1>1. IsWellFoundedOn(StrictSubsetOrdering(S), SUBSET S)
  BY FS_StrictSubsetOrderingWellFounded, FS_FiniteSubsetsOfFinite
<1>2. PICK x \in T : \A y \in T : ~ (<<y, x>> \in StrictSubsetOrdering(S))
  BY <1>1, WFMin
<1> QED
  BY <1>2 DEF StrictSubsetOrdering

\* A set of naturals has a least one.
LEMMA Least == ASSUME NEW T \in SUBSET Nat, T # {} PROVE \E m \in T : \A n \in T : m <= n
<1>1. PICK m \in T : \A n \in T : ~ (<<n, m>> \in OpToRel(<, Nat))
  BY NatLessThanWellFounded, WFMin
<1>2. ASSUME NEW n \in T, n < m PROVE FALSE
  BY <1>1, <1>2 DEF OpToRel
<1> QED
  BY <1>2

\* The fold takes an element of a set.
LEMMA PickIn == ASSUME NEW s, s # {} PROVE Pick(s) \in s
BY DEF Pick

\* The fold of a set and that of a subset agree on what they share.
LEMMA FoldUnique ==
  ASSUME NEW f, NEW S, NEW T \in SUBSET S, IsFiniteSet(T), NEW g, Fold(g, f, S), NEW h, Fold(h, f, T)
  PROVE  \A s \in SUBSET T : g[s] = h[s]
<1> DEFINE Bad == {s \in SUBSET T : g[s] # h[s]}
<1>1. SUFFICES ASSUME Bad # {} PROVE FALSE
  OBVIOUS
<1>2. PICK s \in Bad : \A t \in Bad : t \subseteq s => t = s
  <2>1. Bad \in SUBSET (SUBSET T)
    OBVIOUS
  <2> HIDE DEF Bad
  <2> QED
    BY <1>1, <2>1, Smallest
<1>3. \A t \in SUBSET T :
        /\ g[t] = IF t = {} THEN 0 ELSE f[Pick(t)] + g[t \ {Pick(t)}]
        /\ h[t] = IF t = {} THEN 0 ELSE f[Pick(t)] + h[t \ {Pick(t)}]
  BY DEF Fold
<1>4. s # {}
  BY <1>3
<1>5. s \ {Pick(s)} \notin Bad
  BY <1>2, <1>4, PickIn
<1> QED
  BY <1>3, <1>4, <1>5

\* There is such a fold.
LEMMA FoldExists == ASSUME NEW f, NEW S, IsFiniteSet(S) PROVE \E g : Fold(g, f, S)
<1> DEFINE Some(s) == CHOOSE g : Fold(g, f, s)
           Bad == {s \in SUBSET S : ~ \E g : Fold(g, f, s)}
<1>1. SUFFICES ASSUME Bad # {} PROVE FALSE
  OBVIOUS
<1>2. PICK b \in Bad : \A t \in Bad : t \subseteq b => t = b
  <2>1. Bad \in SUBSET (SUBSET S)
    OBVIOUS
  <2> HIDE DEF Bad
  <2> QED
    BY <1>1, <2>1, Smallest
<1>3. \A s \in SUBSET b : s # b => Fold(Some(s), f, s)
  BY <1>2
<1> DEFINE Below(s) == s \ {Pick(s)}
           G == [s \in SUBSET b |-> IF s = {} THEN 0 ELSE f[Pick(s)] + Some(Below(s))[Below(s)]]
<1>4. ASSUME NEW t \in SUBSET b, t # b PROVE G[t] = Some(t)[t]
  <2>1. Fold(Some(t), f, t)
    BY <1>3, <1>4
  <2>2. Some(t)[t] = IF t = {} THEN 0 ELSE f[Pick(t)] + Some(t)[Below(t)]
    BY <2>1 DEF Fold
  <2>3. CASE t = {}
    BY <2>2, <2>3
  <2>4. CASE t # {}
    <3>1. Below(t) \in SUBSET t /\ Below(t) # b /\ Below(t) \in SUBSET b
      BY <1>4, <2>4, PickIn
    <3>2. Fold(Some(Below(t)), f, Below(t))
      BY <1>3, <3>1
    <3>3. IsFiniteSet(Below(t))
      BY <3>1, FS_Subset
    <3>4. Some(t)[Below(t)] = Some(Below(t))[Below(t)]
      <4> HIDE DEF Some, Below
      <4> QED BY <2>1, <3>1, <3>2, <3>3, FoldUnique
    <3> QED
      BY <2>2, <2>4, <3>4
  <2> QED
    BY <2>3, <2>4
<1>5. \A s \in SUBSET b : s # {} => Below(s) \in SUBSET b /\ Below(s) # b
  BY PickIn
<1>6. \E g : Fold(g, f, b)
  <2>1. \A s \in SUBSET b : s # {} => G[Below(s)] = Some(Below(s))[Below(s)]
    BY <1>4, <1>5
  <2> DEFINE H == [s \in SUBSET b |-> IF s = {} THEN 0 ELSE f[Pick(s)] + G[Below(s)]]
  <2>2. G = H
    <3>1. ASSUME NEW s \in SUBSET b PROVE G[s] = H[s]
      <4>1. CASE s = {}
        BY <4>1
      <4>2. CASE s # {}
        <5>1. G[s] = f[Pick(s)] + Some(Below(s))[Below(s)]
          BY <4>2
        <5>2. H[s] = f[Pick(s)] + G[Below(s)]
          <6> HIDE DEF G, Below
          <6> QED
            BY <4>2
        <5> QED
          BY <2>1, <4>2, <5>1, <5>2
      <4> QED
        BY <4>1, <4>2
    <3>2. G = [s \in SUBSET b |-> G[s]] /\ H = [s \in SUBSET b |-> H[s]]
      OBVIOUS
    <3> HIDE DEF G, H
    <3> QED
      BY <3>1, <3>2
  <2> HIDE DEF G
  <2>3. G = [s \in SUBSET b |-> IF s = {} THEN 0 ELSE f[Pick(s)] + G[s \ {Pick(s)}]]
    BY <2>2
  <2> QED
    BY <2>3 DEF Fold
<1> QED
  BY <1>2, <1>6

\* What the fold of a finite set does at each step.
LEMMA SumPick ==
  ASSUME NEW f, NEW S, IsFiniteSet(S)
  PROVE  SumFunctionOnSet(f, S) = IF S = {} THEN 0 ELSE f[Pick(S)] + SumFunctionOnSet(f, S \ {Pick(S)})
<1> DEFINE Some(s) == CHOOSE g : Fold(g, f, s)
           T == S \ {Pick(S)}
<1>1. SumFunctionOnSet(f, S) = Some(S)[S] /\ SumFunctionOnSet(f, T) = Some(T)[T]
  BY DEF SumFunctionOnSet, FoldFunctionOnSet, MapThenFoldSet, Fold, Pick
<1>2. IsFiniteSet(T) /\ T \in SUBSET S
  BY FS_Subset
<1>3. Fold(Some(S), f, S) /\ Fold(Some(T), f, T)
  BY <1>2, FoldExists
<1>4. Some(S)[S] = IF S = {} THEN 0 ELSE f[Pick(S)] + Some(S)[T]
  BY <1>3 DEF Fold
<1>5. Some(S)[T] = Some(T)[T]
  <2> HIDE DEF Some, T
  <2> QED BY <1>2, <1>3, FoldUnique
<1> QED
  BY <1>1, <1>4, <1>5

-----------------------------------------------------------------------------
\* Nothing sums to 0.
LEMMA SumEmpty == \A f : SumFunctionOnSet(f, {}) = 0
BY SumPick, FS_EmptySet

\* A sum of integers is an integer, and one of naturals a natural.
LEMMA SumType ==
  ASSUME NEW f, NEW S, IsFiniteSet(S), \A x \in S : f[x] \in Int
  PROVE  /\ SumFunctionOnSet(f, S) \in Int
         /\ (\A x \in S : f[x] >= 0) => SumFunctionOnSet(f, S) >= 0
<1> DEFINE Good(s) == /\ SumFunctionOnSet(f, s) \in Int
                      /\ (\A x \in s : f[x] >= 0) => SumFunctionOnSet(f, s) >= 0
           Bad == {s \in SUBSET S : ~ Good(s)}
<1>1. SUFFICES ASSUME Bad # {} PROVE FALSE
  OBVIOUS
<1>2. PICK s \in Bad : \A t \in Bad : t \subseteq s => t = s
  <2>1. Bad \in SUBSET (SUBSET S)
    OBVIOUS
  <2> HIDE DEF Bad
  <2> QED
    BY <1>1, <2>1, Smallest
<1>3. s # {}
  BY SumEmpty
<1>4. Pick(s) \in s /\ s \ {Pick(s)} \notin Bad
  BY <1>2, <1>3, PickIn
<1>5. SumFunctionOnSet(f, s) = f[Pick(s)] + SumFunctionOnSet(f, s \ {Pick(s)})
  <2>1. IsFiniteSet(s)
    BY FS_Subset
  <2> QED
    BY <1>3, <2>1, SumPick
<1> QED
  BY <1>4, <1>5

\* Functions that agree on a set have the same sum over it.
LEMMA SumAgree ==
  ASSUME NEW f, NEW g, NEW S, IsFiniteSet(S), \A x \in S : f[x] = g[x]
  PROVE  SumFunctionOnSet(f, S) = SumFunctionOnSet(g, S)
<1> DEFINE Bad == {s \in SUBSET S : SumFunctionOnSet(f, s) # SumFunctionOnSet(g, s)}
<1>1. SUFFICES ASSUME Bad # {} PROVE FALSE
  OBVIOUS
<1>2. PICK s \in Bad : \A t \in Bad : t \subseteq s => t = s
  <2>1. Bad \in SUBSET (SUBSET S)
    OBVIOUS
  <2> HIDE DEF Bad
  <2> QED
    BY <1>1, <2>1, Smallest
<1>3. s # {}
  BY SumEmpty
<1>4. Pick(s) \in s /\ s \ {Pick(s)} \notin Bad
  BY <1>2, <1>3, PickIn
<1>5. /\ SumFunctionOnSet(f, s) = f[Pick(s)] + SumFunctionOnSet(f, s \ {Pick(s)})
      /\ SumFunctionOnSet(g, s) = g[Pick(s)] + SumFunctionOnSet(g, s \ {Pick(s)})
  <2>1. IsFiniteSet(s)
    BY FS_Subset
  <2> QED
    BY <1>3, <2>1, SumPick
<1> QED
  BY <1>4, <1>5

\* Terms that are 0 sum to 0.
LEMMA SumZero ==
  ASSUME NEW f, NEW S, IsFiniteSet(S), \A x \in S : f[x] = 0
  PROVE  SumFunctionOnSet(f, S) = 0
<1> DEFINE Bad == {s \in SUBSET S : SumFunctionOnSet(f, s) # 0}
<1>1. SUFFICES ASSUME Bad # {} PROVE FALSE
  OBVIOUS
<1>2. PICK s \in Bad : \A t \in Bad : t \subseteq s => t = s
  <2>1. Bad \in SUBSET (SUBSET S)
    OBVIOUS
  <2> HIDE DEF Bad
  <2> QED
    BY <1>1, <2>1, Smallest
<1>3. s # {}
  BY SumEmpty
<1>4. Pick(s) \in s /\ s \ {Pick(s)} \notin Bad
  BY <1>2, <1>3, PickIn
<1>5. SumFunctionOnSet(f, s) = f[Pick(s)] + SumFunctionOnSet(f, s \ {Pick(s)})
  <2>1. IsFiniteSet(s)
    BY FS_Subset
  <2> QED
    BY <1>3, <2>1, SumPick
<1> QED
  BY <1>4, <1>5

\* Any element may be taken out first.
LEMMA SumRemove ==
  ASSUME NEW f, NEW S, IsFiniteSet(S), \A x \in S : f[x] \in Int, NEW x \in S
  PROVE  SumFunctionOnSet(f, S) = f[x] + SumFunctionOnSet(f, S \ {x})
<1> DEFINE Good(s) == \A y \in s : SumFunctionOnSet(f, s) = f[y] + SumFunctionOnSet(f, s \ {y})
           Bad == {s \in SUBSET S : ~ Good(s)}
<1>1. SUFFICES ASSUME Bad # {} PROVE FALSE
  OBVIOUS
<1>2. PICK s \in Bad : \A t \in Bad : t \subseteq s => t = s
  <2>1. Bad \in SUBSET (SUBSET S)
    OBVIOUS
  <2> HIDE DEF Bad
  <2> QED
    BY <1>1, <2>1, Smallest
<1>3. PICK y \in s : SumFunctionOnSet(f, s) # f[y] + SumFunctionOnSet(f, s \ {y})
  BY <1>2
<1> DEFINE p == Pick(s)
<1>4. p \in s /\ \A t \in SUBSET s : IsFiniteSet(t)
  BY <1>3, PickIn, FS_Subset
<1>5. SumFunctionOnSet(f, s) = f[p] + SumFunctionOnSet(f, s \ {p})
  BY <1>3, <1>4, SumPick
<1>6. y # p
  BY <1>3, <1>5
<1>7. s \ {p} \notin Bad /\ s \ {y} \notin Bad
  BY <1>2, <1>3, <1>4
<1>8. /\ SumFunctionOnSet(f, s \ {p}) = f[y] + SumFunctionOnSet(f, (s \ {p}) \ {y})
      /\ SumFunctionOnSet(f, s \ {y}) = f[p] + SumFunctionOnSet(f, (s \ {y}) \ {p})
  BY <1>3, <1>4, <1>6, <1>7
<1>9. (s \ {p}) \ {y} = (s \ {y}) \ {p}
  OBVIOUS
<1>10. SumFunctionOnSet(f, (s \ {p}) \ {y}) \in Int /\ f[p] \in Int /\ f[y] \in Int
  <2>1. IsFiniteSet((s \ {p}) \ {y}) /\ \A z \in (s \ {p}) \ {y} : f[z] \in Int
    BY <1>4
  <2> QED
    BY <1>4, <2>1, SumType
<1> QED
  <2>1. SumFunctionOnSet(f, s) = f[p] + (f[y] + SumFunctionOnSet(f, (s \ {p}) \ {y}))
    BY <1>5, <1>8
  <2>2. f[y] + SumFunctionOnSet(f, s \ {y}) = f[y] + (f[p] + SumFunctionOnSet(f, (s \ {p}) \ {y}))
    BY <1>8, <1>9
  <2> HIDE DEF p
  <2> QED
    BY <1>3, <1>10, <2>1, <2>2

\* A change of one term changes the sum by as much.
LEMMA SumChange ==
  ASSUME NEW f, NEW g, NEW S, IsFiniteSet(S), NEW x \in S,
         \A y \in S : f[y] \in Int /\ g[y] \in Int, \A y \in S \ {x} : f[y] = g[y]
  PROVE  SumFunctionOnSet(g, S) = SumFunctionOnSet(f, S) - f[x] + g[x]
<1>1. IsFiniteSet(S \ {x})
  BY FS_Subset
<1>2. SumFunctionOnSet(f, S \ {x}) = SumFunctionOnSet(g, S \ {x})
  BY <1>1, SumAgree
<1>3. /\ SumFunctionOnSet(f, S) = f[x] + SumFunctionOnSet(f, S \ {x})
      /\ SumFunctionOnSet(g, S) = g[x] + SumFunctionOnSet(g, S \ {x})
  BY SumRemove
<1>4. SumFunctionOnSet(f, S \ {x}) \in Int
  BY <1>1, SumType
<1> QED
  BY <1>2, <1>3, <1>4

\* Terms that are not negative are left out at no gain.
LEMMA SumSubset ==
  ASSUME NEW f, NEW S, IsFiniteSet(S), \A x \in S : f[x] \in Nat, NEW T \in SUBSET S
  PROVE  SumFunctionOnSet(f, T) <= SumFunctionOnSet(f, S)
<1> DEFINE Bad == {s \in SUBSET S : ~ SumFunctionOnSet(f, T \cap s) <= SumFunctionOnSet(f, s)}
<1>1. SUFFICES ASSUME Bad # {} PROVE FALSE
  <2>1. S \notin Bad
    BY <1>1
  <2> QED
    BY <2>1, T \cap S = T
<1>2. PICK s \in Bad : \A t \in Bad : t \subseteq s => t = s
  <2>1. Bad \in SUBSET (SUBSET S)
    OBVIOUS
  <2> HIDE DEF Bad
  <2> QED
    BY <1>1, <2>1, Smallest
<1>3. s # {}
  <2>1. T \cap {} = {}
    OBVIOUS
  <2> QED
    BY <2>1, SumEmpty
<1>4. PICK x \in s : TRUE
  BY <1>3
<1>5. SumFunctionOnSet(f, T \cap (s \ {x})) <= SumFunctionOnSet(f, s \ {x})
  BY <1>2
<1>6. /\ IsFiniteSet(s) /\ IsFiniteSet(T \cap s) /\ IsFiniteSet(s \ {x})
      /\ IsFiniteSet(T \cap (s \ {x}))
  BY FS_Subset
<1>7. SumFunctionOnSet(f, s) = f[x] + SumFunctionOnSet(f, s \ {x})
  BY <1>6, SumRemove
<1>8. SumFunctionOnSet(f, s \ {x}) \in Int /\ SumFunctionOnSet(f, T \cap (s \ {x})) \in Int /\ f[x] \in Nat
  BY <1>6, SumType
<1>9. ~ SumFunctionOnSet(f, T \cap s) <= SumFunctionOnSet(f, s)
  BY <1>2
<1> HIDE DEF Bad
<1>10. CASE x \in T
  <2>1. (T \cap s) \ {x} = T \cap (s \ {x})
    OBVIOUS
  <2>2. SumFunctionOnSet(f, T \cap s) = f[x] + SumFunctionOnSet(f, (T \cap s) \ {x})
    BY <1>6, <1>10, SumRemove
  <2>3. SumFunctionOnSet(f, T \cap s) = f[x] + SumFunctionOnSet(f, T \cap (s \ {x}))
    BY <2>1, <2>2, Zenon
  <2> QED
    BY <1>5, <1>7, <1>8, <1>9, <2>3
<1>11. CASE x \notin T
  <2>1. T \cap s = T \cap (s \ {x})
    BY <1>11
  <2>2. SumFunctionOnSet(f, T \cap s) = SumFunctionOnSet(f, T \cap (s \ {x}))
    BY <2>1, Zenon
  <2> QED
    BY <1>5, <1>7, <1>8, <1>9, <2>2
<1> QED
  BY <1>10, <1>11

\* The changes between each value and the next one sum to the whole change.
LEMMA SumTelescopes ==
  ASSUME NEW n \in Nat, NEW b \in [0 .. n -> Int], NEW f, \A i \in 1 .. n : f[i] = b[i] - b[i - 1]
  PROVE  SumFunctionOnSet(f, 1 .. n) = b[n] - b[0]
<1> DEFINE Right(k) == SumFunctionOnSet(f, 1 .. k) = b[k] - b[0]
           Bad == {1 .. k : k \in {j \in 0 .. n : ~ Right(j)}}
<1>1. SUFFICES ASSUME ~ Right(n) PROVE FALSE
  OBVIOUS
<1>2. PICK s \in Bad : \A t \in Bad : t \subseteq s => t = s
  <2> DEFINE All == 1 .. n
  <2>1. Bad \in SUBSET (SUBSET All)
    <3>1. ASSUME NEW k \in 0 .. n PROVE 1 .. k \subseteq All
      OBVIOUS
    <3> HIDE DEF All, Right
    <3> QED
      BY <3>1
  <2>2. Bad # {}
    <3>1. n \in {j \in 0 .. n : ~ Right(j)}
      <4> HIDE DEF Right
      <4> QED
        BY <1>1
    <3> HIDE DEF Right
    <3> QED
      BY <3>1
  <2>3. IsFiniteSet(All)
    BY FS_Interval
  <2> HIDE DEF Bad, All
  <2> QED
    BY <2>1, <2>2, <2>3, Smallest
<1>3. PICK k \in 0 .. n : s = 1 .. k /\ ~ Right(k)
  <2> HIDE DEF Right
  <2> QED
    BY <1>2
<1>4. \A i \in 0 .. n : b[i] \in Int
  OBVIOUS
<1>5. k # 0
  <2>1. 1 .. 0 = {}
    OBVIOUS
  <2>2. b[0] \in Int
    BY <1>4
  <2> QED
    BY <1>3, <2>1, <2>2, SumEmpty
<1>6. k \in 1 .. n /\ k - 1 \in 0 .. n
  BY <1>3, <1>5
<1>7. (1 .. k) \ {k} = 1 .. (k - 1) /\ 1 .. (k - 1) \subseteq 1 .. k /\ 1 .. (k - 1) # 1 .. k
  <2> HIDE DEF Right, Bad
  <2>1. \A i : i \in 1 .. k => (i # k <=> i \in 1 .. (k - 1))
    BY <1>6
  <2>2. 1 .. (k - 1) \subseteq 1 .. k /\ k \in 1 .. k /\ k \notin 1 .. (k - 1)
    BY <1>6
  <2> QED
    BY <2>1, <2>2
<1>8. Right(k - 1)
  <2>1. 1 .. (k - 1) \notin Bad
    <3> HIDE DEF Bad
    <3> QED
      BY <1>2, <1>3, <1>7
  <2> HIDE DEF Right
  <2> QED
    BY <1>6, <2>1
<1>9. SumFunctionOnSet(f, 1 .. k) = f[k] + SumFunctionOnSet(f, 1 .. (k - 1))
  <2>1. IsFiniteSet(1 .. k)
    BY <1>6, FS_Interval
  <2>2. ASSUME NEW i \in 1 .. k PROVE f[i] \in Int
    <3>1. i \in 1 .. n /\ i \in 0 .. n /\ i - 1 \in 0 .. n
      BY <1>6
    <3> QED
      BY <1>4, <3>1
  <2>3. k \in 1 .. k
    BY <1>6
  <2>4. SumFunctionOnSet(f, 1 .. k) = f[k] + SumFunctionOnSet(f, (1 .. k) \ {k})
    <3> HIDE DEF Right, Bad
    <3>1. ASSUME NEW S, IsFiniteSet(S), \A i \in S : f[i] \in Int
          PROVE  \A x \in S : SumFunctionOnSet(f, S) = f[x] + SumFunctionOnSet(f, S \ {x})
      BY <3>1, SumRemove
    <3> QED
      BY <2>1, <2>2, <2>3, <3>1, Zenon
  <2>5. (1 .. k) \ {k} = 1 .. (k - 1)
    BY <1>7
  <2> QED
    BY <2>4, <2>5, Zenon
<1>10. f[k] = b[k] - b[k - 1] /\ b[k] \in Int /\ b[k - 1] \in Int /\ b[0] \in Int
  BY <1>4, <1>6
<1> QED
  BY <1>3, <1>8, <1>9, <1>10
=============================================================================
