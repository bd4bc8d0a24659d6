---------------------------- MODULE SumTheorems ----------------------------
(***************************************************************************)
(* Facts about finite sets of numbers that the other proofs cite: the      *)
(* greatest element, and the sum of a function over a finite set.  Each is *)
(* proved by induction on the set, in the form of the smallest subset that *)
(* would be a counterexample.                                              *)
(***************************************************************************)
EXTENDS Integers, FiniteSets, FiniteSetsExt, FiniteSetTheorems, TLAPS

\* A collection of subsets of a finite set that contains the empty set, and with
\* a set also the set and one more element, contains the finite set itself.
LEMMA SubsetInduction ==
    ASSUME NEW S, IsFiniteSet(S),
           NEW G, {} \in G,
           \A A \in SUBSET S : \A x \in S \ A : A \in G => A \cup {x} \in G
    PROVE  S \in G
<1> DEFINE Bad == {A \in SUBSET S : A \notin G}
           R == StrictSubsetOrdering(S)
<1> SUFFICES ASSUME S \notin G PROVE FALSE
  OBVIOUS
<1>1. IsWellFoundedOn(R, SUBSET S)
  <2>1. FiniteSubsetsOf(S) = SUBSET S
    BY FS_FiniteSubsetsOfFinite
  <2>2. IsWellFoundedOn(R, FiniteSubsetsOf(S))
    BY FS_StrictSubsetOrderingWellFounded
  <2> QED
    BY <2>1, <2>2, Zenon
<1>2. Bad \subseteq SUBSET S /\ Bad # {}
  OBVIOUS
<1>3. PICK A \in Bad : \A B \in Bad : ~ (<<B, A>> \in R)
  <2> HIDE DEF Bad, R
  <2> QED
    BY <1>1, <1>2, WFMin
<1>4. PICK x : x \in A
  BY Zenon
<1>5. A \ {x} \in SUBSET S /\ A \ {x} # A /\ A \ {x} \subseteq A
  BY <1>4
<1>6. <<A \ {x}, A>> \in R
  BY <1>5 DEF StrictSubsetOrdering
<1>7. A \ {x} \in G
  BY <1>3, <1>5, <1>6
<1>8. (A \ {x}) \cup {x} \in G
  BY <1>4, <1>5, <1>7
<1> QED
  BY <1>4, <1>8

\* A finite set of numbers that is not empty has a greatest element.
LEMMA MaxOfFinite ==
    ASSUME NEW S \in SUBSET Int, IsFiniteSet(S), S # {}
    PROVE  Max(S) \in S /\ \A y \in S : Max(S) >= y
<1> DEFINE G == {A \in SUBSET S : A # {} => \E x \in A : \A y \in A : x >= y}
<1>1. {} \in G
  OBVIOUS
<1>2. ASSUME NEW A \in SUBSET S, NEW x \in S \ A, A \in G
      PROVE  A \cup {x} \in G
  <2>1. CASE A = {}
    BY <2>1
  <2>2. CASE A # {}
    <3>1. PICK m \in A : \A y \in A : m >= y
      BY <1>2, <2>2
    <3>2. CASE m >= x
      BY <3>1, <3>2
    <3>3. CASE ~ (m >= x)
      <4>1. \A y \in A \cup {x} : x >= y
        BY <3>1, <3>3
      <4> QED
        BY <4>1
    <3> QED
      BY <3>2, <3>3
  <2> QED
    BY <2>1, <2>2
<1>3. S \in G
  <2> HIDE DEF G
  <2> QED
    BY <1>1, <1>2, SubsetInduction, Zenon
<1> QED
  BY <1>3, Zenon DEF Max

\* The same as SubsetInduction where a set's place in the collection follows from
\* that of all its proper subsets.
LEMMA StrongSubsetInduction ==
    ASSUME NEW S, IsFiniteSet(S), NEW G,
           \A A \in SUBSET S : (\A B \in SUBSET A : B # A => B \in G) => A \in G
    PROVE  \A A \in SUBSET S : A \in G
<1> DEFINE Bad == {A \in SUBSET S : A \notin G}
           R == StrictSubsetOrdering(S)
<1> SUFFICES ASSUME Bad # {} PROVE FALSE
  OBVIOUS
<1>1. IsWellFoundedOn(R, SUBSET S)
  <2>1. FiniteSubsetsOf(S) = SUBSET S
    BY FS_FiniteSubsetsOfFinite
  <2>2. IsWellFoundedOn(R, FiniteSubsetsOf(S))
    BY FS_StrictSubsetOrderingWellFounded
  <2> QED
    BY <2>1, <2>2, Zenon
<1>2. Bad \subseteq SUBSET S
  OBVIOUS
<1>3. PICK A \in Bad : \A B \in Bad : ~ (<<B, A>> \in R)
  <2> HIDE DEF Bad, R
  <2> QED
    BY <1>1, <1>2, WFMin
<1>4. ASSUME NEW B \in SUBSET A, B # A
      PROVE  B \in G
  <2>1. B \in SUBSET S /\ <<B, A>> \in R
    BY <1>4 DEF StrictSubsetOrdering
  <2> QED
    BY <1>3, <2>1
<1> QED
  BY <1>4

-----------------------------------------------------------------------------
(* Sums                                                                    *)

Pick(s) == CHOOSE x \in s : TRUE

\* g sums f over every subset of S, one picked element at a time.
IsSum(f, S, g) ==
    g = [s \in SUBSET S |->
           IF s = {} THEN 0 ELSE f[Pick(s)] + g[s \ {Pick(s)}]]

\* The sum is a value of the recursive function the fold defines.
LEMMA SumDefinition ==
    ASSUME NEW f, NEW S
    PROVE  SumFunctionOnSet(f, S) = (CHOOSE g : IsSum(f, S, g))[S]
  BY Zenon DEF SumFunctionOnSet, FoldFunctionOnSet, MapThenFoldSet, IsSum, Pick

\* The fold picks a member of its set.
LEMMA PickMember ==
    ASSUME NEW s, s # {}
    PROVE  Pick(s) \in s
  BY DEF Pick

\* The equations of the fold.
LEMMA IsSumAt ==
    ASSUME NEW f, NEW S, NEW g, IsSum(f, S, g), NEW s \in SUBSET S
    PROVE  /\ s = {} => g[s] = 0
           /\ s # {} => g[s] = f[Pick(s)] + g[s \ {Pick(s)}]
<1> DEFINE e(t) == IF t = {} THEN 0 ELSE f[Pick(t)] + g[t \ {Pick(t)}]
<1>1. g = [t \in SUBSET S |-> e(t)]
  BY Zenon DEF IsSum
<1> HIDE DEF e
<1>2. g[s] = e(s)
  BY <1>1
<1> QED
  BY <1>2 DEF e

\* Two such functions agree where both are defined.
LEMMA SumUnique ==
    ASSUME NEW f, NEW S, NEW g, IsSum(f, S, g), NEW T, NEW h, IsSum(f, T, h),
           IsFiniteSet(T), T \subseteq S
    PROVE  \A A \in SUBSET T : g[A] = h[A]
<1> DEFINE G == {A \in SUBSET T : g[A] = h[A]}
<1>1. ASSUME NEW A \in SUBSET T, \A B \in SUBSET A : B # A => B \in G
      PROVE  A \in G
  <2>1. CASE A = {}
    BY <2>1, IsSumAt
  <2>2. CASE A # {}
    <3>1. Pick(A) \in A
      BY <2>2, PickMember
    <3>2. A \ {Pick(A)} \in SUBSET A /\ A \ {Pick(A)} # A
      BY <3>1
    <3>3. g[A \ {Pick(A)}] = h[A \ {Pick(A)}]
      BY <1>1, <3>2
    <3>4. /\ g[A] = f[Pick(A)] + g[A \ {Pick(A)}]
          /\ h[A] = f[Pick(A)] + h[A \ {Pick(A)}]
      <4>1. A \in SUBSET S
        OBVIOUS
      <4> QED
        BY <2>2, <4>1, IsSumAt
    <3> QED
      BY <3>3, <3>4
  <2> QED
    BY <2>1, <2>2
<1>2. \A A \in SUBSET T : A \in G
  <2> HIDE DEF G
  <2> QED
    BY <1>1, StrongSubsetInduction
<1> QED
  BY <1>2

\* There is such a function for every finite set.
LEMMA SumExists ==
    ASSUME NEW f, NEW S, IsFiniteSet(S)
    PROVE  \E g : IsSum(f, S, g)
<1> DEFINE sum(A) == CHOOSE g : IsSum(f, A, g)
           G == {A \in SUBSET S : \E g : IsSum(f, A, g)}
<1>1. ASSUME NEW A \in SUBSET S, \A B \in SUBSET A : B # A => B \in G
      PROVE  A \in G
  <2> DEFINE rest(B) == B \ {Pick(B)}
             below(B) == IF B = {} THEN 0 ELSE f[Pick(B)] + sum(rest(B))[rest(B)]
             g == [B \in SUBSET A |-> below(B)]
  <2>1. ASSUME NEW B \in SUBSET A, B # {}
        PROVE  sum(rest(B))[rest(B)] = g[rest(B)]
    <3> DEFINE C == rest(B)
    <3>1. Pick(B) \in B
      BY <2>1, PickMember
    <3>2. C \in SUBSET A /\ C # A /\ C \subseteq S
      BY <3>1
    <3>3. C \in G
      BY <1>1, <3>2
    <3>4. IsSum(f, C, sum(C))
      BY <3>3
    <3>5. CASE C = {}
      <4>1. sum(C)[C] = 0
        <5> HIDE DEF sum, rest
        <5> QED
          BY <3>4, <3>5, IsSumAt
      <4>2. g[C] = 0
        BY <3>2, <3>5
      <4> QED
        BY <4>1, <4>2
    <3>6. CASE C # {}
      <4>1. Pick(C) \in C
        BY <3>6, PickMember
      <4>2. rest(C) \in SUBSET C /\ rest(C) # A /\ rest(C) \in SUBSET A
        BY <3>2, <4>1
      <4>3. rest(C) \in G
        BY <1>1, <4>2, Zenon
      <4>4. IsSum(f, rest(C), sum(rest(C)))
        BY <4>3
      <4>5. IsFiniteSet(rest(C))
        BY <3>2, <4>2, FS_Subset
      <4>6. sum(C)[rest(C)] = sum(rest(C))[rest(C)]
        <5> DEFINE D == rest(C)
        <5>1. D \subseteq C /\ D \in SUBSET D
          BY <4>2
        <5> HIDE DEF sum, C, D
        <5> QED
          BY <3>4, <4>4, <4>5, <5>1, SumUnique DEF D
      <4>7. sum(C)[C] = f[Pick(C)] + sum(C)[rest(C)]
        <5>1. C \in SUBSET C /\ rest(C) = C \ {Pick(C)}
          OBVIOUS
        <5> HIDE DEF sum, C, rest
        <5> QED
          BY <3>4, <3>6, <5>1, IsSumAt
      <4>8. g[C] = f[Pick(C)] + sum(rest(C))[rest(C)]
        <5>1. g[C] = below(C)
          BY <3>2
        <5> HIDE DEF C, sum, rest, g
        <5> QED
          BY <3>6, <5>1
      <4> HIDE DEF sum, g, rest
      <4> QED
        BY <4>6, <4>7, <4>8
    <3> QED
      BY <3>5, <3>6
  <2>2. ASSUME NEW B \in SUBSET A
        PROVE  g[B] = IF B = {} THEN 0 ELSE f[Pick(B)] + g[B \ {Pick(B)}]
    <3>1. g[B] = below(B)
      OBVIOUS
    <3> HIDE DEF g, sum
    <3> QED
      BY <2>1, <3>1
  <2>3. IsSum(f, A, g)
    <3>1. g = [B \in SUBSET A |-> g[B]]
      OBVIOUS
    <3> HIDE DEF g
    <3> QED
      BY <2>2, <3>1, Zenon DEF IsSum
  <2> QED
    BY <2>3
<1>2. S \in G
  <2> HIDE DEF G
  <2> QED
    BY <1>1, StrongSubsetInduction
<1> QED
  BY <1>2

\* The sum over a finite set, by the element that is picked first.
LEMMA SumByPick ==
    ASSUME NEW f, NEW S, IsFiniteSet(S)
    PROVE  /\ S = {} => SumFunctionOnSet(f, S) = 0
           /\ S # {} => SumFunctionOnSet(f, S) =
                          f[Pick(S)] + SumFunctionOnSet(f, S \ {Pick(S)})
<1> DEFINE sum(A) == CHOOSE g : IsSum(f, A, g)
           T == S \ {Pick(S)}
<1>1. IsFiniteSet(T) /\ T \subseteq S /\ T \in SUBSET T /\ S \in SUBSET S
  BY FS_Subset
<1>2. IsSum(f, S, sum(S)) /\ IsSum(f, T, sum(T))
  <2>1. \E g : IsSum(f, S, g)
    BY SumExists
  <2>2. \E g : IsSum(f, T, g)
    <3> HIDE DEF T
    <3> QED
      BY <1>1, SumExists
  <2> HIDE DEF T
  <2> QED
    BY <2>1, <2>2
<1>3. SumFunctionOnSet(f, S) = sum(S)[S] /\ SumFunctionOnSet(f, T) = sum(T)[T]
  BY SumDefinition, Zenon
<1> HIDE DEF sum
<1>4. sum(S)[T] = sum(T)[T]
  <2> HIDE DEF T
  <2> QED
    BY <1>1, <1>2, SumUnique
<1>5. /\ S = {} => sum(S)[S] = 0
      /\ S # {} => sum(S)[S] = f[Pick(S)] + sum(S)[T]
  BY <1>1, <1>2, IsSumAt
<1> QED
  BY <1>3, <1>4, <1>5

\* The sum of integers is one.
LEMMA SumType ==
    ASSUME NEW f, NEW S, IsFiniteSet(S), \A x \in S : f[x] \in Int
    PROVE  SumFunctionOnSet(f, S) \in Int
<1> DEFINE G == {A \in SUBSET S : SumFunctionOnSet(f, A) \in Int}
<1>1. ASSUME NEW A \in SUBSET S, \A B \in SUBSET A : B # A => B \in G
      PROVE  A \in G
  <2>1. IsFiniteSet(A)
    BY FS_Subset
  <2>2. CASE A = {}
    <3>1. SumFunctionOnSet(f, A) = 0
      BY <2>1, <2>2, SumByPick, Zenon
    <3> QED
      BY <3>1
  <2>3. CASE A # {}
    <3>1. Pick(A) \in A
      BY <2>3, PickMember
    <3>2. A \ {Pick(A)} \in SUBSET A /\ A \ {Pick(A)} # A
      BY <3>1
    <3>3. SumFunctionOnSet(f, A \ {Pick(A)}) \in Int /\ f[Pick(A)] \in Int
      BY <1>1, <3>1, <3>2
    <3>4. SumFunctionOnSet(f, A) = f[Pick(A)] + SumFunctionOnSet(f, A \ {Pick(A)})
      BY <2>1, <2>3, SumByPick
    <3> QED
      BY <3>3, <3>4
  <2> QED
    BY <2>2, <2>3
<1>2. S \in G
  <2> HIDE DEF G
  <2> QED
    BY <1>1, StrongSubsetInduction
<1> QED
  BY <1>2

\* Any element may be taken first.
LEMMA SumRemove ==
    ASSUME NEW f, NEW S, IsFiniteSet(S), \A x \in S : f[x] \in Int
    PROVE  \A x \in S :
              SumFunctionOnSet(f, S) = f[x] + SumFunctionOnSet(f, S \ {x})
<1> DEFINE G == {A \in SUBSET S : \A x \in A :
                   SumFunctionOnSet(f, A) = f[x] + SumFunctionOnSet(f, A \ {x})}
<1>1. ASSUME NEW A \in SUBSET S, \A B \in SUBSET A : B # A => B \in G
      PROVE  A \in G
  <2> SUFFICES ASSUME NEW x \in A
               PROVE  SumFunctionOnSet(f, A) = f[x] + SumFunctionOnSet(f, A \ {x})
    OBVIOUS
  <2> DEFINE c == Pick(A)
  <2>1. IsFiniteSet(A) /\ IsFiniteSet(A \ {x}) /\ IsFiniteSet(A \ {c})
    BY FS_Subset
  <2>2. c \in A
    BY PickMember
  <2>3. SumFunctionOnSet(f, A) = f[c] + SumFunctionOnSet(f, A \ {c})
    BY <2>1, SumByPick
  <2> HIDE DEF c
  <2>4. CASE x = c
    BY <2>3, <2>4
  <2>5. CASE x # c
    <3> DEFINE B == (A \ {c}) \ {x}
               s == SumFunctionOnSet(f, B)
    <3>1. B = (A \ {x}) \ {c} /\ B \subseteq S
      OBVIOUS
    <3>2. IsFiniteSet(B)
      BY <2>1, FS_Subset
    <3>3. s \in Int /\ f[c] \in Int /\ f[x] \in Int
      <4> HIDE DEF B
      <4> QED
        BY <2>2, <3>1, <3>2, SumType
    <3>4. SumFunctionOnSet(f, A \ {c}) = f[x] + s
      <4>1. A \ {c} \in SUBSET A /\ A \ {c} # A /\ x \in A \ {c}
        BY <2>2, <2>5
      <4> QED
        BY <1>1, <4>1
    <3>5. SumFunctionOnSet(f, A \ {x}) = f[c] + s
      <4>1. A \ {x} \in SUBSET A /\ A \ {x} # A /\ c \in A \ {x}
        BY <2>2, <2>5
      <4>2. SumFunctionOnSet(f, A \ {x}) =
               f[c] + SumFunctionOnSet(f, (A \ {x}) \ {c})
        BY <1>1, <4>1
      <4> QED
        BY <3>1, <4>2
    <3> HIDE DEF s
    <3> QED
      BY <2>3, <3>3, <3>4, <3>5
  <2> QED
    BY <2>4, <2>5
<1>2. S \in G
  <2> HIDE DEF G
  <2> QED
    BY <1>1, StrongSubsetInduction
<1> QED
  BY <1>2

\* The sum over no element, and over one element more.
LEMMA SumAdd ==
    ASSUME NEW f, NEW S, IsFiniteSet(S), NEW x, x \notin S,
           \A y \in S \cup {x} : f[y] \in Int
    PROVE  /\ SumFunctionOnSet(f, {}) = 0
           /\ SumFunctionOnSet(f, S \cup {x}) = SumFunctionOnSet(f, S) + f[x]
<1>1. SumFunctionOnSet(f, {}) = 0
  <2>1. IsFiniteSet({})
    BY FS_EmptySet
  <2> QED
    BY <2>1, SumByPick, Zenon
<1> DEFINE T == S \cup {x}
<1>2. IsFiniteSet(T) /\ x \in T /\ T \ {x} = S
  BY FS_AddElement
<1>3. \A y \in T : f[y] \in Int
  OBVIOUS
<1> HIDE DEF T
<1>4. SumFunctionOnSet(f, T) = f[x] + SumFunctionOnSet(f, T \ {x})
  BY <1>2, <1>3, SumRemove
<1>5. SumFunctionOnSet(f, S) \in Int /\ f[x] \in Int
  BY <1>2, <1>3, SumType DEF T
<1>6. SumFunctionOnSet(f, T) = SumFunctionOnSet(f, S) + f[x]
  <2>1. SumFunctionOnSet(f, T) = f[x] + SumFunctionOnSet(f, S)
    BY <1>2, <1>4
  <2> QED
    BY <1>5, <2>1
<1> QED
  BY <1>1, <1>6 DEF T

\* The larger the terms, the larger the sum.
LEMMA SumMonotone ==
    ASSUME NEW f, NEW g, NEW S, IsFiniteSet(S),
           \A x \in S : f[x] \in Int /\ g[x] \in Int /\ f[x] <= g[x]
    PROVE  SumFunctionOnSet(f, S) <= SumFunctionOnSet(g, S)
<1> DEFINE G == {A \in SUBSET S : SumFunctionOnSet(f, A) <= SumFunctionOnSet(g, A)}
<1>1. ASSUME NEW A \in SUBSET S, \A B \in SUBSET A : B # A => B \in G
      PROVE  A \in G
  <2> DEFINE c == Pick(A)
             B == A \ {c}
  <2>1. IsFiniteSet(A) /\ IsFiniteSet(B)
    BY FS_Subset
  <2>2. CASE A = {}
    <3>1. SumFunctionOnSet(f, A) = 0 /\ SumFunctionOnSet(g, A) = 0
      BY <2>1, <2>2, SumByPick, Zenon
    <3> QED
      BY <3>1
  <2>3. CASE A # {}
    <3>1. c \in A
      BY <2>3, PickMember
    <3>2. B \in SUBSET A /\ B # A
      BY <3>1
    <3>3. SumFunctionOnSet(f, B) <= SumFunctionOnSet(g, B)
      BY <1>1, <3>2
    <3>4. /\ SumFunctionOnSet(f, A) = f[c] + SumFunctionOnSet(f, B)
          /\ SumFunctionOnSet(g, A) = g[c] + SumFunctionOnSet(g, B)
      BY <2>1, <2>3, SumByPick
    <3>5. SumFunctionOnSet(f, B) \in Int /\ SumFunctionOnSet(g, B) \in Int
      <4> HIDE DEF B
      <4> QED
        BY <2>1, <3>2, SumType
    <3>6. f[c] \in Int /\ g[c] \in Int /\ f[c] <= g[c]
      BY <3>1
    <3> HIDE DEF B, c
    <3> QED
      BY <3>3, <3>4, <3>5, <3>6
  <2> QED
    BY <2>2, <2>3
<1>2. S \in G
  <2> HIDE DEF G
  <2> QED
    BY <1>1, StrongSubsetInduction
<1> QED
  BY <1>2

\* Only the terms over the set count.
LEMMA SumSame ==
    ASSUME NEW f, NEW g, NEW S, IsFiniteSet(S),
           \A x \in S : f[x] \in Int /\ g[x] = f[x]
    PROVE  SumFunctionOnSet(g, S) = SumFunctionOnSet(f, S)
<1>1. /\ \A x \in S : f[x] \in Int /\ g[x] \in Int /\ f[x] <= g[x]
      /\ \A x \in S : f[x] \in Int /\ g[x] \in Int /\ g[x] <= f[x]
  OBVIOUS
<1>2. /\ SumFunctionOnSet(f, S) <= SumFunctionOnSet(g, S)
      /\ SumFunctionOnSet(g, S) <= SumFunctionOnSet(f, S)
  BY <1>1, SumMonotone
<1>3. SumFunctionOnSet(f, S) \in Int /\ SumFunctionOnSet(g, S) \in Int
  BY <1>1, SumType
<1> QED
  BY <1>2, <1>3

\* A change of one term changes the sum by as much.
LEMMA SumUpdate ==
    ASSUME NEW f, NEW g, NEW S, IsFiniteSet(S), NEW x \in S,
           f[x] \in Int, g[x] \in Int,
           \A y \in S \ {x} : f[y] \in Int /\ g[y] = f[y]
    PROVE  SumFunctionOnSet(g, S) = SumFunctionOnSet(f, S) + g[x] - f[x]
<1> DEFINE T == S \ {x}
<1>1. IsFiniteSet(T)
  BY FS_Subset
<1>2. /\ SumFunctionOnSet(f, S) = f[x] + SumFunctionOnSet(f, T)
      /\ SumFunctionOnSet(g, S) = g[x] + SumFunctionOnSet(g, T)
  <2>1. \A y \in S : f[y] \in Int /\ g[y] \in Int
    OBVIOUS
  <2> QED
    BY <2>1, SumRemove
<1>3. /\ SumFunctionOnSet(g, T) = SumFunctionOnSet(f, T)
      /\ SumFunctionOnSet(f, T) \in Int
  <2>1. \A y \in T : f[y] \in Int /\ g[y] = f[y]
    OBVIOUS
  <2> HIDE DEF T
  <2> QED
    BY <1>1, <2>1, SumSame, SumType
<1> HIDE DEF T
<1> QED
  BY <1>2, <1>3

\* The sum over a set less some of its elements.
LEMMA SumMinus ==
    ASSUME NEW f, NEW S, IsFiniteSet(S), NEW T \in SUBSET S,
           \A x \in S : f[x] \in Int
    PROVE  SumFunctionOnSet(f, S \ T) = SumFunctionOnSet(f, S) - SumFunctionOnSet(f, T)
<1> DEFINE G == {A \in SUBSET T : SumFunctionOnSet(f, S \ A) =
                    SumFunctionOnSet(f, S) - SumFunctionOnSet(f, A)}
<1>0. IsFiniteSet(T)
  BY FS_Subset
<1>1. ASSUME NEW A \in SUBSET T, \A B \in SUBSET A : B # A => B \in G
      PROVE  A \in G
  <2> DEFINE c == Pick(A)
             B == A \ {c}
             all == SumFunctionOnSet(f, S)
  <2>1. IsFiniteSet(A) /\ IsFiniteSet(B) /\ IsFiniteSet(S \ B) /\ IsFiniteSet(S \ A)
    BY FS_Subset
  <2>0. all \in Int
    BY SumType
  <2>2. CASE A = {}
    <3>1. SumFunctionOnSet(f, A) = 0
      BY <2>1, <2>2, SumByPick, Zenon
    <3>2. S \ A = S
      BY <2>2
    <3>3. SumFunctionOnSet(f, S \ A) = all - SumFunctionOnSet(f, A)
      <4>1. all = all - 0
        BY <2>0
      <4> QED
        BY <3>1, <3>2, <4>1
    <3> QED
      BY <3>3
  <2>3. CASE A # {}
    <3>1. c \in A /\ c \in S /\ c \in S \ B
      BY <2>3, PickMember
    <3>2. B \in SUBSET A /\ B # A /\ B \subseteq S /\ (S \ B) \ {c} = S \ A
      BY <3>1
    <3>3. SumFunctionOnSet(f, S \ B) = all - SumFunctionOnSet(f, B)
      BY <1>1, <3>2
    <3>4. SumFunctionOnSet(f, A) = f[c] + SumFunctionOnSet(f, B)
      BY <2>1, <2>3, SumByPick
    <3>5. SumFunctionOnSet(f, S \ B) = f[c] + SumFunctionOnSet(f, S \ A)
      <4> DEFINE C == S \ B
      <4>1. IsFiniteSet(C) /\ c \in C /\ C \ {c} = S \ A /\ \A x \in C : f[x] \in Int
        BY <2>1, <3>1, <3>2
      <4> HIDE DEF C
      <4>2. SumFunctionOnSet(f, C) = f[c] + SumFunctionOnSet(f, C \ {c})
        BY <4>1, SumRemove
      <4> QED
        BY <4>1, <4>2 DEF C
    <3>6. /\ SumFunctionOnSet(f, B) \in Int
          /\ SumFunctionOnSet(f, S \ A) \in Int
          /\ f[c] \in Int
      <4>1. f[c] \in Int /\ \A x \in S \ A : f[x] \in Int
        BY <3>1
      <4>2. \A x \in B : f[x] \in Int
        BY <3>2
      <4> HIDE DEF B
      <4> QED
        BY <2>1, <4>1, <4>2, SumType
    <3>7. SumFunctionOnSet(f, S \ A) = all - SumFunctionOnSet(f, A)
      <4> HIDE DEF B, c, all
      <4> QED
        BY <2>0, <3>3, <3>4, <3>5, <3>6
    <3> QED
      BY <3>7
  <2> QED
    BY <2>2, <2>3
<1>2. T \in G
  <2> HIDE DEF G
  <2> QED
    BY <1>0, <1>1, StrongSubsetInduction, Zenon
<1> QED
  BY <1>2

\* The sum of natural numbers is one, and the sum of zeros is zero.
LEMMA SumNat ==
    ASSUME NEW f, NEW S, IsFiniteSet(S), \A x \in S : f[x] \in Nat
    PROVE  /\ SumFunctionOnSet(f, S) \in Nat
           /\ (\A x \in S : f[x] = 0) => SumFunctionOnSet(f, S) = 0
<1> DEFINE G == {A \in SUBSET S :
                   /\ SumFunctionOnSet(f, A) \in Nat
                   /\ (\A x \in A : f[x] = 0) => SumFunctionOnSet(f, A) = 0}
<1>1. ASSUME NEW A \in SUBSET S, \A B \in SUBSET A : B # A => B \in G
      PROVE  A \in G
  <2> DEFINE c == Pick(A)
             B == A \ {c}
  <2>1. IsFiniteSet(A)
    BY FS_Subset
  <2>2. CASE A = {}
    <3>1. SumFunctionOnSet(f, A) = 0
      BY <2>1, <2>2, SumByPick, Zenon
    <3> QED
      BY <3>1
  <2>3. CASE A # {}
    <3>1. c \in A
      BY <2>3, PickMember
    <3>2. B \in SUBSET A /\ B # A
      BY <3>1
    <3>3. /\ SumFunctionOnSet(f, B) \in Nat
          /\ (\A x \in B : f[x] = 0) => SumFunctionOnSet(f, B) = 0
      BY <1>1, <3>2
    <3>4. SumFunctionOnSet(f, A) = f[c] + SumFunctionOnSet(f, B)
      BY <2>1, <2>3, SumByPick
    <3>5. f[c] \in Nat /\ ((\A x \in A : f[x] = 0) => f[c] = 0)
      BY <3>1
    <3>6. (\A x \in A : f[x] = 0) => (\A x \in B : f[x] = 0)
      BY <3>2
    <3> HIDE DEF B, c
    <3>7. SumFunctionOnSet(f, A) \in Nat
      BY <3>3, <3>4, <3>5
    <3>8. (\A x \in A : f[x] = 0) => SumFunctionOnSet(f, A) = 0
      BY <3>3, <3>4, <3>5, <3>6
    <3> QED
      BY <3>7, <3>8
  <2> QED
    BY <2>2, <2>3
<1>2. S \in G
  <2> HIDE DEF G
  <2> QED
    BY <1>1, StrongSubsetInduction
<1> QED
  BY <1>2

\* A part of a sum of natural numbers is at most the whole.
LEMMA SumPart ==
    ASSUME NEW f, NEW S, IsFiniteSet(S), NEW T \in SUBSET S,
           \A x \in S : f[x] \in Nat
    PROVE  SumFunctionOnSet(f, T) <= SumFunctionOnSet(f, S)
<1>1. IsFiniteSet(T) /\ IsFiniteSet(S \ T)
  BY FS_Subset
<1>2. /\ SumFunctionOnSet(f, S) \in Nat
      /\ SumFunctionOnSet(f, T) \in Nat
      /\ SumFunctionOnSet(f, S \ T) \in Nat
  BY <1>1, SumNat
<1>3. SumFunctionOnSet(f, S \ T) = SumFunctionOnSet(f, S) - SumFunctionOnSet(f, T)
  <2>1. \A x \in S : f[x] \in Int
    OBVIOUS
  <2> QED
    BY <2>1, SumMinus
<1> QED
  BY <1>2, <1>3

\* The sum of sums.
LEMMA SumPlus ==
    ASSUME NEW f, NEW g, NEW h, NEW S, IsFiniteSet(S),
           \A x \in S : f[x] \in Int /\ g[x] \in Int /\ h[x] = f[x] + g[x]
    PROVE  SumFunctionOnSet(h, S) = SumFunctionOnSet(f, S) + SumFunctionOnSet(g, S)
<1> DEFINE G == {A \in SUBSET S : SumFunctionOnSet(h, A) =
                   SumFunctionOnSet(f, A) + SumFunctionOnSet(g, A)}
<1>1. \A x \in S : f[x] \in Int /\ g[x] \in Int /\ h[x] \in Int
  OBVIOUS
<1>2. {} \in G
  <2>1. \A e : SumFunctionOnSet(e, {}) = 0
    BY FS_EmptySet, SumByPick, Zenon
  <2> QED
    BY <2>1
<1>3. ASSUME NEW A \in SUBSET S, NEW x \in S \ A, A \in G
      PROVE  A \cup {x} \in G
  <2>1. IsFiniteSet(A)
    BY FS_Subset
  <2>2. /\ SumFunctionOnSet(f, A) \in Int
        /\ SumFunctionOnSet(g, A) \in Int
        /\ SumFunctionOnSet(h, A) \in Int
    BY <1>1, <2>1, SumType
  <2>3. SumFunctionOnSet(f, A \cup {x}) = SumFunctionOnSet(f, A) + f[x]
    BY <1>1, <2>1, SumAdd
  <2>4. SumFunctionOnSet(g, A \cup {x}) = SumFunctionOnSet(g, A) + g[x]
    BY <1>1, <2>1, SumAdd
  <2>5. SumFunctionOnSet(h, A \cup {x}) = SumFunctionOnSet(h, A) + h[x]
    BY <1>1, <2>1, SumAdd
  <2> QED
    BY <1>3, <2>2, <2>3, <2>4, <2>5
<1>4. S \in G
  <2> HIDE DEF G
  <2> QED
    BY <1>2, <1>3, SubsetInduction, Zenon
<1> QED
  BY <1>4

\* The sum of multiples.
LEMMA SumScale ==
    ASSUME NEW f, NEW g, NEW c \in Int, NEW S, IsFiniteSet(S),
           \A x \in S : f[x] \in Int /\ g[x] = c * f[x]
    PROVE  SumFunctionOnSet(g, S) = c * SumFunctionOnSet(f, S)
<1> DEFINE G == {A \in SUBSET S : SumFunctionOnSet(g, A) = c * SumFunctionOnSet(f, A)}
<1>1. \A x \in S : f[x] \in Int /\ g[x] \in Int
  OBVIOUS
<1>2. {} \in G
  <2>1. \A e : SumFunctionOnSet(e, {}) = 0
    BY FS_EmptySet, SumByPick, Zenon
  <2> QED
    BY <2>1
<1>3. ASSUME NEW A \in SUBSET S, NEW x \in S \ A, A \in G
      PROVE  A \cup {x} \in G
  <2>1. IsFiniteSet(A)
    BY FS_Subset
  <2>2. PICK m \in Int : m = SumFunctionOnSet(f, A)
    BY <1>1, <2>1, SumType
  <2>3. SumFunctionOnSet(f, A \cup {x}) = m + f[x]
    BY <1>1, <2>1, <2>2, SumAdd
  <2>4. SumFunctionOnSet(g, A \cup {x}) = c * m + c * f[x]
    BY <1>1, <1>3, <2>1, <2>2, SumAdd
  <2>5. c * m + c * f[x] = c * (m + f[x])
    BY <1>1
  <2> QED
    BY <2>3, <2>4, <2>5
<1>4. S \in G
  <2> HIDE DEF G
  <2> QED
    BY <1>2, <1>3, SubsetInduction, Zenon
<1> QED
  BY <1>4
=============================================================================
