---------------------------- MODULE SumTheorems ----------------------------
(***************************************************************************)
(* Sums of a function over a finite set, as SumFunctionOnSet of Functions  *)
(* computes them: what the invariants about money, coupons and stock need  *)
(* to know of them.  Everything is by induction on a finite set, in the    *)
(* form the provers can use: a set of subsets that is not empty has one    *)
(* of which nothing can be taken away without leaving it (SmallestBad).    *)
(***************************************************************************)
EXTENDS Integers, FiniteSetsExt, FiniteSetTheorems, WellFoundedInduction, TLAPS

-----------------------------------------------------------------------------
(* Induction                                                               *)

\* A counterexample that is as small as can be.
LEMMA SmallestBad ==
  ASSUME NEW S, IsFiniteSet(S), NEW Bad \in SUBSET (SUBSET S), Bad # {}
  PROVE  \E T \in Bad : IsFiniteSet(T) /\ \A x \in T : T \ {x} \notin Bad
<1>1. FiniteSubsetsOf(S) = SUBSET S
  BY FS_FiniteSubsetsOfFinite
<1>2. IsWellFoundedOn(StrictSubsetOrdering(S), SUBSET S)
  BY <1>1, FS_StrictSubsetOrderingWellFounded
<1>3. PICK T \in Bad : \A U \in Bad : <<U, T>> \notin StrictSubsetOrdering(S)
  BY <1>2, WFMin
<1>4. ASSUME NEW x \in T, T \ {x} \in Bad PROVE FALSE
  BY <1>3, <1>4 DEF StrictSubsetOrdering
<1>5. IsFiniteSet(T)
  BY FS_Subset
<1> QED
  BY <1>3, <1>4, <1>5

-----------------------------------------------------------------------------
(* The sum is what its recursion says                                      *)

\* g computes the sums of f over the subsets of S, as the library's fold does.
Sums(f, S, g) ==
  g = [s \in SUBSET S |->
         IF s = {} THEN 0
         ELSE LET x == CHOOSE x \in s : TRUE IN f[x] + g[s \ {x}]]

\* The definition of the library, unfolded.
LEMMA SumIsRecursive ==
  ASSUME NEW f, NEW S
  PROVE  SumFunctionOnSet(f, S) = (CHOOSE g : Sums(f, S, g))[S]
BY DEF SumFunctionOnSet, FoldFunctionOnSet, MapThenFoldSet, Sums

\* Two that sum the same f agree where both do.
LEMMA SumsAgree ==
  ASSUME NEW f, NEW S, IsFiniteSet(S), NEW T, NEW g, NEW h,
         Sums(f, S, g), Sums(f, T, h)
  PROVE  \A U \in SUBSET S : U \subseteq T => g[U] = h[U]
<1> DEFINE Bad == {U \in SUBSET S : U \subseteq T /\ g[U] # h[U]}
<1> SUFFICES ASSUME Bad # {} PROVE FALSE
  OBVIOUS
<1>1. PICK U \in Bad : \A x \in U : U \ {x} \notin Bad
  <2> HIDE DEF Bad
  <2>1. Bad \in SUBSET (SUBSET S)
    BY DEF Bad
  <2> QED
    BY <2>1, SmallestBad
<1>2. U \in SUBSET S /\ U \in SUBSET T
  OBVIOUS
<1>3. CASE U = {}
  BY <1>2, <1>3 DEF Sums
<1>4. CASE U # {}
  <2>1. PICK x : x = CHOOSE y \in U : TRUE
    OBVIOUS
  <2>2. x \in U
    BY <1>4, <2>1
  <2>3. g[U \ {x}] = h[U \ {x}]
    BY <1>1, <1>2, <2>2
  <2>4. g[U] = f[x] + g[U \ {x}]
    BY <1>2, <1>4, <2>1 DEF Sums
  <2>5. h[U] = f[x] + h[U \ {x}]
    BY <1>2, <1>4, <2>1 DEF Sums
  <2> QED
    BY <1>1, <2>3, <2>4, <2>5
<1> QED
  BY <1>3, <1>4

\* Every finite set has one, glued from those of its subsets.
LEMMA SumsExist ==
  ASSUME NEW f, NEW S, IsFiniteSet(S)
  PROVE  \E g : Sums(f, S, g)
<1> DEFINE Bad == {U \in SUBSET S : ~ \E g : Sums(f, U, g)}
<1> SUFFICES ASSUME Bad # {} PROVE FALSE
  OBVIOUS
<1>1. PICK T \in Bad : IsFiniteSet(T) /\ \A x \in T : T \ {x} \notin Bad
  <2> HIDE DEF Bad
  <2>1. Bad \in SUBSET (SUBSET S)
    BY DEF Bad
  <2> QED
    BY <2>1, SmallestBad
<1>2. T \in SUBSET S /\ ~ \E g : Sums(f, T, g)
  OBVIOUS
<1>3. CASE T = {}
  <2> DEFINE g == [s \in SUBSET T |-> 0]
  <2>1. Sums(f, T, g)
    BY <1>3 DEF Sums
  <2> QED
    BY <1>2, <2>1
<1>4. CASE T # {}
  <2> DEFINE sums(U) == CHOOSE g : Sums(f, U, g)
             choice == CHOOSE y \in T : TRUE
             less == sums(T \ {choice})
             g == [s \in SUBSET T |->
                     IF s = T THEN f[choice] + less[T \ {choice}]
                     ELSE LET x == CHOOSE y \in T : y \notin s
                          IN sums(T \ {x})[s]]
  <2>1. choice \in T
    BY <1>4
  <2>2. ASSUME NEW x \in T PROVE Sums(f, T \ {x}, sums(T \ {x}))
    <3>1. T \ {x} \in SUBSET S /\ T \ {x} \notin Bad
      BY <1>1, <1>2
    <3> QED
      BY <3>1
  <2>3. ASSUME NEW x \in T, NEW y \in T, NEW U \in SUBSET (T \ {x}),
               U \subseteq T \ {y}
        PROVE  sums(T \ {x})[U] = sums(T \ {y})[U]
    <3>1. IsFiniteSet(T \ {x})
      BY <1>1, FS_RemoveElement
    <3> HIDE DEF sums
    <3> QED
      BY <2>2, <2>3, <3>1, SumsAgree
  <2>4. ASSUME NEW s \in SUBSET T, s # T, NEW x \in T, x \notin s
        PROVE  g[s] = sums(T \ {x})[s]
    <3>1. PICK z : z = CHOOSE y \in T : y \notin s
      OBVIOUS
    <3>2. z \in T /\ z \notin s
      BY <2>4, <3>1
    <3>3. g[s] = sums(T \ {z})[s]
      BY <2>4, <3>1
    <3> HIDE DEF sums, g
    <3>4. s \in SUBSET (T \ {z}) /\ s \subseteq T \ {x}
      BY <2>4, <3>2
    <3> QED
      BY <2>3, <2>4, <3>2, <3>3, <3>4
  <2>5. g[T] = f[choice] + less[T \ {choice}]
    OBVIOUS
  <2>6. ASSUME NEW s \in SUBSET T
        PROVE  g[s] = IF s = {} THEN 0
                      ELSE LET x == CHOOSE x \in s : TRUE
                           IN f[x] + g[s \ {x}]
    <3>1. CASE s = T
      <4>1. T \ {choice} # T
        BY <2>1
      <4>2. g[T \ {choice}] = less[T \ {choice}]
        <5> HIDE DEF g, sums, choice
        <5> QED
          BY <2>1, <2>4, <4>1
      <4> HIDE DEF g, less
      <4> QED
        BY <1>4, <2>5, <3>1, <4>2
    <3>2. CASE s # T
      <4>1. PICK y \in T : y \notin s
        BY <3>2
      <4>2. g[s] = sums(T \ {y})[s]
        <5> HIDE DEF g, sums
        <5> QED
          BY <2>4, <3>2, <4>1
      <4>3. s \in SUBSET (T \ {y}) /\ Sums(f, T \ {y}, sums(T \ {y}))
        <5> HIDE DEF sums
        <5> QED
          BY <2>2, <4>1
      <4>4. CASE s = {}
        <5> HIDE DEF g, sums
        <5> QED
          BY <4>2, <4>3, <4>4 DEF Sums
      <4>5. CASE s # {}
        <5>1. PICK x : x = CHOOSE z \in s : TRUE
          OBVIOUS
        <5>2. x \in s
          BY <4>5, <5>1
        <5>3. s \ {x} \in SUBSET T /\ s \ {x} # T /\ y \notin s \ {x}
          BY <4>1
        <5> HIDE DEF g, sums
        <5>4. g[s \ {x}] = sums(T \ {y})[s \ {x}]
          BY <2>4, <4>1, <5>3
        <5>5. sums(T \ {y})[s] = f[x] + sums(T \ {y})[s \ {x}]
          BY <4>3, <4>5, <5>1 DEF Sums
        <5> QED
          BY <4>2, <4>5, <5>1, <5>4, <5>5
      <4> QED
        BY <4>4, <4>5
    <3> QED
      BY <3>1, <3>2
  <2>7. g = [s \in SUBSET T |-> g[s]]
    OBVIOUS
  <2> HIDE DEF g
  <2>8. Sums(f, T, g)
    BY <2>6, <2>7 DEF Sums
  <2> QED
    BY <1>2, <2>8
<1> QED
  BY <1>3, <1>4

\* Nothing sums to nothing.
LEMMA SumOfNone ==
  ASSUME NEW f PROVE SumFunctionOnSet(f, {}) = 0
<1>1. PICK g : g = CHOOSE h : Sums(f, {}, h)
  OBVIOUS
<1>2. Sums(f, {}, g)
  BY <1>1, SumsExist, FS_EmptySet
<1> QED
  BY <1>1, <1>2, SumIsRecursive DEF Sums

\* The recursion of the fold, whose choice is the library's.
LEMMA SumUnfolds ==
  ASSUME NEW f, NEW S, IsFiniteSet(S), S # {}
  PROVE  LET x == CHOOSE x \in S : TRUE
         IN SumFunctionOnSet(f, S) = f[x] + SumFunctionOnSet(f, S \ {x})
<1>1. PICK x : x = CHOOSE y \in S : TRUE
  OBVIOUS
<1>2. x \in S
  BY <1>1
<1>3. PICK g : g = CHOOSE h : Sums(f, S, h)
  OBVIOUS
<1>4. PICK g1 : g1 = CHOOSE h : Sums(f, S \ {x}, h)
  OBVIOUS
<1>5. Sums(f, S, g) /\ Sums(f, S \ {x}, g1)
  BY <1>3, <1>4, SumsExist, FS_RemoveElement
<1>6. g[S \ {x}] = g1[S \ {x}]
  BY <1>5, SumsAgree
<1>7. g[S] = f[x] + g[S \ {x}]
  BY <1>1, <1>5 DEF Sums
<1>8. /\ SumFunctionOnSet(f, S) = g[S]
      /\ SumFunctionOnSet(f, S \ {x}) = g1[S \ {x}]
  BY <1>3, <1>4, SumIsRecursive
<1> QED
  BY <1>1, <1>6, <1>7, <1>8

-----------------------------------------------------------------------------
\* The sum of integers is one.
LEMMA SumIsInt ==
  ASSUME NEW f, NEW S, IsFiniteSet(S), \A x \in S : f[x] \in Int
  PROVE  SumFunctionOnSet(f, S) \in Int
<1> DEFINE Bad == {U \in SUBSET S : SumFunctionOnSet(f, U) \notin Int}
<1> SUFFICES ASSUME Bad # {} PROVE FALSE
  OBVIOUS
<1>1. PICK T \in Bad : IsFiniteSet(T) /\ \A x \in T : T \ {x} \notin Bad
  <2> HIDE DEF Bad
  <2>1. Bad \in SUBSET (SUBSET S)
    BY DEF Bad
  <2> QED
    BY <2>1, SmallestBad
<1>2. T # {}
  BY SumOfNone
<1>3. PICK x : x = CHOOSE y \in T : TRUE
  OBVIOUS
<1>4. x \in T /\ T \ {x} \in SUBSET S
  BY <1>2, <1>3
<1>5. SumFunctionOnSet(f, T \ {x}) \in Int
  BY <1>1, <1>4
<1>6. SumFunctionOnSet(f, T) = f[x] + SumFunctionOnSet(f, T \ {x})
  BY <1>1, <1>2, <1>3, SumUnfolds
<1> QED
  BY <1>4, <1>5, <1>6

\* Any element may be taken out first.
LEMMA SumWithout ==
  ASSUME NEW f, NEW S, IsFiniteSet(S), \A x \in S : f[x] \in Int
  PROVE  \A x \in S :
           SumFunctionOnSet(f, S) = f[x] + SumFunctionOnSet(f, S \ {x})
<1> DEFINE sum(U) == SumFunctionOnSet(f, U)
           Bad == {U \in SUBSET S : \E x \in U : sum(U) # f[x] + sum(U \ {x})}
<1> SUFFICES ASSUME Bad # {} PROVE FALSE
  OBVIOUS
<1>1. PICK T \in Bad : IsFiniteSet(T) /\ \A x \in T : T \ {x} \notin Bad
  <2> HIDE DEF Bad
  <2>1. Bad \in SUBSET (SUBSET S)
    BY DEF Bad
  <2> QED
    BY <2>1, SmallestBad
<1>2. PICK x \in T : sum(T) # f[x] + sum(T \ {x})
  OBVIOUS
<1>3. PICK c : c = CHOOSE y \in T : TRUE
  OBVIOUS
<1>4. c \in T /\ T \in SUBSET S
  BY <1>2, <1>3
<1>5. sum(T) = f[c] + sum(T \ {c})
  BY <1>1, <1>2, <1>3, SumUnfolds
<1>6. x # c
  BY <1>2, <1>5
<1>7. PICK rest : rest = (T \ {c}) \ {x} /\ rest = (T \ {x}) \ {c}
  OBVIOUS
<1>8. /\ sum(T \ {c}) = f[x] + sum(rest)
      /\ sum(T \ {x}) = f[c] + sum(rest)
  <2>1. T \ {c} \notin Bad /\ T \ {x} \notin Bad
    BY <1>1, <1>4
  <2>2. x \in T \ {c} /\ c \in T \ {x}
    BY <1>4, <1>6
  <2>3. T \ {c} \in SUBSET S /\ T \ {x} \in SUBSET S
    BY <1>4
  <2>4. /\ sum(T \ {c}) = f[x] + sum((T \ {c}) \ {x})
        /\ sum(T \ {x}) = f[c] + sum((T \ {x}) \ {c})
    <3> HIDE DEF sum
    <3> QED
      BY <2>1, <2>2, <2>3
  <2> QED
    BY <1>7, <2>4
<1>9. f[x] \in Int /\ f[c] \in Int /\ sum(rest) \in Int
  <2>1. rest \in SUBSET S
    BY <1>4, <1>7
  <2>2. IsFiniteSet(rest)
    BY <2>1, FS_Subset
  <2> QED
    BY <1>4, <2>1, <2>2, SumIsInt
<1>10. sum(T) = f[x] + sum(T \ {x})
  <2> HIDE DEF sum
  <2> QED
    BY <1>5, <1>8, <1>9
<1> QED
  BY <1>2, <1>10

\* Only the values on the set count.
LEMMA SumOfSame ==
  ASSUME NEW f, NEW g, NEW S, IsFiniteSet(S), \A x \in S : f[x] = g[x]
  PROVE  SumFunctionOnSet(f, S) = SumFunctionOnSet(g, S)
<1> DEFINE Bad == {U \in SUBSET S :
                     SumFunctionOnSet(f, U) # SumFunctionOnSet(g, U)}
<1> SUFFICES ASSUME Bad # {} PROVE FALSE
  OBVIOUS
<1>1. PICK T \in Bad : IsFiniteSet(T) /\ \A x \in T : T \ {x} \notin Bad
  <2> HIDE DEF Bad
  <2>1. Bad \in SUBSET (SUBSET S)
    BY DEF Bad
  <2> QED
    BY <2>1, SmallestBad
<1>2. T # {}
  BY SumOfNone
<1>3. PICK x : x = CHOOSE y \in T : TRUE
  OBVIOUS
<1>4. x \in T /\ T \ {x} \in SUBSET S
  BY <1>2, <1>3
<1>5. SumFunctionOnSet(f, T \ {x}) = SumFunctionOnSet(g, T \ {x})
  BY <1>1, <1>4
<1>6. /\ SumFunctionOnSet(f, T) = f[x] + SumFunctionOnSet(f, T \ {x})
      /\ SumFunctionOnSet(g, T) = g[x] + SumFunctionOnSet(g, T \ {x})
  BY <1>1, <1>2, <1>3, SumUnfolds
<1> QED
  BY <1>4, <1>5, <1>6

\* One value changes, and the sum by as much.
LEMMA SumChanges ==
  ASSUME NEW f, NEW g, NEW S, IsFiniteSet(S), NEW x \in S,
         \A y \in S : f[y] \in Int /\ g[y] \in Int,
         \A y \in S : y # x => g[y] = f[y]
  PROVE  /\ SumFunctionOnSet(f, S) \in Int
         /\ SumFunctionOnSet(g, S) = SumFunctionOnSet(f, S) + g[x] - f[x]
<1>1. IsFiniteSet(S \ {x})
  BY FS_RemoveElement
<1>2. SumFunctionOnSet(g, S \ {x}) = SumFunctionOnSet(f, S \ {x})
  BY <1>1, SumOfSame
<1>3. /\ SumFunctionOnSet(f, S) = f[x] + SumFunctionOnSet(f, S \ {x})
      /\ SumFunctionOnSet(g, S) = g[x] + SumFunctionOnSet(g, S \ {x})
  BY SumWithout
<1>4. SumFunctionOnSet(f, S \ {x}) \in Int /\ SumFunctionOnSet(f, S) \in Int
  BY <1>1, SumIsInt
<1> QED
  BY <1>2, <1>3, <1>4

\* The same, for a function of which one value is replaced.
LEMMA SumReplaced ==
  ASSUME NEW S, IsFiniteSet(S), NEW f \in [S -> Int], NEW x \in S, NEW v \in Int,
         NEW g, g = [f EXCEPT ![x] = v]
  PROVE  /\ SumFunctionOnSet(f, S) \in Int
         /\ SumFunctionOnSet(g, S) = SumFunctionOnSet(f, S) + v - f[x]
<1>1. /\ \A y \in S : f[y] \in Int /\ g[y] \in Int
      /\ \A y \in S : y # x => g[y] = f[y]
      /\ g[x] = v
  OBVIOUS
<1>2. /\ SumFunctionOnSet(f, S) \in Int
      /\ SumFunctionOnSet(g, S) = SumFunctionOnSet(f, S) + g[x] - f[x]
  BY <1>1, SumChanges
<1> QED
  BY <1>1, <1>2

\* One element more.
LEMMA SumWith ==
  ASSUME NEW f, NEW S, IsFiniteSet(S), NEW x, x \notin S,
         \A y \in S \cup {x} : f[y] \in Int
  PROVE  /\ SumFunctionOnSet(f, S) \in Int
         /\ SumFunctionOnSet(f, S \cup {x}) = SumFunctionOnSet(f, S) + f[x]
<1>1. (S \cup {x}) \ {x} = S /\ x \in S \cup {x}
  OBVIOUS
<1>2. IsFiniteSet(S \cup {x})
  BY FS_AddElement
<1>3. SumFunctionOnSet(f, S \cup {x}) = f[x] + SumFunctionOnSet(f, S)
  BY <1>1, <1>2, SumWithout
<1>4. SumFunctionOnSet(f, S) \in Int /\ f[x] \in Int
  BY SumIsInt
<1> QED
  BY <1>3, <1>4

\* No value, no sum.
LEMMA SumOfZeros ==
  ASSUME NEW f, NEW S, IsFiniteSet(S), \A x \in S : f[x] = 0
  PROVE  SumFunctionOnSet(f, S) = 0
<1> DEFINE Bad == {U \in SUBSET S : SumFunctionOnSet(f, U) # 0}
<1> SUFFICES ASSUME Bad # {} PROVE FALSE
  OBVIOUS
<1>1. PICK T \in Bad : IsFiniteSet(T) /\ \A x \in T : T \ {x} \notin Bad
  <2> HIDE DEF Bad
  <2>1. Bad \in SUBSET (SUBSET S)
    BY DEF Bad
  <2> QED
    BY <2>1, SmallestBad
<1>2. T # {}
  BY SumOfNone
<1>3. PICK x \in T : T \ {x} \in SUBSET S
  BY <1>2
<1>4. SumFunctionOnSet(f, T \ {x}) = 0
  BY <1>1, <1>3
<1>5. SumFunctionOnSet(f, T) = f[x] + SumFunctionOnSet(f, T \ {x})
  BY <1>1, <1>3, SumWithout
<1> QED
  BY <1>3, <1>4, <1>5

\* Of no smaller values no smaller a sum.
LEMMA SumGrows ==
  ASSUME NEW f, NEW g, NEW S, IsFiniteSet(S),
         \A x \in S : f[x] \in Int /\ g[x] \in Int /\ f[x] <= g[x]
  PROVE  SumFunctionOnSet(f, S) <= SumFunctionOnSet(g, S)
<1> DEFINE Bad == {U \in SUBSET S :
                     ~ SumFunctionOnSet(f, U) <= SumFunctionOnSet(g, U)}
<1> SUFFICES ASSUME Bad # {} PROVE FALSE
  OBVIOUS
<1>1. PICK T \in Bad : IsFiniteSet(T) /\ \A x \in T : T \ {x} \notin Bad
  <2> HIDE DEF Bad
  <2>1. Bad \in SUBSET (SUBSET S)
    BY DEF Bad
  <2> QED
    BY <2>1, SmallestBad
<1>2. T # {}
  BY SumOfNone
<1>3. PICK x \in T : T \ {x} \in SUBSET S
  BY <1>2
<1>4. SumFunctionOnSet(f, T \ {x}) <= SumFunctionOnSet(g, T \ {x})
  BY <1>1, <1>3
<1>5. /\ SumFunctionOnSet(f, T) = f[x] + SumFunctionOnSet(f, T \ {x})
      /\ SumFunctionOnSet(g, T) = g[x] + SumFunctionOnSet(g, T \ {x})
  BY <1>1, <1>3, SumWithout
<1>6. /\ SumFunctionOnSet(f, T \ {x}) \in Int
      /\ SumFunctionOnSet(g, T \ {x}) \in Int
  <2>1. IsFiniteSet(T \ {x})
    BY <1>1, FS_RemoveElement
  <2> QED
    BY <1>3, <2>1, SumIsInt
<1> QED
  BY <1>3, <1>4, <1>5, <1>6

\* Of two sets without a common element, the sums add up.
LEMMA SumOfUnion ==
  ASSUME NEW f, NEW S, IsFiniteSet(S), NEW T, IsFiniteSet(T), S \cap T = {},
         \A x \in S \cup T : f[x] \in Int
  PROVE  /\ SumFunctionOnSet(f, S) \in Int /\ SumFunctionOnSet(f, T) \in Int
         /\ SumFunctionOnSet(f, S \cup T)
              = SumFunctionOnSet(f, S) + SumFunctionOnSet(f, T)
<1> DEFINE sum(U) == SumFunctionOnSet(f, U)
           Bad == {U \in SUBSET T : sum(S \cup U) # sum(S) + sum(U)}
<1>1. ASSUME NEW U \in SUBSET T
      PROVE  /\ IsFiniteSet(U) /\ IsFiniteSet(S \cup U)
             /\ sum(U) \in Int /\ sum(S \cup U) \in Int
  <2>1. IsFiniteSet(U) /\ IsFiniteSet(S \cup U)
    BY FS_Subset, FS_Union
  <2> QED
    BY <2>1, SumIsInt
<1>2. sum(S) \in Int
  BY SumIsInt
<1>3. Bad = {}
  <2> SUFFICES ASSUME Bad # {} PROVE FALSE
    OBVIOUS
  <2>1. PICK U \in Bad : IsFiniteSet(U) /\ \A x \in U : U \ {x} \notin Bad
    <3> HIDE DEF Bad
    <3>1. Bad \in SUBSET (SUBSET T)
      BY DEF Bad
    <3> QED
      BY <3>1, SmallestBad
  <2>2. CASE U = {}
    <3>1. sum(U) = 0
      BY <2>2, SumOfNone
    <3>2. S \cup U = S
      BY <2>2
    <3>3. sum(S \cup U) = sum(S)
      BY <3>2
    <3>4. sum(S \cup U) = sum(S) + sum(U)
      BY ONLY <1>2, <3>1, <3>3
    <3> QED
      BY <2>1, <3>4
  <2>3. CASE U # {}
    <3>1. PICK x \in U : U \ {x} \in SUBSET T /\ x \notin S /\ x \in T
      BY <2>3
    <3>2. PICK both : both = S \cup U
      OBVIOUS
    <3>3. both \ {x} = S \cup (U \ {x})
      BY <3>1, <3>2
    <3>4. sum(S \cup (U \ {x})) = sum(S) + sum(U \ {x})
      BY <2>1, <3>1
    <3>5. sum(both) = f[x] + sum(both \ {x})
      <4>1. IsFiniteSet(both) /\ x \in both /\ \A y \in both : f[y] \in Int
        BY <1>1, <2>1, <3>1, <3>2
      <4> QED
        BY <4>1, SumWithout
    <3>6. sum(U) = f[x] + sum(U \ {x})
      BY <1>1, <3>1, SumWithout
    <3>7. f[x] \in Int /\ sum(U \ {x}) \in Int
      BY <1>1, <3>1
    <3>8. sum(both) = f[x] + (sum(S) + sum(U \ {x}))
      BY <3>3, <3>4, <3>5
    <3>9. sum(both) = sum(S) + sum(U)
      BY ONLY <1>2, <3>6, <3>7, <3>8
    <3> QED
      BY <2>1, <3>2, <3>9
  <2> QED
    BY <2>2, <2>3
<1>4. T \notin Bad
  BY <1>3
<1> QED
  BY <1>1, <1>2, <1>4

\* What is taken out of a set is taken off the sum.
LEMMA SumOfRest ==
  ASSUME NEW f, NEW S, IsFiniteSet(S), NEW T \in SUBSET S,
         \A x \in S : f[x] \in Int
  PROVE  /\ SumFunctionOnSet(f, S) \in Int /\ SumFunctionOnSet(f, T) \in Int
         /\ SumFunctionOnSet(f, S \ T)
              = SumFunctionOnSet(f, S) - SumFunctionOnSet(f, T)
<1>1. IsFiniteSet(T) /\ IsFiniteSet(S \ T)
  BY FS_Subset
<1>2. /\ SumFunctionOnSet(f, S) \in Int /\ SumFunctionOnSet(f, T) \in Int
      /\ SumFunctionOnSet(f, S \ T) \in Int
  BY <1>1, SumIsInt
<1>3. SumFunctionOnSet(f, (S \ T) \cup T)
        = SumFunctionOnSet(f, S \ T) + SumFunctionOnSet(f, T)
  <2>1. (S \ T) \cap T = {} /\ \A x \in (S \ T) \cup T : f[x] \in Int
    OBVIOUS
  <2> QED
    BY <1>1, <2>1, SumOfUnion
<1>4. (S \ T) \cup T = S
  OBVIOUS
<1>5. SumFunctionOnSet(f, S)
        = SumFunctionOnSet(f, S \ T) + SumFunctionOnSet(f, T)
  BY <1>3, <1>4, Zenon
<1> QED
  BY ONLY <1>2, <1>5

\* Of fewer values, none of them negative, no larger a sum.
LEMMA SumOfFewer ==
  ASSUME NEW f, NEW S, IsFiniteSet(S), NEW T \in SUBSET S,
         \A x \in S : f[x] \in Nat
  PROVE  /\ SumFunctionOnSet(f, S) \in Int /\ SumFunctionOnSet(f, T) \in Int
         /\ SumFunctionOnSet(f, T) <= SumFunctionOnSet(f, S)
<1>1. IsFiniteSet(S \ T)
  BY FS_Subset
<1>2. PICK zero : zero = [x \in S |-> 0]
  OBVIOUS
<1>3. \A x \in S \ T : zero[x] \in Int /\ f[x] \in Int /\ zero[x] <= f[x]
  BY <1>2
<1>4. SumFunctionOnSet(zero, S \ T) = 0
  <2>1. \A x \in S \ T : zero[x] = 0
    BY <1>2
  <2> QED
    BY <1>1, <2>1, SumOfZeros
<1>5. SumFunctionOnSet(zero, S \ T) <= SumFunctionOnSet(f, S \ T)
  BY <1>1, <1>3, SumGrows
<1>6. /\ SumFunctionOnSet(f, S) \in Int /\ SumFunctionOnSet(f, T) \in Int
      /\ SumFunctionOnSet(f, S \ T)
           = SumFunctionOnSet(f, S) - SumFunctionOnSet(f, T)
  <2>1. \A x \in S : f[x] \in Int
    OBVIOUS
  <2> QED
    BY <2>1, SumOfRest
<1> QED
  BY ONLY <1>4, <1>5, <1>6

\* Elements that are renamed one for one keep their sum.
LEMMA SumOfImage ==
  ASSUME NEW f, NEW g, NEW b, NEW S, IsFiniteSet(S),
         \A x, y \in S : b[x] = b[y] => x = y,
         \A x \in S : f[x] \in Int /\ g[b[x]] = f[x]
  PROVE  SumFunctionOnSet(g, {b[x] : x \in S}) = SumFunctionOnSet(f, S)
<1> DEFINE image(U) == {b[x] : x \in U}
           Bad == {U \in SUBSET S : ~ /\ IsFiniteSet(image(U))
                                      /\ SumFunctionOnSet(g, image(U))
                                           = SumFunctionOnSet(f, U)}
<1>1. Bad = {}
  <2> SUFFICES ASSUME Bad # {} PROVE FALSE
    OBVIOUS
  <2>1. PICK U \in Bad : IsFiniteSet(U) /\ \A x \in U : U \ {x} \notin Bad
    <3> HIDE DEF Bad
    <3>1. Bad \in SUBSET (SUBSET S)
      BY DEF Bad
    <3> QED
      BY <3>1, SmallestBad
  <2>2. U \in SUBSET S
    BY <2>1
  <2>3. CASE U = {}
    <3>1. image(U) = {}
      BY <2>3
    <3>2. IsFiniteSet(image(U)) /\ SumFunctionOnSet(g, image(U)) = 0
      BY <3>1, FS_EmptySet, SumOfNone
    <3>3. SumFunctionOnSet(f, U) = 0
      BY <2>3, SumOfNone
    <3> QED
      BY <2>1, <3>2, <3>3
  <2>4. CASE U # {}
    <3>1. PICK x \in U : U \ {x} \in SUBSET S
      BY <2>2, <2>4
    <3>2. PICK rest : rest = image(U \ {x})
      OBVIOUS
    <3>3. IsFiniteSet(rest)
          /\ SumFunctionOnSet(g, rest) = SumFunctionOnSet(f, U \ {x})
      BY <2>1, <3>1, <3>2
    <3>4. /\ image(U) = rest \cup {b[x]} /\ b[x] \notin rest
          /\ \A y \in rest \cup {b[x]} : g[y] \in Int
      BY <2>2, <3>1, <3>2
    <3>5. /\ IsFiniteSet(rest \cup {b[x]})
          /\ SumFunctionOnSet(g, rest) \in Int
          /\ SumFunctionOnSet(g, rest \cup {b[x]})
               = SumFunctionOnSet(g, rest) + g[b[x]]
      BY ONLY <3>3, <3>4, FS_AddElement, SumWith
    <3>6. SumFunctionOnSet(f, U) = f[x] + SumFunctionOnSet(f, U \ {x})
      BY <2>1, <2>2, <3>1, SumWithout
    <3>7. g[b[x]] = f[x] /\ f[x] \in Int
      BY <2>2, <3>1
    <3>8. /\ IsFiniteSet(image(U))
          /\ SumFunctionOnSet(g, image(U)) = SumFunctionOnSet(f, U)
      <4> HIDE DEF image
      <4> QED
        BY <3>3, <3>4, <3>5, <3>6, <3>7
    <3> QED
      BY <2>1, <3>8
  <2> QED
    BY <2>3, <2>4
<1>2. S \notin Bad
  BY <1>1
<1> QED
  BY <1>2

\* The sums of two functions add up to the sum of both.
LEMMA SumOfBoth ==
  ASSUME NEW f, NEW g, NEW h, NEW S, IsFiniteSet(S),
         \A x \in S : f[x] \in Int /\ g[x] \in Int /\ h[x] = f[x] + g[x]
  PROVE  /\ SumFunctionOnSet(f, S) \in Int /\ SumFunctionOnSet(g, S) \in Int
         /\ SumFunctionOnSet(h, S)
              = SumFunctionOnSet(f, S) + SumFunctionOnSet(g, S)
<1> DEFINE Bad == {U \in SUBSET S :
                     ~ SumFunctionOnSet(h, U)
                         = SumFunctionOnSet(f, U) + SumFunctionOnSet(g, U)}
<1>1. ASSUME NEW U \in SUBSET S
      PROVE  /\ IsFiniteSet(U) /\ SumFunctionOnSet(f, U) \in Int
             /\ SumFunctionOnSet(g, U) \in Int
  <2>1. IsFiniteSet(U)
    BY FS_Subset
  <2> QED
    BY <2>1, SumIsInt
<1>2. SUFFICES ASSUME Bad # {} PROVE FALSE
  <2>1. Bad = {} => ~ S \in Bad
    OBVIOUS
  <2> QED
    BY <1>1, <2>1
<1>3. PICK T \in Bad : IsFiniteSet(T) /\ \A x \in T : T \ {x} \notin Bad
  <2>1. Bad \in SUBSET (SUBSET S)
    BY DEF Bad
  <2> HIDE DEF Bad
  <2> QED
    BY <1>2, <2>1, SmallestBad
<1>4. T # {}
  <2> SUFFICES ASSUME T = {} PROVE FALSE
    OBVIOUS
  <2>1. /\ SumFunctionOnSet(f, T) = 0 /\ SumFunctionOnSet(g, T) = 0
        /\ SumFunctionOnSet(h, T) = 0
    BY SumOfNone
  <2> QED
    BY <2>1
<1>5. PICK x \in T : TRUE
  BY <1>4
<1>6. SumFunctionOnSet(h, T \ {x})
        = SumFunctionOnSet(f, T \ {x}) + SumFunctionOnSet(g, T \ {x})
  BY <1>3, <1>5
<1>7. /\ SumFunctionOnSet(f, T) = f[x] + SumFunctionOnSet(f, T \ {x})
      /\ SumFunctionOnSet(g, T) = g[x] + SumFunctionOnSet(g, T \ {x})
      /\ SumFunctionOnSet(h, T) = h[x] + SumFunctionOnSet(h, T \ {x})
  <2>1. \A y \in T : f[y] \in Int /\ g[y] \in Int /\ h[y] \in Int
    OBVIOUS
  <2> QED
    BY <1>3, <1>5, <2>1, SumWithout
<1>8. /\ SumFunctionOnSet(f, T \ {x}) \in Int
      /\ SumFunctionOnSet(g, T \ {x}) \in Int
  BY <1>1, T \ {x} \in SUBSET S
<1>9. /\ f[x] \in Int /\ g[x] \in Int /\ h[x] = f[x] + g[x]
  OBVIOUS
<1>10. SumFunctionOnSet(h, T)
         = SumFunctionOnSet(f, T) + SumFunctionOnSet(g, T)
  BY ONLY <1>6, <1>7, <1>8, <1>9
<1> QED
  BY <1>3, <1>10

\* The sums of the parts of a set that do not meet add up to that of the set.
LEMMA SumOfParts ==
  ASSUME NEW f, NEW S, IsFiniteSet(S), \A x \in S : f[x] \in Int,
         NEW K, IsFiniteSet(K), NEW part, NEW sums,
         \A k \in K : /\ part[k] \in SUBSET S
                     /\ sums[k] = SumFunctionOnSet(f, part[k]),
         \A j, k \in K : j # k => part[j] \cap part[k] = {}
  PROVE  SumFunctionOnSet(sums, K)
           = SumFunctionOnSet(f, UNION {part[k] : k \in K})
<1> DEFINE all(U) == UNION {part[k] : k \in U}
           Bad == {U \in SUBSET K :
                     ~ SumFunctionOnSet(sums, U) = SumFunctionOnSet(f, all(U))}
<1>1. SUFFICES ASSUME Bad # {} PROVE FALSE
  <2>1. Bad = {} => ~ K \in Bad
    OBVIOUS
  <2> QED
    BY <2>1
<1>2. PICK T \in Bad : IsFiniteSet(T) /\ \A x \in T : T \ {x} \notin Bad
  <2>1. Bad \in SUBSET (SUBSET K)
    BY DEF Bad
  <2> HIDE DEF Bad
  <2> QED
    BY <1>1, <2>1, SmallestBad
<1>3. T # {}
  <2> SUFFICES ASSUME T = {} PROVE FALSE
    OBVIOUS
  <2>1. all(T) = {}
    OBVIOUS
  <2>2. SumFunctionOnSet(sums, T) = 0
    BY SumOfNone
  <2>3. SumFunctionOnSet(f, all(T)) = 0
    BY ONLY <2>1, SumOfNone
  <2> QED
    BY <2>2, <2>3
<1>4. PICK x \in T : TRUE
  BY <1>3
<1>5. SumFunctionOnSet(sums, T \ {x}) = SumFunctionOnSet(f, all(T \ {x}))
  BY <1>2, <1>4
<1>6. /\ all(T) = all(T \ {x}) \cup part[x] /\ all(T \ {x}) \cap part[x] = {}
      /\ all(T \ {x}) \subseteq S /\ part[x] \subseteq S
  BY <1>4
<1>7. /\ SumFunctionOnSet(f, all(T \ {x})) \in Int
      /\ SumFunctionOnSet(f, part[x]) \in Int
      /\ SumFunctionOnSet(f, all(T))
           = SumFunctionOnSet(f, all(T \ {x})) + SumFunctionOnSet(f, part[x])
  <2>1. IsFiniteSet(all(T \ {x})) /\ IsFiniteSet(part[x])
    BY <1>6, FS_Subset
  <2>2. PICK A, B : A = all(T \ {x}) /\ B = part[x]
    OBVIOUS
  <2>3. /\ IsFiniteSet(A) /\ IsFiniteSet(B) /\ A \cap B = {}
        /\ all(T) = A \cup B
    BY ONLY <1>6, <2>1, <2>2
  <2>4. \A y \in A \cup B : f[y] \in Int
    BY <1>6, <2>2
  <2>5. /\ SumFunctionOnSet(f, A) \in Int /\ SumFunctionOnSet(f, B) \in Int
        /\ SumFunctionOnSet(f, A \cup B)
             = SumFunctionOnSet(f, A) + SumFunctionOnSet(f, B)
    BY ONLY <2>3, <2>4, SumOfUnion
  <2> HIDE DEF all
  <2> QED
    BY ONLY <2>2, <2>3, <2>5
<1>8. \A y \in T : sums[y] \in Int
  <2> TAKE y \in T
  <2>1. IsFiniteSet(part[y])
    BY FS_Subset
  <2> QED
    BY <2>1, SumIsInt
<1>9. SumFunctionOnSet(sums, T) = sums[x] + SumFunctionOnSet(sums, T \ {x})
  BY <1>2, <1>4, <1>8, SumWithout
<1>10. sums[x] = SumFunctionOnSet(f, part[x])
  OBVIOUS
<1>11. SumFunctionOnSet(sums, T) = SumFunctionOnSet(f, all(T))
  BY ONLY <1>5, <1>7, <1>9, <1>10
<1> QED
  BY <1>2, <1>11
=============================================================================
