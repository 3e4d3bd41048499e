-------------------------------- MODULE Sums --------------------------------
(* Facts about SumFunctionOnSet of the community modules, the sum of the    *)
(* values of a function over a finite set.  The sum is a recursive function *)
(* on the subsets of the set; what it computes is shown by looking at a     *)
(* smallest subset for which it would be wrong.                             *)
EXTENDS Integers, FiniteSets, Functions, FiniteSetTheorems,
        WellFoundedInduction, TLAPS

\* The element that the recursion takes out of a set.
Element(s) == CHOOSE x \in s : TRUE

\* g is the recursive function that sums f over the subsets of S.
IsSum(g, f, S) ==
    g = [s \in SUBSET S |->
            IF s = {} THEN 0 ELSE f[Element(s)] + g[s \ {Element(s)}]]

\* A set of subsets of a finite set has a member with no smaller member.
LEMMA SmallestSubset ==
    ASSUME NEW S, IsFiniteSet(S), NEW T \in SUBSET (SUBSET S), T # {}
    PROVE  \E x \in T : \A y \in T : y \subseteq x => y = x
  <1>1. IsWellFoundedOn(StrictSubsetOrdering(S), SUBSET S)
    BY FS_StrictSubsetOrderingWellFounded, FS_FiniteSubsetsOfFinite
  <1>2. PICK x \in T : \A y \in T : ~(<<y, x>> \in StrictSubsetOrdering(S))
    BY <1>1, WFMin
  <1>3. \A y \in T : y \subseteq x => y = x
    BY <1>2 DEF StrictSubsetOrdering
  <1> QED
    BY <1>3

\* What the recursive function returns for a subset.
LEMMA SumValue ==
    ASSUME NEW g, NEW f, NEW S, IsSum(g, f, S), NEW s \in SUBSET S
    PROVE  g[s] = IF s = {} THEN 0 ELSE f[Element(s)] + g[s \ {Element(s)}]
  BY Zenon DEF IsSum

LEMMA ElementOf == ASSUME NEW s, s # {} PROVE Element(s) \in s
  BY DEF Element

\* Two such functions agree where both are defined.
LEMMA SumUnique ==
    ASSUME NEW f, NEW S, IsFiniteSet(S), NEW T,
           NEW g, IsSum(g, f, S), NEW h, IsSum(h, f, T),
           NEW s \in SUBSET S, s \subseteq T
    PROVE  g[s] = h[s]
  <1> DEFINE Wrong == {r \in SUBSET S : r \subseteq T /\ g[r] # h[r]}
  <1> SUFFICES ASSUME Wrong # {} PROVE FALSE
    OBVIOUS
  <1>1. PICK r \in Wrong : \A y \in Wrong : y \subseteq r => y = r
    <2>1. Wrong \in SUBSET (SUBSET S)
      OBVIOUS
    <2> HIDE DEF Wrong
    <2> QED
      BY <2>1, SmallestSubset
  <1>2. r # {}
    BY SumValue
  <1>3. Element(r) \in r
    BY <1>2, ElementOf
  <1>4. g[r \ {Element(r)}] = h[r \ {Element(r)}]
    BY <1>1, <1>3
  <1> QED
    BY <1>2, <1>4, SumValue

\* There is one for every finite set: those of the proper subsets, put
\* together.
LEMMA SumExists ==
    ASSUME NEW f, NEW S, IsFiniteSet(S)
    PROVE  \E g : IsSum(g, f, S)
  <1> DEFINE Wrong == {r \in SUBSET S : ~ \E g : IsSum(g, f, r)}
             Of(r) == CHOOSE g : IsSum(g, f, r)
             Rest(s) == s \ {Element(s)}
  <1> SUFFICES ASSUME Wrong # {} PROVE FALSE
    OBVIOUS
  <1>1. PICK x \in Wrong : \A y \in Wrong : y \subseteq x => y = x
    <2>1. Wrong \in SUBSET (SUBSET S)
      OBVIOUS
    <2> HIDE DEF Wrong
    <2> QED
      BY <2>1, SmallestSubset
  <1>2. \A r \in SUBSET x : r # x => IsSum(Of(r), f, r) /\ IsFiniteSet(r)
    <2> SUFFICES ASSUME NEW r \in SUBSET x, r # x
                 PROVE  IsSum(Of(r), f, r) /\ IsFiniteSet(r)
      OBVIOUS
    <2>1. r \notin Wrong /\ r \in SUBSET S
      BY <1>1
    <2> QED
      BY <2>1, FS_Subset
  <1> DEFINE Value(s) == IF s = {} THEN 0 ELSE f[Element(s)] + Of(Rest(s))[Rest(s)]
  <1>3. PICK h : h = [s \in SUBSET x |-> Value(s)]
    OBVIOUS
  <1>4. \A s \in SUBSET x : s # {} => h[Rest(s)] = Of(Rest(s))[Rest(s)]
    <2> SUFFICES ASSUME NEW s \in SUBSET x, s # {}
                 PROVE  h[Rest(s)] = Of(Rest(s))[Rest(s)]
      OBVIOUS
    <2> DEFINE r == Rest(s)
               q == Rest(r)
    <2>1. r \in SUBSET x /\ r # x /\ q \in SUBSET r /\ q # x
      BY ElementOf
    <2>2. /\ IsSum(Of(r), f, r) /\ IsFiniteSet(r)
          /\ IsSum(Of(q), f, q)
      BY <1>2, <2>1
    <2>3. Of(r)[r] = IF r = {} THEN 0 ELSE f[Element(r)] + Of(r)[q]
      BY <2>2, SumValue
    <2>4. Of(r)[q] = Of(q)[q]
      BY <2>1, <2>2, SumUnique
    <2>5. h[r] = IF r = {} THEN 0 ELSE f[Element(r)] + Of(q)[q]
      BY <1>3, <2>1
    <2> QED
      BY <2>3, <2>4, <2>5
  <1>5. \A s \in SUBSET x :
           Value(s) = IF s = {} THEN 0 ELSE f[Element(s)] + h[s \ {Element(s)}]
    <2> SUFFICES ASSUME NEW s \in SUBSET x
                 PROVE  Value(s) = IF s = {} THEN 0
                                   ELSE f[Element(s)] + h[s \ {Element(s)}]
      OBVIOUS
    <2>1. s # {} => h[s \ {Element(s)}] = Of(Rest(s))[Rest(s)]
      BY <1>4
    <2> HIDE DEF Of
    <2> QED
      BY <2>1
  <1>6. IsSum(h, f, x)
    <2> HIDE DEF Value
    <2> QED
      BY <1>3, <1>5 DEF IsSum
  <1> QED
    BY <1>6

\* The sum of nothing is 0; the sum of a set is the value of one element and
\* the sum of the others.
LEMMA SumUnfold ==
    ASSUME NEW f, NEW S, IsFiniteSet(S)
    PROVE  SumFunctionOnSet(f, S) =
             IF S = {} THEN 0
             ELSE f[Element(S)] + SumFunctionOnSet(f, S \ {Element(S)})
  <1> DEFINE Of(r) == CHOOSE g : IsSum(g, f, r)
             R == S \ {Element(S)}
  <1>1. \A r : SumFunctionOnSet(f, r) = Of(r)[r]
    BY DEF SumFunctionOnSet, FoldFunctionOnSet, MapThenFoldSet, IsSum, Element
  <1>2. IsFiniteSet(R)
    BY FS_Subset
  <1>3. IsSum(Of(S), f, S) /\ IsSum(Of(R), f, R)
    BY <1>2, SumExists
  <1>4. Of(S)[S] = IF S = {} THEN 0 ELSE f[Element(S)] + Of(S)[R]
    BY <1>3, SumValue
  <1>5. Of(S)[R] = Of(R)[R]
    BY <1>3, SumUnique
  <1>6. SumFunctionOnSet(f, S) = Of(S)[S] /\ SumFunctionOnSet(f, R) = Of(R)[R]
    BY <1>1
  <1> HIDE DEF Of
  <1> QED
    BY <1>4, <1>5, <1>6

LEMMA SumEmpty == ASSUME NEW f PROVE SumFunctionOnSet(f, {}) = 0
  BY SumUnfold, FS_EmptySet

\* Functions that agree on a set have the same sum over it.
LEMMA SumSame ==
    ASSUME NEW S, IsFiniteSet(S), NEW f, NEW g, \A i \in S : f[i] = g[i]
    PROVE  SumFunctionOnSet(f, S) = SumFunctionOnSet(g, S)
  <1> DEFINE Wrong == {r \in SUBSET S : SumFunctionOnSet(f, r) # SumFunctionOnSet(g, r)}
  <1> SUFFICES ASSUME Wrong # {} PROVE FALSE
    OBVIOUS
  <1>1. PICK r \in Wrong : \A y \in Wrong : y \subseteq r => y = r
    <2>1. Wrong \in SUBSET (SUBSET S)
      OBVIOUS
    <2> HIDE DEF Wrong
    <2> QED
      BY <2>1, SmallestSubset
  <1>2. IsFiniteSet(r) /\ r \subseteq S
    BY FS_Subset
  <1>3. r # {}
    BY SumEmpty
  <1>4. Element(r) \in r
    BY <1>3, ElementOf
  <1>5. SumFunctionOnSet(f, r \ {Element(r)}) = SumFunctionOnSet(g, r \ {Element(r)})
    BY <1>1, <1>4
  <1> QED
    BY <1>2, <1>3, <1>4, <1>5, SumUnfold

\* A sum of integers is an integer, a sum of naturals a natural.
LEMMA SumType ==
    ASSUME NEW S, IsFiniteSet(S), NEW f, NEW N, N \in {Int, Nat},
           \A i \in S : f[i] \in N
    PROVE  SumFunctionOnSet(f, S) \in N
  <1> DEFINE Wrong == {r \in SUBSET S : SumFunctionOnSet(f, r) \notin N}
  <1> SUFFICES ASSUME Wrong # {} PROVE FALSE
    OBVIOUS
  <1>1. PICK r \in Wrong : \A y \in Wrong : y \subseteq r => y = r
    <2>1. Wrong \in SUBSET (SUBSET S)
      OBVIOUS
    <2> HIDE DEF Wrong
    <2> QED
      BY <2>1, SmallestSubset
  <1>2. IsFiniteSet(r) /\ r \subseteq S
    BY FS_Subset
  <1>3. r # {}
    BY SumEmpty
  <1>4. Element(r) \in r
    BY <1>3, ElementOf
  <1>5. SumFunctionOnSet(f, r \ {Element(r)}) \in N /\ f[Element(r)] \in N
    BY <1>1, <1>2, <1>4
  <1> QED
    BY <1>2, <1>3, <1>5, SumUnfold

\* It does not matter which element is taken out first.
LEMMA SumTake ==
    ASSUME NEW S, IsFiniteSet(S), NEW f, \A i \in S : f[i] \in Int, NEW x \in S
    PROVE  SumFunctionOnSet(f, S) = f[x] + SumFunctionOnSet(f, S \ {x})
  <1> DEFINE Takes(r) == \A y \in r : SumFunctionOnSet(f, r)
                                       = f[y] + SumFunctionOnSet(f, r \ {y})
             Wrong == {r \in SUBSET S : ~Takes(r)}
  <1> SUFFICES ASSUME Wrong # {} PROVE FALSE
    OBVIOUS
  <1>1. PICK r \in Wrong : \A y \in Wrong : y \subseteq r => y = r
    <2>1. Wrong \in SUBSET (SUBSET S)
      OBVIOUS
    <2> HIDE DEF Wrong
    <2> QED
      BY <2>1, SmallestSubset
  <1>2. PICK y \in r : SumFunctionOnSet(f, r) # f[y] + SumFunctionOnSet(f, r \ {y})
    OBVIOUS
  <1> DEFINE e == Element(r)
             both == r \ {e, y}
  <1>3. e \in r
    BY <1>2, ElementOf
  <1>4. IsFiniteSet(r) /\ r \subseteq S
    BY FS_Subset
  <1>5. SumFunctionOnSet(f, r) = f[e] + SumFunctionOnSet(f, r \ {e})
    BY <1>2, <1>4, SumUnfold
  <1>6. y # e
    BY <1>2, <1>5
  <1>7. r \ {e} \in SUBSET S /\ r \ {e} # r /\ r \ {y} \in SUBSET S /\ r \ {y} # r
    BY <1>3, <1>4
  <1>8. Takes(r \ {e}) /\ Takes(r \ {y})
    BY <1>1, <1>7
  <1>9. /\ SumFunctionOnSet(f, r \ {e}) = f[y] + SumFunctionOnSet(f, both)
        /\ SumFunctionOnSet(f, r \ {y}) = f[e] + SumFunctionOnSet(f, both)
    <2>1. (r \ {e}) \ {y} = both /\ (r \ {y}) \ {e} = both
      OBVIOUS
    <2>2. y \in r \ {e} /\ e \in r \ {y}
      BY <1>3, <1>6
    <2> QED
      BY <1>8, <2>1, <2>2
  <1>10. SumFunctionOnSet(f, both) \in Int
    <2>1. IsFiniteSet(both) /\ \A i \in both : f[i] \in Int
      BY <1>4, FS_Subset
    <2> QED
      BY <2>1, SumType
  <1>11. f[y] \in Int /\ f[e] \in Int
    BY <1>3, <1>4
  <1> HIDE DEF e, both
  <1> QED
    BY <1>2, <1>5, <1>9, <1>10, <1>11

\* An element that is not in the set yet adds its value.
LEMMA SumAdd ==
    ASSUME NEW S, IsFiniteSet(S), NEW x, x \notin S,
           NEW f, \A i \in S \cup {x} : f[i] \in Int
    PROVE  SumFunctionOnSet(f, S \cup {x}) = f[x] + SumFunctionOnSet(f, S)
  <1>1. IsFiniteSet(S \cup {x}) /\ (S \cup {x}) \ {x} = S
    BY FS_AddElement
  <1> QED
    BY <1>1, SumTake

\* The sum over two sets with no element in common.
LEMMA SumSplit ==
    ASSUME NEW S, IsFiniteSet(S), NEW T, IsFiniteSet(T), S \cap T = {},
           NEW f, \A i \in S \cup T : f[i] \in Int
    PROVE  SumFunctionOnSet(f, S \cup T) = SumFunctionOnSet(f, S) + SumFunctionOnSet(f, T)
  <1> DEFINE Splits(r) == SumFunctionOnSet(f, S \cup r)
                            = SumFunctionOnSet(f, S) + SumFunctionOnSet(f, r)
             Wrong == {r \in SUBSET T : ~Splits(r)}
  <1> SUFFICES ASSUME Wrong # {} PROVE FALSE
    OBVIOUS
  <1>1. PICK r \in Wrong : \A y \in Wrong : y \subseteq r => y = r
    <2>1. Wrong \in SUBSET (SUBSET T)
      OBVIOUS
    <2> HIDE DEF Wrong
    <2> QED
      BY <2>1, SmallestSubset
  <1>2. IsFiniteSet(r) /\ r \subseteq T /\ ~Splits(r)
    BY FS_Subset
  <1>3. SumFunctionOnSet(f, S) \in Int
    BY SumType
  <1>4. r # {}
    <2>1. S \cup {} = S
      OBVIOUS
    <2> QED
      BY <1>2, <1>3, <2>1, SumEmpty
  <1> DEFINE e == Element(r)
             rest == r \ {e}
  <1>5. e \in r
    BY <1>4, ElementOf
  <1>6. Splits(rest)
    BY <1>1, <1>2, <1>5
  <1>7. SumFunctionOnSet(f, r) = f[e] + SumFunctionOnSet(f, rest)
    BY <1>2, <1>4, SumUnfold
  <1>8. SumFunctionOnSet(f, S \cup r) = f[e] + SumFunctionOnSet(f, S \cup rest)
    <2>1. IsFiniteSet(S \cup r) /\ \A i \in S \cup r : f[i] \in Int
      BY <1>2, FS_Union
    <2>2. e \in S \cup r /\ (S \cup r) \ {e} = S \cup rest
      BY <1>2, <1>5
    <2> QED
      BY <2>1, <2>2, SumTake
  <1>9. SumFunctionOnSet(f, rest) \in Int /\ f[e] \in Int
    <2>1. IsFiniteSet(rest) /\ (\A i \in rest : f[i] \in Int) /\ f[e] \in Int
      BY <1>2, <1>5, FS_Subset
    <2> QED
      BY <2>1, SumType
  <1> HIDE DEF e, rest
  <1> QED
    BY <1>2, <1>3, <1>6, <1>7, <1>8, <1>9

\* A sum does not depend on how the elements are called.
LEMMA SumRename ==
    ASSUME NEW S, IsFiniteSet(S), NEW T, IsFiniteSet(T), NEW b,
           \A i, j \in S : b[i] = b[j] => i = j,
           \A k \in T : \E i \in S : b[i] = k,
           NEW f, NEW g, \A i \in S : b[i] \in T /\ f[i] = g[b[i]] /\ f[i] \in Int
    PROVE  SumFunctionOnSet(f, S) = SumFunctionOnSet(g, T)
  <1> DEFINE Named(r) == {k \in T : \E i \in r : b[i] = k}
             Same(r) == SumFunctionOnSet(f, r) = SumFunctionOnSet(g, Named(r))
             Wrong == {r \in SUBSET S : ~Same(r)}
  <1>0. Named(S) = T
    OBVIOUS
  <1> SUFFICES ASSUME Wrong # {} PROVE FALSE
    BY <1>0
  <1>1. PICK r \in Wrong : \A y \in Wrong : y \subseteq r => y = r
    <2>1. Wrong \in SUBSET (SUBSET S)
      OBVIOUS
    <2> HIDE DEF Wrong
    <2> QED
      BY <2>1, SmallestSubset
  <1>2. IsFiniteSet(r) /\ r \subseteq S /\ ~Same(r)
    BY FS_Subset
  <1>3. r # {}
    <2>1. Named({}) = {}
      OBVIOUS
    <2> QED
      BY <1>2, <2>1, SumEmpty
  <1> DEFINE e == Element(r)
             rest == r \ {e}
  <1>4. e \in r
    BY <1>3, ElementOf
  <1>5. Same(rest)
    <2>1. rest \in SUBSET S /\ rest # r /\ rest \subseteq r
      BY <1>2, <1>4
    <2> HIDE DEF Same, rest
    <2> QED
      BY <1>1, <2>1
  <1>6. SumFunctionOnSet(f, r) = f[e] + SumFunctionOnSet(f, rest)
    BY <1>2, <1>3, SumUnfold
  <1>7. Named(r) = Named(rest) \cup {b[e]} /\ b[e] \notin Named(rest)
    BY <1>2, <1>4
  <1>8. /\ \A y \in Named(rest) \cup {b[e]} : g[y] \in Int
        /\ IsFiniteSet(Named(rest))
    BY <1>2, <1>4, FS_Subset
  <1> HIDE DEF Named
  <1>9. SumFunctionOnSet(g, Named(r)) = g[b[e]] + SumFunctionOnSet(g, Named(rest))
    <2> DEFINE others == Named(rest)
    <2>1. /\ Named(r) = others \cup {b[e]} /\ b[e] \notin others
          /\ \A y \in others \cup {b[e]} : g[y] \in Int
          /\ IsFiniteSet(others)
      BY <1>7, <1>8
    <2> HIDE DEF others, e
    <2>2. SumFunctionOnSet(g, others \cup {b[e]}) = g[b[e]] + SumFunctionOnSet(g, others)
      BY <2>1, SumAdd
    <2> QED
      BY <2>1, <2>2 DEF others
  <1>10. f[e] = g[b[e]]
    BY <1>2, <1>4
  <1> HIDE DEF e, rest
  <1> QED
    BY <1>2, <1>5, <1>6, <1>9, <1>10

\* The same facts for the sum over the whole domain of a function.
LEMMA TotalSame ==
    ASSUME NEW f, NEW g, IsFiniteSet(DOMAIN f), DOMAIN g = DOMAIN f,
           \A i \in DOMAIN f : g[i] = f[i]
    PROVE  SumFunction(g) = SumFunction(f)
  BY SumSame DEF SumFunction

LEMMA TotalType ==
    ASSUME NEW f, IsFiniteSet(DOMAIN f), NEW N, N \in {Int, Nat},
           \A i \in DOMAIN f : f[i] \in N
    PROVE  SumFunction(f) \in N
  BY SumType DEF SumFunction

LEMMA TotalEmpty == ASSUME NEW f, DOMAIN f = {} PROVE SumFunction(f) = 0
  BY SumEmpty DEF SumFunction

LEMMA TotalAdd ==
    ASSUME NEW f, IsFiniteSet(DOMAIN f), \A i \in DOMAIN f : f[i] \in Int,
           NEW x, x \notin DOMAIN f,
           NEW g, DOMAIN g = DOMAIN f \cup {x}, \A i \in DOMAIN f : g[i] = f[i],
           g[x] \in Int
    PROVE  SumFunction(g) = g[x] + SumFunction(f)
  <1>1. \A i \in DOMAIN f \cup {x} : g[i] \in Int
    OBVIOUS
  <1>2. SumFunctionOnSet(g, DOMAIN f \cup {x}) = g[x] + SumFunctionOnSet(g, DOMAIN f)
    BY <1>1, SumAdd
  <1>3. SumFunctionOnSet(g, DOMAIN f) = SumFunctionOnSet(f, DOMAIN f)
    BY SumSame
  <1> QED
    BY <1>2, <1>3 DEF SumFunction

LEMMA TotalJoin ==
    ASSUME NEW f, IsFiniteSet(DOMAIN f), \A i \in DOMAIN f : f[i] \in Int,
           NEW g, IsFiniteSet(DOMAIN g), \A i \in DOMAIN g : g[i] \in Int,
           DOMAIN f \cap DOMAIN g = {},
           NEW h, DOMAIN h = DOMAIN f \cup DOMAIN g,
           \A i \in DOMAIN f : h[i] = f[i], \A i \in DOMAIN g : h[i] = g[i]
    PROVE  SumFunction(h) = SumFunction(f) + SumFunction(g)
  <1>1. \A i \in DOMAIN f \cup DOMAIN g : h[i] \in Int
    OBVIOUS
  <1>2. SumFunctionOnSet(h, DOMAIN f \cup DOMAIN g)
          = SumFunctionOnSet(h, DOMAIN f) + SumFunctionOnSet(h, DOMAIN g)
    BY <1>1, SumSplit
  <1>3. /\ SumFunctionOnSet(h, DOMAIN f) = SumFunctionOnSet(f, DOMAIN f)
        /\ SumFunctionOnSet(h, DOMAIN g) = SumFunctionOnSet(g, DOMAIN g)
    BY SumSame
  <1> QED
    BY <1>2, <1>3 DEF SumFunction

LEMMA TotalRename ==
    ASSUME NEW f, IsFiniteSet(DOMAIN f), NEW g, IsFiniteSet(DOMAIN g), NEW b,
           \A i, j \in DOMAIN f : b[i] = b[j] => i = j,
           \A k \in DOMAIN g : \E i \in DOMAIN f : b[i] = k,
           \A i \in DOMAIN f : b[i] \in DOMAIN g /\ f[i] = g[b[i]] /\ f[i] \in Int
    PROVE  SumFunction(f) = SumFunction(g)
  BY SumRename DEF SumFunction

\* A sum in which nothing is positive is not positive.
LEMMA SumNegative ==
    ASSUME NEW S, IsFiniteSet(S), NEW f, \A i \in S : f[i] \in Int /\ f[i] <= 0
    PROVE  SumFunctionOnSet(f, S) \in Int /\ SumFunctionOnSet(f, S) <= 0
  <1> DEFINE Wrong == {r \in SUBSET S : ~(SumFunctionOnSet(f, r) <= 0)}
  <1>1. SumFunctionOnSet(f, S) \in Int
    BY SumType
  <1>2. SUFFICES ASSUME Wrong # {} PROVE FALSE
    BY <1>1
  <1>3. PICK r \in Wrong : \A y \in Wrong : y \subseteq r => y = r
    <2>1. Wrong \in SUBSET (SUBSET S)
      OBVIOUS
    <2> HIDE DEF Wrong
    <2> QED
      BY <1>2, <2>1, SmallestSubset
  <1>4. IsFiniteSet(r) /\ r \subseteq S
    BY FS_Subset
  <1>5. r # {}
    BY SumEmpty
  <1>6. Element(r) \in r
    BY <1>5, ElementOf
  <1>7. SumFunctionOnSet(f, r \ {Element(r)}) <= 0
    BY <1>3, <1>6
  <1>8. SumFunctionOnSet(f, r \ {Element(r)}) \in Int /\ SumFunctionOnSet(f, r) \in Int
    BY <1>4, SumType, FS_RemoveElement
  <1> QED
    BY <1>4, <1>5, <1>6, <1>7, <1>8, SumUnfold

\* A sum of zeros is zero.
LEMMA SumZero ==
    ASSUME NEW S, IsFiniteSet(S), NEW f, \A i \in S : f[i] = 0
    PROVE  SumFunctionOnSet(f, S) = 0
  <1>1. SumFunctionOnSet(f, S) \in Nat
    <2>1. Nat \in {Int, Nat} /\ \A i \in S : f[i] \in Nat
      OBVIOUS
    <2> QED
      BY <2>1, SumType
  <1>2. SumFunctionOnSet(f, S) <= 0
    BY SumNegative
  <1> QED
    BY <1>1, <1>2

\* A sum over a set that another one is mapped into, one to one: the sum of the other
\* one, and of what it does not reach.
LEMMA SumInto ==
    ASSUME NEW S, IsFiniteSet(S), NEW T, IsFiniteSet(T), NEW b,
           \A i, j \in S : b[i] = b[j] => i = j,
           NEW f, NEW g, \A i \in S : b[i] \in T /\ f[i] = g[b[i]],
           \A k \in T : g[k] \in Int,
           NEW others, others = {k \in T : \A i \in S : b[i] # k}
    PROVE  SumFunctionOnSet(g, T) = SumFunctionOnSet(f, S) + SumFunctionOnSet(g, others)
  <1> DEFINE Reached == {k \in T : \E i \in S : b[i] = k}
             Others == {k \in T : \A i \in S : b[i] # k}
  <1>1. IsFiniteSet(Reached) /\ IsFiniteSet(Others)
    BY FS_Subset
  <1>2. T = Reached \cup Others /\ Reached \cap Others = {}
    OBVIOUS
  <1>3. SumFunctionOnSet(g, T) = SumFunctionOnSet(g, Reached) + SumFunctionOnSet(g, Others)
    <2> HIDE DEF Reached, Others
    <2> QED
      BY <1>1, <1>2, SumSplit
  <1>4. SumFunctionOnSet(f, S) = SumFunctionOnSet(g, Reached)
    <2>1. /\ \A k \in Reached : \E i \in S : b[i] = k
          /\ \A i \in S : b[i] \in Reached /\ f[i] = g[b[i]] /\ f[i] \in Int
      OBVIOUS
    <2> HIDE DEF Reached
    <2> QED
      BY <1>1, <2>1, SumRename
  <1> QED
    BY <1>3, <1>4

\* The last value of a running total is the sum of its steps.
LEMMA RunningTotal ==
    ASSUME NEW n \in Nat, NEW h, NEW d, h[0] = 0,
           \A k \in 1..n : d[k] \in Int /\ h[k] = h[k - 1] + d[k]
    PROVE  h[n] = SumFunctionOnSet(d, 1..n)
  <1> DEFINE Right(k) == h[k] = SumFunctionOnSet(d, 1..k)
             Wrong == {r \in SUBSET (0..n) : \E k \in 0..n : r = 0..k /\ ~Right(k)}
  <1> SUFFICES ASSUME ~Right(n) PROVE FALSE
    OBVIOUS
  <1>1. 0..n \in Wrong
    OBVIOUS
  <1>2. PICK r \in Wrong : \A y \in Wrong : y \subseteq r => y = r
    <2>1. Wrong \in SUBSET (SUBSET (0..n)) /\ Wrong # {}
      BY <1>1
    <2> DEFINE All == 0..n
    <2>2. IsFiniteSet(All)
      BY FS_Interval
    <2>3. Wrong \in SUBSET (SUBSET All) /\ Wrong # {}
      BY <2>1
    <2> HIDE DEF Wrong, All
    <2> QED
      BY <2>2, <2>3, SmallestSubset
  <1>3. PICK k \in 0..n : r = 0..k /\ ~Right(k)
    OBVIOUS
  <1>4. k # 0
    <2>1. 1..0 = {}
      OBVIOUS
    <2>2. Right(0)
      BY <2>1, SumEmpty
    <2> QED
      BY <1>3, <2>2
  <1>5. Right(k - 1)
    <2>1. 0..(k - 1) \subseteq r /\ 0..(k - 1) # r /\ k - 1 \in 0..n
      BY <1>3, <1>4
    <2>2. 0..(k - 1) \in Wrong \/ Right(k - 1)
      BY <2>1, <1>3
    <2> QED
      BY <1>2, <2>1, <2>2
  <1>6. SumFunctionOnSet(d, 1..k) = d[k] + SumFunctionOnSet(d, 1..(k - 1))
    <2> DEFINE before == 1..(k - 1)
    <2>1. IsFiniteSet(before)
      <3>1. k - 1 \in Int
        OBVIOUS
      <3> QED
        BY <3>1, FS_Interval
    <2>2. 1..k = before \cup {k} /\ k \notin before
      BY <1>4
    <2>3. \A i \in before \cup {k} : d[i] \in Int
      BY <1>4
    <2> HIDE DEF before
    <2>4. SumFunctionOnSet(d, before \cup {k}) = d[k] + SumFunctionOnSet(d, before)
      BY <2>1, <2>2, <2>3, SumAdd
    <2> QED
      BY <2>2, <2>4 DEF before
  <1>7. h[k] = h[k - 1] + d[k] /\ d[k] \in Int
    BY <1>4
  <1>8. SumFunctionOnSet(d, 1..(k - 1)) \in Int
    <2>1. k - 1 \in Int /\ \A i \in 1..(k - 1) : d[i] \in Int
      OBVIOUS
    <2>2. IsFiniteSet(1..(k - 1)) /\ Int \in {Int, Nat}
      BY <2>1, FS_Interval
    <2> QED
      BY <2>1, <2>2, SumType
  <1> QED
    BY <1>3, <1>5, <1>6, <1>7, <1>8

\* One value of a function is changed.
LEMMA TotalChange ==
    ASSUME NEW f, IsFiniteSet(DOMAIN f), \A i \in DOMAIN f : f[i] \in Int,
           NEW x \in DOMAIN f, NEW d \in Int,
           NEW g, DOMAIN g = DOMAIN f, g[x] = f[x] + d,
           \A i \in DOMAIN f \ {x} : g[i] = f[i]
    PROVE  SumFunction(g) = SumFunction(f) + d
  <1> DEFINE R == DOMAIN f \ {x}
  <1>1. IsFiniteSet(R)
    BY FS_RemoveElement
  <1>2. SumFunctionOnSet(f, DOMAIN f) = f[x] + SumFunctionOnSet(f, R)
    BY SumTake
  <1>3. SumFunctionOnSet(g, DOMAIN f) = g[x] + SumFunctionOnSet(g, R)
    <2>1. \A i \in DOMAIN f : g[i] \in Int
      OBVIOUS
    <2> QED
      BY <2>1, SumTake
  <1>4. SumFunctionOnSet(g, R) = SumFunctionOnSet(f, R)
    BY <1>1, SumSame
  <1>5. SumFunctionOnSet(f, R) \in Int
    BY <1>1, SumType
  <1> QED
    BY <1>2, <1>3, <1>4, <1>5 DEF SumFunction
=============================================================================
