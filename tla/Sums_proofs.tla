---------------------------- MODULE Sums_proofs ----------------------------
(***************************************************************************)
(* Sums of a function over a finite set of indices, as the statistics and  *)
(* the calendar use them.  A sum is a fold, defined by recursion over      *)
(* subsets; what is known of it comes from the least subset for which it   *)
(* were otherwise.                                                         *)
(***************************************************************************)
EXTENDS Integers, Functions, FiniteSetTheorems, WellFoundedInduction, TLAPS

SumOver(f, S) == SumFunctionOnSet(f, S)

\* Every set of natural numbers has a least element.
LEMMA LeastNatural ==
    ASSUME NEW T \in SUBSET Nat, T # {}
    PROVE  \E x \in T : \A y \in T : x <= y
<1>1. PICK x \in T : \A y \in T : ~ (<<y, x>> \in OpToRel(<, Nat))
  BY NatLessThanWellFounded, WFMin
<1>2. \A y \in T : ~(y < x)
  BY <1>1 DEF OpToRel
<1> QED BY <1>2

\* And every set of subsets of a finite set one that is smallest.
LEMMA SmallestSubset ==
    ASSUME NEW S, IsFiniteSet(S), NEW C \in SUBSET (SUBSET S), C # {}
    PROVE  \E m \in C : \A t \in C : Cardinality(m) <= Cardinality(t)
<1> DEFINE sizes == {Cardinality(c) : c \in C}
<1>1. sizes \in SUBSET Nat
  BY FS_Subset, FS_CardinalityType
<1>2. sizes # {}
  OBVIOUS
<1>3. PICK n \in sizes : \A k \in sizes : n <= k
  BY <1>1, <1>2, LeastNatural
<1> QED BY <1>3

-----------------------------------------------------------------------------
(* The function a fold is defined by.                                      *)
Pick(s) == CHOOSE x \in s : TRUE
Sums(f, C, iter) ==
    iter = [s \in C |-> IF s = {} THEN 0 ELSE f[Pick(s)] + iter[s \ {Pick(s)}]]
Smaller(S, n) == {s \in SUBSET S : Cardinality(s) <= n}

LEMMA PickIsMember == \A s : s # {} => Pick(s) \in s
BY DEF Pick

LEMMA SumOverIsFold ==
    ASSUME NEW f, NEW S
    PROVE  SumOver(f, S) = (CHOOSE iter : Sums(f, SUBSET S, iter))[S]
BY DEF SumOver, SumFunctionOnSet, FoldFunctionOnSet, MapThenFoldSet, Sums, Pick

\* Taking the picked element away makes a set smaller.
LEMMA PickedIsSmaller ==
    ASSUME NEW S, IsFiniteSet(S), NEW n \in Nat, NEW s \in Smaller(S, n + 1), s # {}
    PROVE  s \ {Pick(s)} \in Smaller(S, n)
<1>1. IsFiniteSet(s) /\ Cardinality(s) <= n + 1 /\ Pick(s) \in s
  BY FS_Subset, PickIsMember DEF Smaller
<1>2. Cardinality(s \ {Pick(s)}) = Cardinality(s) - 1 /\ Cardinality(s) \in Nat
  BY <1>1, FS_RemoveElement, FS_CardinalityType
<1> QED BY <1>1, <1>2 DEF Smaller

LEMMA OneLess ==
    ASSUME NEW S, IsFiniteSet(S), NEW x \in S
    PROVE  /\ IsFiniteSet(S \ {x})
           /\ Cardinality(S) \in Nat /\ Cardinality(S \ {x}) \in Nat
           /\ Cardinality(S \ {x}) < Cardinality(S)
<1>1. IsFiniteSet(S \ {x}) /\ Cardinality(S \ {x}) = Cardinality(S) - 1
  BY FS_RemoveElement
<1>2. Cardinality(S) \in Nat /\ Cardinality(S \ {x}) \in Nat
  BY <1>1, FS_CardinalityType
<1> QED BY <1>1, <1>2

\* Below a smallest member of a set of subsets there is no other.
LEMMA NoneBelow ==
    ASSUME NEW S, IsFiniteSet(S), NEW C \in SUBSET (SUBSET S),
           NEW m \in C, \A t \in C : Cardinality(m) <= Cardinality(t), NEW x \in m
    PROVE  m \ {x} \in SUBSET S /\ m \ {x} \notin C
<1>1. IsFiniteSet(m)
  BY FS_Subset
<1> QED BY <1>1, OneLess

LEMMA OnlyEmptyIsSmallest ==
    ASSUME NEW S, IsFiniteSet(S)
    PROVE  Smaller(S, 0) = {{}}
<1>1. \A s \in SUBSET S : IsFiniteSet(s) /\ Cardinality(s) \in Nat
  BY FS_Subset, FS_CardinalityType
<1> QED BY <1>1, FS_EmptySet DEF Smaller

LEMMA SumsExistUpTo ==
    ASSUME NEW f, NEW S, IsFiniteSet(S)
    PROVE  \A n \in Nat : \E iter : Sums(f, Smaller(S, n), iter)
<1> DEFINE without == {n \in Nat : ~ \E iter : Sums(f, Smaller(S, n), iter)}
<1> SUFFICES ASSUME without # {} PROVE FALSE
  OBVIOUS
<1>1. PICK n \in without : \A k \in without : n <= k
  BY LeastNatural
<1>2. n # 0
  <2>1. Sums(f, Smaller(S, 0), [s \in Smaller(S, 0) |-> 0])
    BY OnlyEmptyIsSmallest DEF Sums
  <2> QED BY <2>1, <1>1
<1>3. n \in Nat /\ n - 1 \in Nat /\ n - 1 \notin without
  BY <1>1, <1>2
<1>4. PICK known : Sums(f, Smaller(S, n - 1), known)
  BY <1>3
<1> DEFINE new == [s \in Smaller(S, n) |->
                      IF s = {} THEN 0 ELSE f[Pick(s)] + known[s \ {Pick(s)}]]
<1>5. \A s \in Smaller(S, n) : s # {} => s \ {Pick(s)} \in Smaller(S, n - 1)
  BY PickedIsSmaller, <1>3
<1>6. Smaller(S, n - 1) \subseteq Smaller(S, n)
  <2>1. \A s \in SUBSET S : Cardinality(s) \in Nat
    BY FS_Subset, FS_CardinalityType
  <2> QED BY <2>1, <1>3 DEF Smaller
<1>7. \A s \in Smaller(S, n - 1) : known[s] = new[s]
  BY <1>4, <1>6 DEF Sums
<1>8. Sums(f, Smaller(S, n), new)
  BY <1>5, <1>7 DEF Sums
<1> QED BY <1>1, <1>8

LEMMA SumsExist ==
    ASSUME NEW f, NEW S, IsFiniteSet(S)
    PROVE  \E iter : Sums(f, SUBSET S, iter)
<1>1. Smaller(S, Cardinality(S)) = SUBSET S /\ Cardinality(S) \in Nat
  BY FS_Subset, FS_CardinalityType DEF Smaller
<1>2. \E iter : Sums(f, Smaller(S, Cardinality(S)), iter)
  BY <1>1, SumsExistUpTo
<1> QED BY <1>1, <1>2

-----------------------------------------------------------------------------
(* What sums are.                                                          *)
Fold(f, S) == CHOOSE iter : Sums(f, SUBSET S, iter)

LEMMA FoldSums ==
    ASSUME NEW f, NEW S, IsFiniteSet(S)
    PROVE  Sums(f, SUBSET S, Fold(f, S)) /\ SumOver(f, S) = Fold(f, S)[S]
<1>1. \E iter : Sums(f, SUBSET S, iter)
  BY SumsExist
<1>2. Sums(f, SUBSET S, Fold(f, S))
  BY <1>1 DEF Fold
<1> QED BY <1>2, SumOverIsFold DEF Fold

\* Two folds agree where both are defined.
LEMMA FoldsAgree ==
    ASSUME NEW f, NEW g, NEW S, IsFiniteSet(S), NEW T \in SUBSET S,
           \A x \in T : f[x] = g[x]
    PROVE  Fold(f, S)[T] = Fold(g, T)[T]
<1> DEFINE a == Fold(f, S)
<1> DEFINE b == Fold(g, T)
<1>0. Sums(f, SUBSET S, a) /\ Sums(g, SUBSET T, b)
  BY FS_Subset, FoldSums
<1> HIDE DEF a, b
<1> DEFINE differ == {s \in SUBSET T : a[s] # b[s]}
<1> SUFFICES ASSUME differ # {} PROVE FALSE
  <2>1. T \in SUBSET T
    OBVIOUS
  <2> QED BY <2>1 DEF a, b
<1>1. IsFiniteSet(T)
  BY FS_Subset
<1>2. PICK m \in differ : \A t \in differ : Cardinality(m) <= Cardinality(t)
  BY <1>1, SmallestSubset
<1>3. m \in SUBSET T /\ m \in SUBSET S
  OBVIOUS
<1>4. m # {}
  BY <1>0, <1>2, <1>3 DEF Sums
<1>5. Pick(m) \in m /\ IsFiniteSet(m)
  BY <1>1, <1>3, <1>4, PickIsMember, FS_Subset
<1>6. Cardinality(m \ {Pick(m)}) < Cardinality(m)
  BY <1>5, OneLess
<1>7. m \ {Pick(m)} \in SUBSET T /\ m \ {Pick(m)} \notin differ
  <2>1. Cardinality(m) \in Nat /\ Cardinality(m \ {Pick(m)}) \in Nat
    BY <1>5, OneLess
  <2> QED BY <1>2, <1>3, <1>6, <2>1
<1>8. a[m] = f[Pick(m)] + a[m \ {Pick(m)}] /\ b[m] = g[Pick(m)] + b[m \ {Pick(m)}]
  BY <1>0, <1>3, <1>4 DEF Sums
<1> QED BY <1>2, <1>3, <1>5, <1>7, <1>8

\* The sum over nothing is 0.
LEMMA EmptySum == \A f : SumOver(f, {}) = 0
<1> TAKE f
<1>1. IsFiniteSet({}) /\ {} \in SUBSET {}
  BY FS_EmptySet
<1> QED BY <1>1, FoldSums DEF Sums

\* A sum depends on the values it adds up, and on nothing else of them.
LEMMA SameSum ==
    ASSUME NEW f, NEW g, NEW S, IsFiniteSet(S), \A x \in S : f[x] = g[x]
    PROVE  SumOver(f, S) = SumOver(g, S)
<1>1. S \in SUBSET S
  OBVIOUS
<1>2. Fold(f, S)[S] = Fold(g, S)[S]
  BY <1>1, FoldsAgree
<1> QED BY <1>2, FoldSums

LEMMA PickedSum ==
    ASSUME NEW f, NEW S, IsFiniteSet(S), S # {}
    PROVE  SumOver(f, S) = f[Pick(S)] + SumOver(f, S \ {Pick(S)})
<1> DEFINE T == S \ {Pick(S)}
<1>1. IsFiniteSet(T) /\ T \in SUBSET S /\ S \in SUBSET S
  BY FS_Subset
<1>2. Fold(f, S)[T] = Fold(f, T)[T]
  <2> HIDE DEF T
  <2> QED BY <1>1, FoldsAgree
<1>3. Fold(f, S)[S] = f[Pick(S)] + Fold(f, S)[T]
  BY <1>1, FoldSums DEF Sums
<1> QED BY <1>1, <1>2, <1>3, FoldSums

\* A sum of integers is one, and of natural numbers too.
LEMMA SumType ==
    ASSUME NEW f, NEW S, IsFiniteSet(S), \A x \in S : f[x] \in Int
    PROVE  /\ SumOver(f, S) \in Int
           /\ (\A x \in S : f[x] \in Nat) => SumOver(f, S) \in Nat
<1> DEFINE OK(s) == /\ SumOver(f, s) \in Int
                    /\ (\A x \in s : f[x] \in Nat) => SumOver(f, s) \in Nat
<1> DEFINE bad == {s \in SUBSET S : ~OK(s)}
<1> SUFFICES ASSUME bad # {} PROVE FALSE
  OBVIOUS
<1>1. PICK m \in bad : \A t \in bad : Cardinality(m) <= Cardinality(t)
  BY SmallestSubset
<1>2. m \in SUBSET S /\ IsFiniteSet(m) /\ m # {}
  <2>1. m \in SUBSET S /\ ~OK(m)
    BY <1>1
  <2>2. OK({})
    BY EmptySum
  <2> HIDE DEF OK
  <2> QED BY <2>1, <2>2, FS_Subset
<1> DEFINE rest == m \ {Pick(m)}
<1>3. Pick(m) \in m /\ IsFiniteSet(rest) /\ Cardinality(rest) < Cardinality(m)
      /\ Cardinality(rest) \in Nat /\ Cardinality(m) \in Nat
  BY <1>2, PickIsMember, OneLess
<1>4. OK(rest)
  BY <1>1, <1>2, <1>3
<1>5. SumOver(f, m) = f[Pick(m)] + SumOver(f, rest)
  BY <1>2, PickedSum
<1>6. f[Pick(m)] \in Int
  BY <1>2, <1>3
<1>7. OK(m)
  BY <1>3, <1>4, <1>5, <1>6
<1> QED BY <1>1, <1>7

\* Any element may be added last.
LEMMA SumWithout ==
    ASSUME NEW f, NEW S, IsFiniteSet(S), \A x \in S : f[x] \in Int
    PROVE  \A x \in S : SumOver(f, S) = f[x] + SumOver(f, S \ {x})
<1> DEFINE OK(s) == \A x \in s : SumOver(f, s) = f[x] + SumOver(f, s \ {x})
<1> DEFINE bad == {s \in SUBSET S : ~OK(s)}
<1> SUFFICES ASSUME bad # {} PROVE FALSE
  <2>1. S \in SUBSET S /\ S \notin bad => OK(S)
    OBVIOUS
  <2> QED BY <2>1
<1>1. PICK m \in bad : \A t \in bad : Cardinality(m) <= Cardinality(t)
  BY SmallestSubset
<1>2. m \in SUBSET S /\ IsFiniteSet(m)
  BY <1>1, FS_Subset
<1>3. PICK x \in m : SumOver(f, m) # f[x] + SumOver(f, m \ {x})
  BY <1>1
<1> DEFINE p == Pick(m)
<1>4. p \in m /\ SumOver(f, m) = f[p] + SumOver(f, m \ {p})
  BY <1>2, <1>3, PickIsMember, PickedSum
<1>5. p # x
  BY <1>3, <1>4
<1>6. SumOver(f, m \ {p}) = f[x] + SumOver(f, (m \ {p}) \ {x})
  <2>1. m \ {p} \in SUBSET S /\ m \ {p} \notin bad
    <3>1. bad \in SUBSET (SUBSET S) /\ m \in bad
      BY <1>1
    <3> HIDE DEF bad, p
    <3> QED BY <3>1, <1>1, <1>4, NoneBelow
  <2>2. OK(m \ {p}) /\ x \in m \ {p}
    BY <2>1, <1>3, <1>5
  <2> QED BY <2>2
<1>7. SumOver(f, m \ {x}) = f[p] + SumOver(f, (m \ {x}) \ {p})
  <2>1. m \ {x} \in SUBSET S /\ m \ {x} \notin bad
    <3>1. bad \in SUBSET (SUBSET S) /\ m \in bad
      BY <1>1
    <3> HIDE DEF bad
    <3> QED BY <3>1, <1>1, <1>3, NoneBelow
  <2>2. OK(m \ {x}) /\ p \in m \ {x}
    BY <2>1, <1>4, <1>5
  <2> QED BY <2>2
<1>8. (m \ {p}) \ {x} = (m \ {x}) \ {p}
  OBVIOUS
<1>9. f[p] \in Int /\ f[x] \in Int /\ SumOver(f, (m \ {x}) \ {p}) \in Int
  <2>1. IsFiniteSet((m \ {x}) \ {p}) /\ \A y \in (m \ {x}) \ {p} : f[y] \in Int
    BY <1>2, FS_Subset
  <2>2. SumOver(f, (m \ {x}) \ {p}) \in Int
    <3> HIDE DEF p
    <3> QED BY <2>1, SumType
  <2>3. p \in S /\ x \in S
    BY <1>2, <1>3, <1>4
  <2> HIDE DEF p, bad
  <2>4. f[p] \in Int /\ f[x] \in Int
    BY <2>3
  <2> QED BY <2>2, <2>4
<1> DEFINE u == SumOver(f, (m \ {x}) \ {p})
<1>10. SumOver(f, m) = f[p] + (f[x] + u)
  BY <1>4, <1>6, <1>8
<1>11. f[x] + SumOver(f, m \ {x}) = f[x] + (f[p] + u)
  BY <1>7
<1> HIDE DEF p, OK, bad, u
<1>12. f[p] + (f[x] + u) = f[x] + (f[p] + u)
  BY <1>9 DEF u
<1> QED BY <1>3, <1>10, <1>11, <1>12

\* The sums over two disjoint sets add up.
LEMMA SumOfUnion ==
    ASSUME NEW f, NEW S, NEW T, IsFiniteSet(S), IsFiniteSet(T), S \cap T = {},
           \A x \in S \cup T : f[x] \in Int
    PROVE  SumOver(f, S \cup T) = SumOver(f, S) + SumOver(f, T)
<1> DEFINE OK(s) == SumOver(f, s \cup T) = SumOver(f, s) + SumOver(f, T)
<1> DEFINE bad == {s \in SUBSET S : ~OK(s)}
<1> SUFFICES ASSUME bad # {} PROVE FALSE
  <2>1. S \in SUBSET S /\ S \notin bad => OK(S)
    OBVIOUS
  <2> QED BY <2>1
<1>1. PICK m \in bad : \A t \in bad : Cardinality(m) <= Cardinality(t)
  BY SmallestSubset
<1>2. m \in SUBSET S /\ IsFiniteSet(m) /\ IsFiniteSet(m \cup T)
  BY <1>1, FS_Subset, FS_Union
<1>3. SumOver(f, T) \in Int
  BY SumType
<1>4. m # {}
  <2>1. OK({})
    BY <1>3, EmptySum
  <2> QED BY <1>1, <2>1
<1>5. PICK x : x \in m
  BY <1>4
<1> DEFINE rest == m \ {x}
<1>6. OK(rest)
  <2>1. rest \in SUBSET S /\ rest \notin bad
    <3>1. bad \in SUBSET (SUBSET S) /\ m \in bad
      BY <1>1
    <3> HIDE DEF bad
    <3> QED BY <3>1, <1>1, <1>5, NoneBelow
  <2> QED BY <2>1
<1>7. SumOver(f, m \cup T) = f[x] + SumOver(f, rest \cup T)
  <2>1. (m \cup T) \ {x} = rest \cup T
    BY <1>2, <1>5
  <2>2. \A y \in m \cup T : f[y] \in Int
    BY <1>2
  <2>3. SumOver(f, m \cup T) = f[x] + SumOver(f, (m \cup T) \ {x})
    BY <1>2, <1>5, <2>2, SumWithout
  <2> QED BY <2>1, <2>3
<1>8. SumOver(f, m) = f[x] + SumOver(f, rest)
  BY <1>2, <1>5, SumWithout
<1>9. f[x] \in Int /\ SumOver(f, rest) \in Int
  <2>1. IsFiniteSet(rest) /\ rest \in SUBSET S
    BY <1>2, FS_Subset
  <2> QED BY <2>1, <1>2, <1>5, SumType
<1>10. OK(m)
  BY <1>3, <1>6, <1>7, <1>8, <1>9
<1> QED BY <1>1, <1>10

\* The sum over a set in parts is the sum over the parts.
LEMMA SumOfParts ==
    ASSUME NEW f, NEW C, IsFiniteSet(C), NEW part, \A c \in C : IsFiniteSet(part[c]),
           \A c, d \in C : c # d => part[c] \cap part[d] = {},
           \A c \in C : \A x \in part[c] : f[x] \in Int,
           NEW U, \A x : x \in U <=> \E c \in C : x \in part[c],
           NEW g, \A c \in C : g[c] = SumOver(f, part[c])
    PROVE  SumOver(f, U) = SumOver(g, C)
<1> DEFINE all(s) == UNION {part[c] : c \in s}
           OK(s) == IsFiniteSet(all(s)) /\ SumOver(f, all(s)) = SumOver(g, s)
           bad == {s \in SUBSET C : ~OK(s)}
<1> SUFFICES ASSUME bad # {} PROVE FALSE
  <2>1. C \in SUBSET C /\ C \notin bad => OK(C)
    OBVIOUS
  <2> QED BY <2>1
<1>1. PICK m \in bad : \A t \in bad : Cardinality(m) <= Cardinality(t)
  BY SmallestSubset
<1>2. m \in SUBSET C /\ IsFiniteSet(m)
  BY <1>1, FS_Subset
<1>3. m # {}
  <2>1. all({}) = {}
    OBVIOUS
  <2>2. OK({})
    BY <2>1, EmptySum, FS_EmptySet
  <2> QED BY <1>1, <2>2
<1>4. PICK x : x \in m
  BY <1>3
<1> DEFINE rest == m \ {x}
<1>5. OK(rest)
  <2>1. rest \in SUBSET C /\ rest \notin bad
    <3>1. bad \in SUBSET (SUBSET C) /\ m \in bad
      BY <1>1
    <3> HIDE DEF bad
    <3> QED BY <3>1, <1>1, <1>4, NoneBelow
  <2> QED BY <2>1
<1>6. all(m) = all(rest) \cup part[x] /\ all(rest) \cap part[x] = {}
  <2>1. x \in C /\ m = rest \cup {x} /\ rest \subseteq C /\ x \notin rest
    BY <1>2, <1>4
  <2> QED BY <2>1
<1>7. IsFiniteSet(part[x]) /\ IsFiniteSet(all(rest)) /\ IsFiniteSet(all(m))
  <2>1. IsFiniteSet(part[x]) /\ IsFiniteSet(all(rest))
    BY <1>2, <1>4, <1>5
  <2> DEFINE before == all(rest)
             after == part[x]
  <2>2. all(m) = before \cup after /\ IsFiniteSet(before) /\ IsFiniteSet(after)
    BY <1>6, <2>1
  <2> HIDE DEF before, after
  <2>3. IsFiniteSet(before \cup after)
    BY <2>2, FS_Union
  <2> QED BY <2>1, <2>2, <2>3
<1>8. SumOver(f, all(m)) = SumOver(f, all(rest)) + SumOver(f, part[x])
  <2>1. \A y \in all(rest) \cup part[x] : f[y] \in Int
    BY <1>2, <1>4
  <2> HIDE DEF all, rest
  <2> QED BY <1>6, <1>7, <2>1, SumOfUnion
<1>9. SumOver(g, m) = g[x] + SumOver(g, rest)
  <2>1. \A c \in C : g[c] \in Int
    BY SumType
  <2> QED BY <1>2, <1>4, <2>1, SumWithout
<1>10. g[x] = SumOver(f, part[x]) /\ SumOver(f, part[x]) \in Int /\ SumOver(f, all(rest)) \in Int
  <2>1. x \in C /\ \A y \in all(rest) : f[y] \in Int
    BY <1>2, <1>4
  <2> QED BY <1>7, <2>1, SumType
<1>11. OK(m)
  <2> HIDE DEF all, rest
  <2> QED BY <1>5, <1>7, <1>8, <1>9, <1>10
<1> QED BY <1>1, <1>11

\* What is the same throughout is counted.
LEMMA SumOfEqual ==
    ASSUME NEW f, NEW S, IsFiniteSet(S), NEW v \in Int, \A x \in S : f[x] = v
    PROVE  SumOver(f, S) = Cardinality(S) * v
<1> DEFINE OK(s) == SumOver(f, s) = Cardinality(s) * v
           bad == {s \in SUBSET S : ~OK(s)}
<1> SUFFICES ASSUME bad # {} PROVE FALSE
  <2>1. S \in SUBSET S /\ S \notin bad => OK(S)
    OBVIOUS
  <2> QED BY <2>1
<1>1. PICK m \in bad : \A t \in bad : Cardinality(m) <= Cardinality(t)
  BY SmallestSubset
<1>2. m \in SUBSET S /\ IsFiniteSet(m)
  BY <1>1, FS_Subset
<1>3. m # {}
  <2>1. OK({})
    BY EmptySum, FS_EmptySet
  <2> QED BY <1>1, <2>1
<1>4. PICK x : x \in m
  BY <1>3
<1>5. OK(m \ {x})
  <2>1. m \ {x} \in SUBSET S /\ m \ {x} \notin bad
    <3>1. bad \in SUBSET (SUBSET S) /\ m \in bad
      BY <1>1
    <3> HIDE DEF bad
    <3> QED BY <3>1, <1>1, <1>4, NoneBelow
  <2> QED BY <2>1
<1>6. SumOver(f, m) = v + SumOver(f, m \ {x})
  <2>1. \A y \in m : f[y] \in Int /\ f[y] = v
    BY <1>2
  <2> QED BY <1>2, <1>4, <2>1, SumWithout
<1>7. Cardinality(m \ {x}) = Cardinality(m) - 1 /\ Cardinality(m) \in Nat
  BY <1>2, <1>4, FS_RemoveElement, FS_CardinalityType
<1>8. \A n \in Nat : v + (n - 1) * v = n * v
  OBVIOUS
<1>9. OK(m)
  BY <1>5, <1>6, <1>7, <1>8
<1> QED BY <1>1, <1>9
=============================================================================
