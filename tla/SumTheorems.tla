----------------------------- MODULE SumTheorems -----------------------------
(***************************************************************************)
(* What the other proofs need to know of totals over finite sets: they add *)
(* up in any order.                                                        *)
(*                                                                         *)
(* The library's induction theorems are about operators; here a property   *)
(* of sets is the set of the sets that have it, and induction the absence  *)
(* of a least set without it (WFMin).                                      *)
(***************************************************************************)
EXTENDS Sums, FiniteSetTheorems, TLAPS

\* Among sets of a finite set's elements there is one that contains no other.
LEMMA LeastSet ==
    ASSUME NEW S, IsFiniteSet(S), NEW Sets \in SUBSET SUBSET S, Sets # {}
    PROVE  \E T \in Sets : \A U \in Sets : U \subseteq T => U = T
<1>1. IsWellFoundedOn(StrictSubsetOrdering(S), SUBSET S)
  BY FS_StrictSubsetOrderingWellFounded, FS_FiniteSubsetsOfFinite
<1>2. PICK T \in Sets : \A U \in Sets : <<U, T>> \notin StrictSubsetOrdering(S)
  BY <1>1, WFMin, Zenon
<1>3. \A U \in Sets : U \subseteq T => U = T
  BY <1>2 DEF StrictSubsetOrdering
<1> QED
  BY <1>3

\* A family that has the empty set, and with a set the set with one more element,
\* has the whole of a finite set.
LEMMA SubsetInduction ==
    ASSUME NEW S, IsFiniteSet(S), NEW A, {} \in A,
           \A T \in SUBSET S : \A x \in S \ T : T \in A => T \cup {x} \in A
    PROVE  S \in A
<1> DEFINE Bad == {T \in SUBSET S : T \notin A}
<1>1. ASSUME Bad # {} PROVE FALSE
  <2>1. PICK T \in Bad : \A U \in Bad : U \subseteq T => U = T
    <3>1. Bad \in SUBSET SUBSET S
      OBVIOUS
    <3> HIDE DEF Bad
    <3> QED
      BY <1>1, <3>1, LeastSet
  <2>2. PICK x : x \in T
    OBVIOUS
  <2>3. T \ {x} \in A
    BY <2>1, <2>2
  <2>4. (T \ {x}) \cup {x} = T /\ x \in S \ (T \ {x})
    BY <2>2
  <2> QED
    BY <2>3, <2>4
<1> QED
  BY <1>1

-----------------------------------------------------------------------------
(* The function that the fold computes exists.  *)

Chosen(T) == CHOOSE x \in T : TRUE

\* g holds the totals of f over the subsets of S.
TotalsBelow(f, D, g) ==
    g = [T \in D |-> IF T = {} THEN 0 ELSE f[Chosen(T)] + g[T \ {Chosen(T)}]]

Totals(f, S) == CHOOSE g : TotalsBelow(f, SUBSET S, g)

LEMMA SumIsTotal ==
    ASSUME NEW f, NEW S
    PROVE  SumOver(f, S) = Totals(f, S)[S]
BY Zenon DEF SumOver, MapThenSumSet, MapThenFoldSet, Totals, TotalsBelow, Chosen

LEMMA ChosenIn ==
    ASSUME NEW T, T # {}
    PROVE  Chosen(T) \in T
BY DEF Chosen

LEMMA TotalsExist ==
    ASSUME NEW f, NEW S, IsFiniteSet(S)
    PROVE  TotalsBelow(f, SUBSET S, Totals(f, S))
<1> DEFINE Upto(n) == {T \in SUBSET S : Cardinality(T) <= n}
           A == {T \in SUBSET S : \E g : TotalsBelow(f, Upto(Cardinality(T)), g)}
<1>0. \A T \in SUBSET S : IsFiniteSet(T) /\ Cardinality(T) \in Nat
  BY FS_Subset, FS_CardinalityType
<1>1. {} \in A
  <2> DEFINE g == [T \in Upto(0) |-> 0]
  <2>1. Cardinality({}) = 0
    BY FS_EmptySet
  <2>2. \A T \in Upto(0) : T = {}
    BY <1>0, FS_EmptySet
  <2>3. TotalsBelow(f, Upto(0), g)
    BY <2>2 DEF TotalsBelow
  <2> HIDE DEF g
  <2> QED
    BY <2>1, <2>3
<1>2. ASSUME NEW T \in SUBSET S, NEW x \in S \ T, T \in A PROVE T \cup {x} \in A
  <2> DEFINE n == Cardinality(T)
  <2>1. n \in Nat /\ Cardinality(T \cup {x}) = n + 1
    BY <1>0, FS_AddElement
  <2>2. PICK g : TotalsBelow(f, Upto(n), g)
    BY <1>2
  <2> HIDE DEF n
  <2> DEFINE Value(h, U) == IF U = {} THEN 0 ELSE f[Chosen(U)] + h[U \ {Chosen(U)}]
             h == [U \in Upto(n + 1) |-> Value(g, U)]
  <2>3. ASSUME NEW U \in Upto(n + 1), U # {}
        PROVE  U \ {Chosen(U)} \in Upto(n)
    <3>1. Cardinality(U \ {Chosen(U)}) = Cardinality(U) - 1
      BY <1>0, <2>3, ChosenIn, FS_RemoveElement
    <3> QED
      BY <1>0, <2>1, <3>1
  <2>4. \A U \in Upto(n) : U \in Upto(n + 1) /\ h[U] = g[U]
    <3>1. g = [U \in Upto(n) |-> Value(g, U)]
      BY <2>2 DEF TotalsBelow
    <3>2. \A U \in Upto(n) : g[U] = Value(g, U)
      BY <3>1
    <3>3. \A U \in Upto(n) : U \in Upto(n + 1)
      BY <1>0, <2>1
    <3> QED
      BY <3>2, <3>3
  <2>5. \A U \in Upto(n + 1) : Value(h, U) = Value(g, U)
    BY <2>3, <2>4
  <2>6. h = [U \in Upto(n + 1) |-> Value(h, U)]
    BY <2>5
  <2>7. TotalsBelow(f, Upto(n + 1), h)
    BY <2>6 DEF TotalsBelow
  <2> HIDE DEF h
  <2> QED
    BY <2>1, <2>7
<1>3. S \in A
  BY <1>1, <1>2, SubsetInduction
<1>4. Upto(Cardinality(S)) = SUBSET S
  BY FS_Subset
<1>5. \E g : TotalsBelow(f, SUBSET S, g)
  BY <1>3, <1>4
<1> QED
  BY <1>5, Zenon DEF Totals

\* The totals over the subsets of S are those over the subsets of a larger set.
LEMMA TotalsAgree ==
    ASSUME NEW f, NEW R, IsFiniteSet(R), NEW S \in SUBSET R
    PROVE  \A T \in SUBSET S : Totals(f, R)[T] = Totals(f, S)[T]
<1>0. IsFiniteSet(S)
  BY FS_Subset
<1>1. /\ TotalsBelow(f, SUBSET R, Totals(f, R))
      /\ TotalsBelow(f, SUBSET S, Totals(f, S))
  BY <1>0, TotalsExist
<1> DEFINE r == Totals(f, R)
           s == Totals(f, S)
<1> HIDE DEF r, s
<1>2. \A T \in SUBSET R : r[T] = IF T = {} THEN 0 ELSE f[Chosen(T)] + r[T \ {Chosen(T)}]
  BY <1>1 DEF TotalsBelow, r
<1>3. \A T \in SUBSET S : s[T] = IF T = {} THEN 0 ELSE f[Chosen(T)] + s[T \ {Chosen(T)}]
  BY <1>1 DEF TotalsBelow, s
<1> DEFINE Bad == {T \in SUBSET S : r[T] # s[T]}
<1>4. ASSUME Bad # {} PROVE FALSE
  <2>1. PICK T \in Bad : \A U \in Bad : U \subseteq T => U = T
    <3>1. Bad \in SUBSET SUBSET S
      OBVIOUS
    <3> HIDE DEF Bad
    <3> QED
      BY <1>0, <1>4, <3>1, LeastSet
  <2>2. T # {}
    BY <1>2, <1>3
  <2> DEFINE U == T \ {Chosen(T)}
  <2>3. U \in SUBSET S /\ U \subseteq T /\ U # T
    BY <2>2, ChosenIn
  <2>4. r[U] = s[U]
    BY <2>1, <2>3
  <2> QED
    BY <1>2, <1>3, <2>2, <2>4
<1> QED
  BY <1>4 DEF r, s

-----------------------------------------------------------------------------
(* Totals of finite sets.  *)

LEMMA SumOfChosen ==
    ASSUME NEW f, NEW S, IsFiniteSet(S)
    PROVE  SumOver(f, S) =
               IF S = {} THEN 0 ELSE f[Chosen(S)] + SumOver(f, S \ {Chosen(S)})
<1>1. Totals(f, S)[S] = IF S = {} THEN 0 ELSE f[Chosen(S)] + Totals(f, S)[S \ {Chosen(S)}]
  <2> DEFINE g == Totals(f, S)
  <2>1. TotalsBelow(f, SUBSET S, g)
    BY TotalsExist
  <2> HIDE DEF g
  <2>2. \A T \in SUBSET S : g[T] = IF T = {} THEN 0 ELSE f[Chosen(T)] + g[T \ {Chosen(T)}]
    BY <2>1 DEF TotalsBelow
  <2> QED
    BY <2>2 DEF g
<1>2. Totals(f, S)[S \ {Chosen(S)}] = SumOver(f, S \ {Chosen(S)})
  BY TotalsAgree, SumIsTotal
<1> QED
  BY <1>1, <1>2, SumIsTotal

\* Nothing adds up to zero.
THEOREM SumOfNone == \A f : SumOver(f, {}) = 0
BY SumOfChosen, FS_EmptySet

\* Totals of values of a type that is closed under addition have the type.
LEMMA SumType ==
    ASSUME NEW f, NEW S, IsFiniteSet(S), NEW Typ \in {Int, Nat}, \A x \in S : f[x] \in Typ
    PROVE  SumOver(f, S) \in Typ
<1> DEFINE Bad == {T \in SUBSET S : SumOver(f, T) \notin Typ}
<1>1. ASSUME Bad # {} PROVE FALSE
  <2>1. PICK T \in Bad : \A U \in Bad : U \subseteq T => U = T
    <3>1. Bad \in SUBSET SUBSET S
      OBVIOUS
    <3> HIDE DEF Bad
    <3> QED
      BY <1>1, <3>1, LeastSet
  <2> DEFINE c == Chosen(T)
  <2>2. SumOver(f, T) = IF T = {} THEN 0 ELSE f[c] + SumOver(f, T \ {c})
    BY FS_Subset, SumOfChosen
  <2>3. T # {}
    BY <2>2
  <2>4. c \in T
    BY <2>3, ChosenIn
  <2> HIDE DEF c
  <2>5. SumOver(f, T \ {c}) \in Typ
    BY <2>1, <2>4
  <2>6. f[c] \in Typ
    BY <2>4
  <2> QED
    BY <2>2, <2>3, <2>5, <2>6
<1> QED
  BY <1>1

\* Totals of integers are integers ...
THEOREM SumIsInt ==
    ASSUME NEW f, NEW S, IsFiniteSet(S), \A x \in S : f[x] \in Int
    PROVE  SumOver(f, S) \in Int
BY SumType

\* ... and of natural numbers natural.
THEOREM SumIsNat ==
    ASSUME NEW f, NEW S, IsFiniteSet(S), \A x \in S : f[x] \in Nat
    PROVE  SumOver(f, S) \in Nat
BY SumType

\* Any element may be taken out of a total ...
THEOREM SumLess ==
    ASSUME NEW f, NEW S, IsFiniteSet(S), \A x \in S : f[x] \in Int, NEW x \in S
    PROVE  SumOver(f, S) = SumOver(f, S \ {x}) + f[x]
<1> DEFINE Bad == {T \in SUBSET S : \E y \in T : SumOver(f, T) # SumOver(f, T \ {y}) + f[y]}
<1>1. \A T \in SUBSET S : IsFiniteSet(T) /\ SumOver(f, T) \in Int
  BY FS_Subset, SumIsInt
<1>2. ASSUME Bad # {} PROVE FALSE
  <2>1. PICK T \in Bad : \A U \in Bad : U \subseteq T => U = T
    <3>1. Bad \in SUBSET SUBSET S
      OBVIOUS
    <3> HIDE DEF Bad
    <3> QED
      BY <1>2, <3>1, LeastSet
  <2>2. PICK y \in T : SumOver(f, T) # SumOver(f, T \ {y}) + f[y]
    OBVIOUS
  <2> DEFINE c == Chosen(T)
  <2>3. c \in T /\ SumOver(f, T) = f[c] + SumOver(f, T \ {c})
    BY <1>1, SumOfChosen, ChosenIn
  <2> HIDE DEF c
  <2> DEFINE Both == (T \ {c}) \ {y}
  <2>4. c # y
    <3>1. T \ {c} \in SUBSET S
      OBVIOUS
    <3>2. SumOver(f, T \ {c}) \in Int /\ f[c] \in Int
      BY <1>1, <2>3, <3>1
    <3> QED
      BY <2>2, <2>3, <3>2
  <2>5. \A z \in T : T \ {z} \in SUBSET S /\ T \ {z} \notin Bad
    BY <2>1
  <2>6. \A z \in T : \A u \in T \ {z} : SumOver(f, T \ {z}) = SumOver(f, (T \ {z}) \ {u}) + f[u]
    BY <2>5
  <2>7. (T \ {y}) \ {c} = Both /\ Both \in SUBSET S
    OBVIOUS
  <2>8. /\ SumOver(f, T \ {c}) = SumOver(f, Both) + f[y]
        /\ SumOver(f, T \ {y}) = SumOver(f, Both) + f[c]
    BY <2>3, <2>4, <2>6, <2>7
  <2>9. f[c] \in Int /\ f[y] \in Int /\ SumOver(f, Both) \in Int
    BY <1>1, <2>3, <2>7
  <2> HIDE DEF Both, Bad
  <2> QED
    BY <2>2, <2>3, <2>8, <2>9
<1> QED
  BY <1>2

\* ... and added to one.
THEOREM SumMore ==
    ASSUME NEW f, NEW S, IsFiniteSet(S), NEW x, x \notin S,
           \A y \in S \cup {x} : f[y] \in Int
    PROVE  SumOver(f, S \cup {x}) = SumOver(f, S) + f[x]
<1>1. IsFiniteSet(S \cup {x}) /\ (S \cup {x}) \ {x} = S
  BY FS_AddElement
<1> QED
  BY <1>1, SumLess

\* A total depends on the values on its set only.
THEOREM SumSame ==
    ASSUME NEW f, NEW g, NEW S, IsFiniteSet(S), \A x \in S : f[x] = g[x]
    PROVE  SumOver(f, S) = SumOver(g, S)
<1> DEFINE Bad == {T \in SUBSET S : SumOver(f, T) # SumOver(g, T)}
<1>1. ASSUME Bad # {} PROVE FALSE
  <2>1. PICK T \in Bad : \A U \in Bad : U \subseteq T => U = T
    <3>1. Bad \in SUBSET SUBSET S
      OBVIOUS
    <3> HIDE DEF Bad
    <3> QED
      BY <1>1, <3>1, LeastSet
  <2> DEFINE c == Chosen(T)
  <2>2. /\ SumOver(f, T) = IF T = {} THEN 0 ELSE f[c] + SumOver(f, T \ {c})
        /\ SumOver(g, T) = IF T = {} THEN 0 ELSE g[c] + SumOver(g, T \ {c})
    BY FS_Subset, SumOfChosen
  <2>3. T # {}
    BY <2>2
  <2>4. c \in T
    BY <2>3, ChosenIn
  <2> HIDE DEF c
  <2>5. SumOver(f, T \ {c}) = SumOver(g, T \ {c})
    BY <2>1, <2>4
  <2> QED
    BY <2>2, <2>4, <2>5
<1> QED
  BY <1>1

\* Adding up row by row is adding up column by column.
THEOREM SumOfScaled ==
    ASSUME NEW f, NEW g, NEW h, NEW k \in Int, NEW S, IsFiniteSet(S),
           \A x \in S : f[x] \in Int /\ g[x] \in Int /\ h[x] = f[x] * k + g[x]
    PROVE  SumOver(h, S) = SumOver(f, S) * k + SumOver(g, S)
<1> DEFINE Bad == {T \in SUBSET S : SumOver(h, T) # SumOver(f, T) * k + SumOver(g, T)}
<1>1. ASSUME Bad # {} PROVE FALSE
  <2>1. PICK T \in Bad : \A U \in Bad : U \subseteq T => U = T
    <3>1. Bad \in SUBSET SUBSET S
      OBVIOUS
    <3> HIDE DEF Bad
    <3> QED
      BY <1>1, <3>1, LeastSet
  <2> DEFINE c == Chosen(T)
             U == T \ {c}
  <2>2. /\ SumOver(f, T) = IF T = {} THEN 0 ELSE f[c] + SumOver(f, U)
        /\ SumOver(g, T) = IF T = {} THEN 0 ELSE g[c] + SumOver(g, U)
        /\ SumOver(h, T) = IF T = {} THEN 0 ELSE h[c] + SumOver(h, U)
    BY FS_Subset, SumOfChosen
  <2>3. T # {}
    BY <2>2
  <2>4. c \in T
    BY <2>3, ChosenIn
  <2> HIDE DEF c
  <2>5. SumOver(h, U) = SumOver(f, U) * k + SumOver(g, U)
    BY <2>1, <2>4
  <2>6. SumOver(f, U) \in Int /\ SumOver(g, U) \in Int
    BY FS_Subset, SumIsInt
  <2>7. f[c] \in Int /\ g[c] \in Int /\ h[c] = f[c] * k + g[c]
    BY <2>4
  <2> HIDE DEF U
  <2> DEFINE sf == SumOver(f, U)
             sg == SumOver(g, U)
  <2>8. (f[c] * k + g[c]) + (sf * k + sg) = (f[c] + sf) * k + (g[c] + sg)
    <3> HIDE DEF sf, sg
    <3> QED
      BY <2>6, <2>7, SMT DEF sf, sg
  <2> QED
    BY <2>2, <2>3, <2>5, <2>7, <2>8
<1> QED
  BY <1>1
=============================================================================
