-------------------------- MODULE DualStockTheorems --------------------------
(***************************************************************************)
(* What opening packages, deducting and restoring do to a row of           *)
(* raw_materials, for every row, quantity and size of package.             *)
(***************************************************************************)
EXTENDS DualStock, TLAPS

\* The row is short of loose units and has packages that may be opened.
MustOpen(s, q, size, allowed) == allowed /\ s.loose < q /\ s.pkg > 0 /\ size > 0

LEMMA Ceiling ==
    ASSUME NEW d \in Nat \ {0}, NEW size \in Nat \ {0}
    PROVE  LET n == (d + size - 1) \div size
           IN  /\ n \in Nat \ {0}
               /\ d <= n * size
               /\ (n - 1) * size < d
<1> DEFINE x == d + size - 1
           n == x \div size
           r == x % size
<1>1. x \in Nat /\ x >= size
  OBVIOUS
<1>2. n \in Int /\ r \in 0..(size - 1)
  BY <1>1, SMT
<1>3. x = size * n + r
  BY <1>1, SMT
<1>4. x = n * size + r /\ n * size \in Int
  BY <1>2, <1>3, SMT
<1>5. n >= 1
  BY <1>1, SMT
<1>6. (n - 1) * size = n * size - size
  BY <1>2, SMT
<1> HIDE DEF n, r
<1>7. d <= n * size /\ (n - 1) * size < d
  BY <1>2, <1>4, <1>6
<1> QED
  BY <1>2, <1>5, <1>7 DEF n

\* A deduction opens packages until the loose units suffice, or no package is left,
\* and not one more (stock_movement.go, math.Ceil of the deficit, capped).
THEOREM OpensNoMoreThanNeeded ==
    ASSUME NEW s \in Stock, NEW q \in Nat, NEW size \in Nat, MustOpen(s, q, size, TRUE)
    PROVE  LET n == PackagesToOpen(s, q, size)
           IN  /\ n \in 1..s.pkg
               /\ n = s.pkg \/ s.loose + n * size >= q
               /\ s.loose + (n - 1) * size < q
<1> DEFINE d == q - s.loose
           needed == (d + size - 1) \div size
           n == PackagesToOpen(s, q, size)
<1>1. d \in Nat \ {0} /\ size \in Nat \ {0} /\ s.pkg \in Nat /\ s.loose \in Int
      /\ s.pkg >= 1
  BY DEF MustOpen, Stock
<1>2. needed \in Nat \ {0} /\ d <= needed * size /\ (needed - 1) * size < d
  BY <1>1, Ceiling, Zenon
<1>3. n = IF needed > s.pkg THEN s.pkg ELSE needed
  BY DEF PackagesToOpen
<1> HIDE DEF needed, n
<1>4. n \in 1..s.pkg /\ n <= needed /\ (n = s.pkg \/ n = needed)
  BY <1>1, <1>2, <1>3
<1>5. /\ (n - 1) * size \in Int /\ n * size \in Int
      /\ (n - 1) * size <= (needed - 1) * size /\ (needed - 1) * size \in Int
  <2>1. n - 1 \in Nat /\ needed - 1 \in Nat /\ n - 1 <= needed - 1
    BY <1>1, <1>2, <1>4
  <2>2. \A i, j \in Nat : i <= j => i * size <= j * size /\ i * size \in Int /\ j * size \in Int
    BY SMT
  <2>3. n * size \in Int
    BY <1>4, SMT
  <2> QED
    BY <2>1, <2>2, <2>3
<1>6. s.loose + (n - 1) * size < q
  BY <1>1, <1>2, <1>5
<1>7. n = s.pkg \/ s.loose + n * size >= q
  BY <1>1, <1>2, <1>4, <1>5
<1> QED
  BY <1>4, <1>6, <1>7 DEF n

\* Opening packages keeps a row well-typed and what it holds.
LEMMA UnpackKeeps ==
    ASSUME NEW s \in Stock, NEW q \in Nat, NEW size \in Nat, NEW a \in BOOLEAN
    PROVE  /\ Unpack(s, q, size, a) \in Stock
           /\ Units(Unpack(s, q, size, a), size) = Units(s, size)
<1>1. CASE MustOpen(s, q, size, a)
  <2> DEFINE n == PackagesToOpen(s, q, size)
  <2>1. n \in 1..s.pkg /\ s.pkg \in Nat /\ s.loose \in Int
    BY <1>1, OpensNoMoreThanNeeded DEF MustOpen, Stock
  <2>2. Unpack(s, q, size, a) = [loose |-> s.loose + n * size, pkg |-> s.pkg - n]
    BY <1>1 DEF Unpack, MustOpen
  <2> HIDE DEF n
  <2>3. s.loose + n * size \in Int /\ s.pkg - n \in Nat
    BY <2>1, SMT
  <2>4. (s.pkg - n) * size + (s.loose + n * size) = s.pkg * size + s.loose
    BY <2>1, SMT
  <2> QED
    BY <2>2, <2>3, <2>4 DEF Units, Stock
<1>2. CASE ~MustOpen(s, q, size, a)
  BY <1>2 DEF Unpack, MustOpen
<1> QED
  BY <1>1, <1>2

LEMMA Deducted ==
    ASSUME NEW s \in Stock, NEW q \in Nat, NEW size \in Nat, NEW a \in BOOLEAN
    PROVE  Deduct(s, q, size, a) = [loose |-> Unpack(s, q, size, a).loose - q,
                                    pkg |-> Unpack(s, q, size, a).pkg]
<1> DEFINE u == Unpack(s, q, size, a)
<1>1. u \in Stock
  BY UnpackKeeps
<1>2. Deduct(s, q, size, a) = [u EXCEPT !.loose = u.loose - q]
  BY DEF Deduct
<1> HIDE DEF u
<1>3. [u EXCEPT !.loose = u.loose - q] = [loose |-> u.loose - q, pkg |-> u.pkg]
  BY <1>1 DEF Stock
<1> QED
  BY <1>2, <1>3 DEF u

\* Deducting keeps a raw_materials row well-typed: the package count never becomes
\* negative (stock_movement.go caps what it opens) ...
THEOREM DeductType ==
    ASSUME NEW s \in Stock, NEW q \in Nat, NEW size \in Nat, NEW a \in BOOLEAN
    PROVE  Deduct(s, q, size, a) \in Stock
<1> DEFINE u == Unpack(s, q, size, a)
           d == Deduct(s, q, size, a)
<1>1. u \in Stock /\ d = [loose |-> u.loose - q, pkg |-> u.pkg]
  BY UnpackKeeps, Deducted
<1> HIDE DEF u, d
<1>2. d \in Stock
  BY <1>1 DEF Stock
<1> QED
  BY <1>2 DEF d

\* ... and takes exactly q units off the shelf, however many packages it opens.
THEOREM DeductUnits ==
    ASSUME NEW s \in Stock, NEW q \in Nat, NEW size \in Nat, NEW a \in BOOLEAN
    PROVE  Units(Deduct(s, q, size, a), size) = Units(s, size) - q
<1> DEFINE u == Unpack(s, q, size, a)
<1>1. u \in Stock /\ Units(u, size) = Units(s, size)
  BY UnpackKeeps
<1>2. Deduct(s, q, size, a) = [loose |-> u.loose - q, pkg |-> u.pkg]
  BY Deducted
<1>3. u.pkg * size \in Int /\ u.loose \in Int
  BY <1>1 DEF Stock
<1> HIDE DEF u
<1> QED
  BY <1>1, <1>2, <1>3 DEF Units

\* A sale with two items of one material locks and deducts it twice in its transaction:
\* the units that are left are those of one deduction of the sum, though the second
\* may open packages that the first left closed (applyToProduct in the loop over items).
THEOREM DeductInParts ==
    ASSUME NEW s \in Stock, NEW p \in Nat, NEW q \in Nat, NEW size \in Nat, NEW a \in BOOLEAN
    PROVE  Units(Deduct(Deduct(s, p, size, a), q, size, a), size)
               = Units(Deduct(s, p + q, size, a), size)
<1> DEFINE first == Deduct(s, p, size, a)
<1>1. first \in Stock /\ Units(first, size) = Units(s, size) - p
  BY DeductType, DeductUnits
<1>2. Units(Deduct(first, q, size, a), size) = Units(first, size) - q
  BY <1>1, DeductUnits
<1>3. p + q \in Nat
  OBVIOUS
<1>4. Units(Deduct(s, p + q, size, a), size) = Units(s, size) - (p + q)
  BY <1>3, DeductUnits
<1>5. Units(s, size) \in Int
  <2>1. s.pkg * size \in Int
    BY DEF Stock
  <2> QED
    BY <2>1 DEF Units, Stock
<1> HIDE DEF first
<1>6. Units(Deduct(first, q, size, a), size) = Units(Deduct(s, p + q, size, a), size)
  BY <1>1, <1>2, <1>4, <1>5
<1> QED
  BY <1>6 DEF first

\* A deduction that opens packages goes below zero only when none is left: as long
\* as there is an unopened package, nothing is sold or wasted out of thin air.
THEOREM ShortOnlyWhenEmpty ==
    ASSUME NEW s \in Stock, NEW q \in Nat, NEW size \in Nat \ {0},
           Deduct(s, q, size, TRUE).loose < 0
    PROVE  Deduct(s, q, size, TRUE).pkg = 0
<1> DEFINE n == PackagesToOpen(s, q, size)
           u == Unpack(s, q, size, TRUE)
           d == Deduct(s, q, size, TRUE)
<1>0. s.pkg \in Nat /\ s.loose \in Int
  BY DEF Stock
<1>1. d = [loose |-> u.loose - q, pkg |-> u.pkg] /\ d.loose < 0
  BY Deducted
<1> HIDE DEF d
<1>2. ASSUME MustOpen(s, q, size, TRUE) PROVE d.pkg = 0
  <2>1. n \in 1..s.pkg /\ (n = s.pkg \/ s.loose + n * size >= q)
    BY <1>2, OpensNoMoreThanNeeded
  <2>2. u = [loose |-> s.loose + n * size, pkg |-> s.pkg - n]
    BY <1>2 DEF Unpack, MustOpen
  <2> HIDE DEF n, u
  <2>3. n * size \in Int
    BY <1>0, <2>1, SMT
  <2>4. s.loose + n * size - q < 0
    BY <1>0, <1>1, <2>2, <2>3
  <2> QED
    BY <1>0, <1>1, <2>1, <2>2, <2>3, <2>4
<1>3. ASSUME ~MustOpen(s, q, size, TRUE) PROVE d.pkg = 0
  <2>1. u = s
    BY <1>3 DEF Unpack, MustOpen
  <2> HIDE DEF u
  <2>2. s.loose - q < 0
    BY <1>1, <2>1
  <2>3. ~(s.pkg > 0)
    BY <1>0, <1>3, <2>2 DEF MustOpen
  <2> QED
    BY <1>0, <1>1, <2>1, <2>3
<1> QED
  BY <1>2, <1>3 DEF d

\* Restored goods keep a row well-typed ...
THEOREM RestoreType ==
    ASSUME NEW s \in Stock, NEW q \in Nat
    PROVE  Restore(s, q) \in Stock
BY DEF Restore, Stock

\* ... and add exactly q units.
THEOREM RestoreUnits ==
    ASSUME NEW s \in Stock, NEW q \in Nat, NEW size \in Nat
    PROVE  Units(Restore(s, q), size) = Units(s, size) + q
<1>1. s.pkg * size \in Int
  BY DEF Stock
<1> QED
  BY <1>1 DEF Restore, Units, Stock
=============================================================================
