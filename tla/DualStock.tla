----------------------------- MODULE DualStock -----------------------------
(***************************************************************************)
(* A raw material is held in two forms (domain.RawMaterial): unopened      *)
(* packages of `size` base units each, and loose units.  Sales, wastes,    *)
(* voids and returns move loose units; a sale short of loose units opens   *)
(* packages.  Pure operators: the stateful modules apply them to a row     *)
(* they hold a lock on.                                                    *)
(*                                                                         *)
(* Quantities are integers (the code's float64 in units of the smallest    *)
(* recipe quantity).  size = 0 stands for a material without packages      *)
(* (quantity_per_package NULL or not positive).  Loose stock may become    *)
(* negative: the code lets it, so that the next stock count shows the gap. *)
(***************************************************************************)
EXTENDS Integers

Stock == [loose : Int, pkg : Nat]

\* Everything on the shelf, in base units (RawMaterial.TotalStock).  Its fallback
\* for an empty shelf is unit_stock, which the database generates as this sum.
Units(s, size) == s.pkg * size + s.loose

\* Mutant: the packages needed are not capped at the packages there are.
PackagesUncapped(s, qty, size) == (qty - s.loose + size - 1) \div size

\* math.Ceil(deficit / size), capped at the packages there are.
PackagesToOpen(s, qty, size) ==
    LET needed == (qty - s.loose + size - 1) \div size
    IN  IF needed > s.pkg THEN s.pkg ELSE needed

\* The packages the plan's auto-unpack feature allows to open for a deduction.
Unpack(s, qty, size, allowed) ==
    IF allowed /\ s.loose < qty /\ s.pkg > 0 /\ size > 0
    THEN LET n == PackagesToOpen(s, qty, size)
         IN  [loose |-> s.loose + n * size, pkg |-> s.pkg - n]
    ELSE s

Deduct(s, qty, size, allowed) ==
    LET u == Unpack(s, qty, size, allowed)
    IN  [u EXCEPT !.loose = @ - qty]

\* Voids and returned goods come back loose, whatever they were sold from.
Restore(s, qty) == [s EXCEPT !.loose = @ + qty]
=============================================================================
