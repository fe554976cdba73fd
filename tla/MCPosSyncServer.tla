-------------------------- MODULE MCPosSyncServer --------------------------
(***************************************************************************)
(* A small outlet: a sale of two products and a waste report that reach    *)
(* the two raw materials in opposite orders, and two returns of the coffee *)
(* product that together exceed what was sold.  Coffee comes in packages   *)
(* of 3: the sale opens the only one, and after the waste it would need a  *)
(* second.  Milk has no package and goes negative.                         *)
(***************************************************************************)
EXTENDS PosSyncServerInv, TLC

CONSTANTS sale1, waste1, return1, return2, coffee, milk

MCMaterials == {coffee, milk}

MCNeed ==
    [row \in Rows |->
        CASE row = sale1  -> (coffee :> 4 @@ milk :> 2)
          [] row = waste1 -> (coffee :> 1 @@ milk :> 1)
          [] row = return1 -> (coffee :> 2 @@ milk :> 0)
          [] row = return2 -> (coffee :> 4 @@ milk :> 0)]

MCLockPath ==
    [row \in Rows |->
        CASE row = sale1  -> <<coffee, milk>>
          [] row = waste1 -> <<milk, coffee>>
          [] OTHER        -> <<coffee>>]

MCSaleOf    == [r \in Returns |-> sale1]
MCReturnQty == [r \in Returns |-> IF r = return1 THEN 1 ELSE 2]
MCRestock   == [r \in Returns |-> r = return1]
MCSoldQty   == [s \in Sales |-> 2]
MCPackSize  == (coffee :> 3 @@ milk :> 0)
MCOpening   == (coffee :> [loose |-> 1, pkg |-> 1] @@ milk :> [loose |-> 1, pkg |-> 0])
=============================================================================
