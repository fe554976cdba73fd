----------------------------- MODULE SaleLedger -----------------------------
(***************************************************************************)
(* What the POS backend promises about the books of one outlet: every sale,*)
(* waste report and return that reaches it, however often and in whatever  *)
(* order its copies arrive, is booked at most once, and the raw-material   *)
(* stock moves exactly when the books do, by exactly the booked quantity.  *)
(* PosSyncServer implements this specification.                            *)
(***************************************************************************)
EXTENDS Integers

CONSTANTS
    Sales, Wastes, Returns,  \* ids minted by the tills
    Materials,               \* raw materials of the outlet
    Need,                    \* Need[row][m]: base units of m the row moves
    SaleOf, ReturnQty,       \* the sale a return refers to; units taken back
    Quantity,                \* Quantity[rs]: the units a set of returns takes back
    Restock,                 \* whether the returned goods go back on the shelf
    SoldQty,                 \* units sold, the limit on returns of a sale
    Opening                  \* Opening[m]: base units at the start

VARIABLES
    sale,    \* per sale: "absent", "COMPLETED" or "VOIDED"
    booked,  \* wastes and returns on the books
    units    \* per material: base units on the shelf

ledgerVars == <<sale, booked, units>>

ReturnsOf(s) == {r \in Returns \cap booked : SaleOf[r] = s}

\* What of a sale may still be returned.
Returnable(s) ==
    IF Quantity[ReturnsOf(s)] > SoldQty[s] THEN 0 ELSE SoldQty[s] - Quantity[ReturnsOf(s)]

Take(row) == units' = [m \in Materials |-> units[m] - Need[row][m]]
Put(row)  == units' = [m \in Materials |-> units[m] + Need[row][m]]

Init ==
    /\ sale = [s \in Sales |-> "absent"]
    /\ booked = {}
    /\ units = Opening

RecordSale(s) ==
    /\ sale[s] = "absent"
    /\ sale' = [sale EXCEPT ![s] = "COMPLETED"]
    /\ Take(s)
    /\ UNCHANGED booked

\* A sale voided before its first delivery never moved any stock.
RecordVoided(s) ==
    /\ sale[s] = "absent"
    /\ sale' = [sale EXCEPT ![s] = "VOIDED"]
    /\ UNCHANGED <<booked, units>>

\* A sale with goods already returned can no longer be voided.
CancelSale(s) ==
    /\ sale[s] = "COMPLETED"
    /\ ReturnsOf(s) = {}
    /\ sale' = [sale EXCEPT ![s] = "VOIDED"]
    /\ Put(s)
    /\ UNCHANGED booked

RecordWaste(x) ==
    /\ x \in Wastes \ booked
    /\ booked' = booked \cup {x}
    /\ Take(x)
    /\ UNCHANGED sale

RecordReturn(r) ==
    /\ r \in Returns \ booked
    /\ sale[SaleOf[r]] = "COMPLETED"
    /\ ReturnQty[r] <= Returnable(SaleOf[r])
    /\ booked' = booked \cup {r}
    /\ IF Restock[r] THEN Put(r) ELSE UNCHANGED units
    /\ UNCHANGED sale

Next ==
    \/ \E s \in Sales : RecordSale(s) \/ RecordVoided(s) \/ CancelSale(s)
    \/ \E x \in Wastes : RecordWaste(x)
    \/ \E r \in Returns : RecordReturn(r)

Spec == Init /\ [][Next]_ledgerVars
=============================================================================
