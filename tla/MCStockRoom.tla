---------------------------- MODULE MCStockRoom ----------------------------
(***************************************************************************)
(* An outlet with coffee in packages of 2 and milk in packages of 3, one   *)
(* form and its recount, two tabs of the owner and two counting staff.     *)
(* The waste takes all the coffee there is at opening: after a count that  *)
(* found less it must be refused.  The restock brings loose coffee, enough *)
(* for a package and one unit; the sale takes more coffee than is left.    *)
(***************************************************************************)
EXTENDS StockRoom, TLC

CONSTANTS coffee, milk

MCMaterials  == {coffee, milk}
MCScopes     == {{coffee, milk}, {coffee}}
MCPackSize   == (coffee :> 2 @@ milk :> 3)
MCOpening    == (coffee :> [loose |-> 1, pkg |-> 1] @@ milk :> [loose |-> 1, pkg |-> 0])
MCDeliveries == {(coffee :> [n |-> 3, unit |-> "unit"] @@ milk :> [n |-> 1, unit |-> "package"])}
MCSpoils     == {(coffee :> 3 @@ milk :> 0)}
MCSales      == {(coffee :> 4 @@ milk :> 1)}
MCCounts     == {[loose |-> 0, pkg |-> 1]}
Symmetric    == Permutations(Admins) \cup Permutations(Staff) \cup Permutations(Forms)

\* Bounds: two handlers at work and three clients busy; the staff get to the
\* coffee only, the milk stays uncounted; the second form is begun when the first
\* is closed, and is followed until it is published.  A second movement of goods,
\* and two tabs on the materials' pages, only while there are no forms.
Small ==
    LET reporting == {s \in Staff : report[s] # NoCount}
        NoForms   == \A f \in Forms : form[f].status = "ABSENT"
    IN  /\ Cardinality({a \in Admins : ~ShowsPage(a)}) + Cardinality(reporting) <= 2
        /\ Cardinality({a \in Admins : tab[a] # Home}) + Cardinality(reporting) <= 3
        /\ \A s \in reporting : report[s].entry.material = coffee
        /\ NoForms \/ (moves <= 1 /\ Cardinality({a \in Admins : tab[a].at = "materials"}) <= 1)
        /\ Cardinality({f \in Forms : form[f].status \in {"OPEN", "PUBLISHED", "COUNTING"}}) <= 1
        /\ Cardinality({f \in Forms : form[f].status \notin {"ABSENT", "OPEN"}}) <= 1
=============================================================================
