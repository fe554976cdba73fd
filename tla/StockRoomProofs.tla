---------------------------- MODULE StockRoomProofs ----------------------------
(***************************************************************************)
(* Opname forms, the shelf and the books, for any number of tabs, staff,  *)
(* forms and materials.                                                    *)
(*                                                                         *)
(* Inv: forms only move onward (FormsOnward), so that what a handler asked *)
(* of a form before its transaction still holds in it, and a page that     *)
(* shows a closed form shows its sheet (TabInv).  TypeInv: what each page  *)
(* and request holds is typed, and the counts are finitely many.  SheetInv *)
(* adds that a close has in hand, and a closed form in its sheet, what its *)
(* counts add up to, until a count arrives after the adding up.            *)
(***************************************************************************)
EXTENDS StockRoom, DualStockTheorems, SumTheorems, TLAPS

Begun(f) == form[f].status \notin {"ABSENT", "OPEN"}

\* One line for each material.
OneLineEach(lines, items) ==
    /\ {l.material : l \in lines} = items
    /\ \A k, l \in lines : k.material = l.material => k = l

\* Variables are functions on their sets; a form's status and items are typed.
Shapes ==
    /\ form \in [Forms -> [status : Statuses, items : SUBSET Materials]]
    /\ DOMAIN tab = Admins
    /\ DOMAIN sheet = Forms
    /\ DOMAIN report = Staff
    /\ \A s \in Staff : report[s] # NoCount => report[s].entry.form \in Forms

AbsentEmpty == \A f \in Forms : form[f].status = "ABSENT" => form[f].items = {}

SheetsWhole == \A f \in Forms : Closed(f) => OneLineEach(sheet[f], form[f].items)

\* What a tab's page or request knows of its form is still so.
TabInv(a) ==
    LET t == tab[a]
        f == tab[a].form
    IN  /\ t.at \in {"form", "create", "closing", "filling"} \cup FormOps => f \in Forms
        /\ t.at = "form" /\ t.status = "CLOSED" => Closed(f) /\ t.sheet = sheet[f]
        /\ t.at = "approve" => Closed(f) /\ t.shown = sheet[f]
        /\ t.at = "publish" => form[f].items # {}
        /\ t.at \in {"close", "closing", "recount"} => Begun(f)
        /\ t.at = "closing" => OneLineEach(t.lines, form[f].items)
        /\ t.at = "filling" => /\ form[f].status = "OPEN" /\ form[f].items = {}
                               /\ t.items # {} /\ t.items \subseteq Materials

\* A form whose recount is under way is filled by one handler.
OneFiller ==
    \A a, b \in Admins : tab[a].at = "filling" /\ tab[b].at = "filling"
                         /\ tab[a].form = tab[b].form => a = b

Inv ==
    /\ Shapes
    /\ AbsentEmpty
    /\ PublishedFormsHaveItems
    /\ SheetsWhole
    /\ OneFiller
    /\ \A a \in Admins : TabInv(a)

\* A form goes onward: it keeps its items once it has any, stays begun once it is
\* begun, and keeps its sheet once it is closed.
Onward(f) ==
    /\ form[f].items # {} => form'[f].items = form[f].items
    /\ Begun(f) => Begun(f)'
    /\ Closed(f) => /\ sheet'[f] = sheet[f]
                    /\ form'[f].status \in {"APPROVED", "REJECTED"} \cup {form[f].status}
                    /\ form[f].status # "CLOSED" => form'[f] = form[f]

FormsOnward == \A f \in Forms : Onward(f)

\* A step leaves the forms that others are filling.
FillingStays ==
    \A b \in Admins : tab[b].at = "filling" /\ tab'[b] = tab[b] =>
        form'[tab[b].form] = form[tab[b].form]

LEMMA InvInit == Init => Inv
BY StockRoomAssumption
DEF Init, Inv, Shapes, Statuses, AbsentEmpty, PublishedFormsHaveItems, SheetsWhole, Closed,
    OneFiller, TabInv, Home, FormOps, NoCount

\* A tab that a step does not touch keeps what it knows.
LEMMA OtherTab ==
    ASSUME Inv, NEW b \in Admins, tab'[b] = tab[b], FormsOnward, FillingStays
    PROVE  TabInv(b)'
<1> DEFINE f == tab[b].form
<1>1. TabInv(b) /\ PublishedFormsHaveItems
  BY DEF Inv
<1>2. tab'[b].form = f
  OBVIOUS
<1>3. f \in Forms /\ Closed(f) => Closed(f)' /\ sheet'[f] = sheet[f]
  BY DEF FormsOnward, Onward, Closed
<1>4. f \in Forms /\ Begun(f) => Begun(f)' /\ form'[f].items = form[f].items
  BY <1>1 DEF FormsOnward, Onward, PublishedFormsHaveItems, Begun
<1>5. f \in Forms /\ form[f].items # {} => form'[f].items # {}
  BY DEF FormsOnward, Onward
<1>6. tab[b].at = "filling" => form'[f] = form[f]
  BY DEF FillingStays
<1> QED
  BY <1>1, <1>2, <1>3, <1>4, <1>5, <1>6 DEF TabInv, FormOps

\* What there is to show of a step.
LEMMA StepKeeps ==
    ASSUME Inv, Shapes', AbsentEmpty', PublishedFormsHaveItems', SheetsWhole', OneFiller',
           FormsOnward, FillingStays,
           \A b \in Admins : tab'[b] = tab[b] \/ TabInv(b)'
    PROVE  Inv'
BY OtherTab DEF Inv

\* Only tab a moves.
TabMoves(a) ==
    /\ DOMAIN tab' = Admins
    /\ \A b \in Admins \ {a} : tab'[b] = tab[b]

LEMMA OneTabMoves ==
    ASSUME Shapes, NEW a \in Admins, NEW page, tab' = [tab EXCEPT ![a] = page]
    PROVE  TabMoves(a) /\ tab'[a] = page
BY DEF Shapes, TabMoves

\* A step that leaves the tables, and moves one tab.
LEMMA TablesStill ==
    ASSUME Inv, UNCHANGED tables, report' = report, NEW a \in Admins, TabMoves(a),
           tab'[a].at # "filling", TabInv(a)'
    PROVE  Inv' /\ FormsOnward
<1>1. /\ UNCHANGED <<form, sheet>>
      /\ DOMAIN tab' = Admins
      /\ \A b \in Admins \ {a} : tab'[b] = tab[b]
  BY DEF tables, TabMoves
<1>2. FormsOnward
  BY <1>1 DEF FormsOnward, Onward, Begun, Inv, Shapes
<1>3. Shapes' /\ AbsentEmpty' /\ PublishedFormsHaveItems' /\ SheetsWhole'
  BY <1>1 DEF Inv, Shapes, AbsentEmpty, PublishedFormsHaveItems, SheetsWhole, Closed
<1>4. OneFiller' /\ FillingStays
  BY <1>1 DEF Inv, OneFiller, FillingStays
<1> QED
  BY <1>1, <1>2, <1>3, <1>4, StepKeeps

-----------------------------------------------------------------------------
(* Steps that leave the forms *)

LEMMA GoesHome ==
    ASSUME Inv, UNCHANGED tables, report' = report, NEW a \in Admins,
           tab' = [tab EXCEPT ![a] = Home]
    PROVE  Inv' /\ FormsOnward
<1>1. TabMoves(a) /\ tab'[a] = Home
  BY OneTabMoves DEF Inv
<1>2. TabInv(a)'
  BY <1>1 DEF TabInv, Home, FormOps
<1> QED
  BY <1>1, <1>2, TablesStill DEF Home

LEMMA PageSteps ==
    ASSUME Inv, NEW a \in Admins,
           \/ \E f \in Forms : FetchForm(a, f)
           \/ FetchMaterials(a)
           \/ \E d \in Deliveries : RecordRestock(a, d)
           \/ \E q \in Spoils : RecordWaste(a, q)
           \/ \E m \in Materials : EditRead(a, m)
           \/ EditSave(a)
           \/ Abort(a)
    PROVE  Inv' /\ FormsOnward
<1>1. ASSUME NEW f \in Forms, FetchForm(a, f) PROVE Inv' /\ FormsOnward
  <2> DEFINE page == [at |-> "form", form |-> f, status |-> form[f].status, sheet |-> sheet[f]]
  <2>1. /\ tab' = [tab EXCEPT ![a] = page] /\ report' = report
        /\ UNCHANGED tables
    BY <1>1 DEF FetchForm
  <2>2. TabMoves(a) /\ tab'[a] = page /\ form' = form /\ sheet' = sheet
    BY <2>1, OneTabMoves DEF Inv, tables
  <2>3. TabInv(a)'
    BY <2>2 DEF TabInv, FormOps, Closed
  <2> QED
    BY <2>1, <2>2, <2>3, TablesStill
<1>2. CASE FetchMaterials(a)
  <2> DEFINE page == [at |-> "materials", stock |-> stock]
  <2>1. tab' = [tab EXCEPT ![a] = page] /\ report' = report /\ UNCHANGED tables
    BY <1>2 DEF FetchMaterials
  <2>2. TabMoves(a) /\ tab'[a] = page
    BY <2>1, OneTabMoves DEF Inv
  <2>3. TabInv(a)'
    BY <2>2 DEF TabInv, FormOps
  <2> QED
    BY <2>1, <2>2, <2>3, TablesStill
<1>3. ASSUME NEW m \in Materials, EditRead(a, m) PROVE Inv' /\ FormsOnward
  <2> DEFINE page == [at |-> "edit", material |-> m, row |-> stock[m]]
  <2>1. tab' = [tab EXCEPT ![a] = page] /\ report' = report /\ UNCHANGED tables
    BY <1>3 DEF EditRead
  <2>2. TabMoves(a) /\ tab'[a] = page
    BY <2>1, OneTabMoves DEF Inv
  <2>3. TabInv(a)'
    BY <2>2 DEF TabInv, FormOps
  <2> QED
    BY <2>1, <2>2, <2>3, TablesStill
<1>4. CASE \/ \E d \in Deliveries : RecordRestock(a, d)
           \/ \E q \in Spoils : RecordWaste(a, q)
           \/ EditSave(a) \/ Abort(a)
  BY <1>4, GoesHome DEF RecordRestock, RecordWaste, EditSave, Abort
<1> QED
  BY <1>1, <1>2, <1>3, <1>4

\* A handler admits a request: what it saw is what the page it came from showed.
LEMMA AskSteps ==
    ASSUME Inv, NEW a \in Admins,
           (\E op \in FormOps, f \in Forms : Ask(a, op, f)) \/ AskPublishCreated(a)
    PROVE  Inv' /\ FormsOnward
<1>1. ASSUME NEW op \in FormOps, NEW f \in Forms, Ask(a, op, f) PROVE Inv' /\ FormsOnward
  <2> DEFINE page == [at |-> op, form |-> f, shown |-> tab[a].sheet]
  <2>1. tab' = [tab EXCEPT ![a] = page] /\ report' = report /\ UNCHANGED tables
    BY <1>1 DEF Ask
  <2>2. TabMoves(a) /\ tab'[a] = page /\ form' = form /\ sheet' = sheet
    BY <2>1, OneTabMoves DEF Inv, tables
  <2>3. tab[a].at = "form" /\ tab[a].form = f
    BY <1>1 DEF Ask, Offers
  <2>4. op = "approve" => tab[a].status = "CLOSED"
    BY <1>1 DEF Ask, Offers, OfferedFrom
  <2>5. op = "approve" => Closed(f) /\ tab[a].sheet = sheet[f]
    BY <2>3, <2>4 DEF Inv, TabInv
  <2>6. form[f].status \in AdmittedFrom(op) /\ NothingMissing(op, f)
    BY <1>1 DEF Ask, Admits
  <2>7. /\ op \in {"close", "recount"} => Begun(f)
        /\ op = "publish" => form[f].items # {}
    BY <2>6 DEF AdmittedFrom, NothingMissing, Begun
  <2>8. TabInv(a)'
    BY <2>2, <2>5, <2>7 DEF TabInv, FormOps, Closed, Begun
  <2> QED
    BY <2>1, <2>2, <2>8, TablesStill DEF FormOps
<1>2. CASE AskPublishCreated(a)
  <2> DEFINE f == tab[a].form
             page == [at |-> "publish", form |-> f, shown |-> {}]
  <2>1. report' = report /\ UNCHANGED tables /\ tab[a].at = "create"
    BY <1>2 DEF AskPublishCreated
  <2>2. CASE Admits("publish", f)
    <3>1. tab' = [tab EXCEPT ![a] = page]
      BY <1>2, <2>2 DEF AskPublishCreated
    <3>2. TabMoves(a) /\ tab'[a] = page /\ form' = form
      BY <2>1, <3>1, OneTabMoves DEF Inv, tables
    <3>3. f \in Forms /\ form[f].items # {}
      BY <2>1, <2>2 DEF Admits, NothingMissing, Inv, TabInv
    <3>4. TabInv(a)'
      BY <3>2, <3>3 DEF TabInv, FormOps
    <3> QED
      BY <2>1, <3>2, <3>4, TablesStill
  <2>3. CASE ~Admits("publish", f)
    <3>1. tab' = [tab EXCEPT ![a] = Home]
      BY <1>2, <2>3 DEF AskPublishCreated
    <3> QED
      BY <2>1, <3>1, GoesHome
  <2> QED
    BY <2>2, <2>3
<1> QED
  BY <1>1, <1>2

\* The counts added up make one line for each material of the form.
LEMMA AggregateLines ==
    ASSUME NEW f \in Forms
    PROVE  OneLineEach(Aggregate(f), form[f].items)
<1> DEFINE line(m) == [material |-> m, actual |-> Counted(f, m)]
<1>1. Aggregate(f) = {line(m) : m \in form[f].items} /\ \A m : line(m).material = m
  BY DEF Aggregate
<1>2. \A l \in Aggregate(f) : l.material \in form[f].items /\ l = line(l.material)
  BY <1>1
<1> HIDE DEF line
<1>3. \A k, l \in Aggregate(f) : k.material = l.material => k = l
  BY <1>2
<1> QED
  BY <1>1, <1>2, <1>3 DEF OneLineEach

LEMMA CloseAggregateStep ==
    ASSUME Inv, NEW a \in Admins, CloseAggregate(a)
    PROVE  Inv' /\ FormsOnward
<1> DEFINE f == tab[a].form
           page == [at |-> "closing", form |-> f, lines |-> Aggregate(f)]
<1>1. /\ tab[a].at = "close" /\ report' = report /\ UNCHANGED tables
      /\ tab' = [tab EXCEPT ![a] = page]
  BY DEF CloseAggregate
<1>2. TabMoves(a) /\ tab'[a] = page /\ form' = form
  BY <1>1, OneTabMoves DEF Inv, tables
<1>3. f \in Forms /\ Begun(f)
  BY <1>1 DEF Inv, TabInv, FormOps
<1>4. OneLineEach(Aggregate(f), form[f].items)
  BY <1>3, AggregateLines
<1>5. TabInv(a)'
  BY <1>2, <1>3, <1>4 DEF TabInv, FormOps, Begun
<1> QED
  BY <1>1, <1>2, <1>5, TablesStill

\* Steps that leave the forms and the tabs.
LEMMA QuietSteps ==
    ASSUME Inv,
           \/ \E s \in Staff, f \in Forms, m \in Materials, c \in Counts : CountRead(s, f, m, c)
           \/ \E s \in Staff : CountAbort(s)
           \/ \E q \in Sales : SyncSale(q)
           \/ UNCHANGED vars
    PROVE  Inv' /\ FormsOnward
<1>1. UNCHANGED <<form, sheet, tab>>
  BY DEF CountRead, CountAbort, SyncSale, vars, tables
<1>2. DOMAIN report' = Staff /\ \A s \in Staff : report'[s] # NoCount => report'[s].entry.form \in Forms
  <2>1. ASSUME NEW s \in Staff, NEW f \in Forms, NEW m \in Materials, NEW c \in Counts,
               CountRead(s, f, m, c)
        PROVE  <1>2!1 /\ <1>2!2
    BY <2>1 DEF CountRead, Inv, Shapes
  <2>2. ASSUME NEW s \in Staff, CountAbort(s) PROVE <1>2!1 /\ <1>2!2
    BY <2>2 DEF CountAbort, Inv, Shapes
  <2>3. CASE report' = report
    BY <2>3 DEF Inv, Shapes
  <2> QED
    BY <2>1, <2>2, <2>3 DEF SyncSale, vars
<1>3. FormsOnward /\ FillingStays /\ OneFiller'
  BY <1>1 DEF FormsOnward, Onward, FillingStays, OneFiller, Begun, Inv, Shapes
<1>4. Shapes' /\ AbsentEmpty' /\ PublishedFormsHaveItems' /\ SheetsWhole'
  BY <1>1, <1>2 DEF Inv, Shapes, AbsentEmpty, PublishedFormsHaveItems, SheetsWhole, Closed
<1> QED
  BY <1>1, <1>3, <1>4, StepKeeps

-----------------------------------------------------------------------------
(* Steps that move one form *)

\* What the invariant says of one form.
FormInv(f) ==
    /\ form[f].status = "ABSENT" => form[f].items = {}
    /\ Begun(f) => form[f].items # {}
    /\ Closed(f) => OneLineEach(sheet[f], form[f].items)

FormMoves(f) ==
    /\ form' \in [Forms -> [status : Statuses, items : SUBSET Materials]]
    /\ DOMAIN sheet' = Forms
    /\ \A g \in Forms \ {f} : form'[g] = form[g] /\ sheet'[g] = sheet[g]
    /\ Onward(f)
    /\ FormInv(f)'

LEMMA FormsByOne ==
    ASSUME Inv, NEW f \in Forms, FormMoves(f)
    PROVE  FormsOnward /\ AbsentEmpty' /\ PublishedFormsHaveItems' /\ SheetsWhole'
<1>1. ASSUME NEW g \in Forms PROVE Onward(g) /\ FormInv(g)'
  <2>1. CASE g = f
    BY <2>1 DEF FormMoves
  <2>2. CASE g # f
    <3>1. form'[g] = form[g] /\ sheet'[g] = sheet[g]
      BY <2>2 DEF FormMoves
    <3> QED
      BY <3>1 DEF Onward, FormInv, Begun, Closed, Inv, AbsentEmpty, PublishedFormsHaveItems,
         SheetsWhole
  <2> QED
    BY <2>1, <2>2
<1> QED
  BY <1>1 DEF FormsOnward, FormInv, Begun, AbsentEmpty, PublishedFormsHaveItems, SheetsWhole

\* A request that moves its form and ends.
LEMMA FormEnds ==
    ASSUME Inv, NEW a \in Admins, NEW f \in Forms, FormMoves(f), report' = report,
           tab' = [tab EXCEPT ![a] = Home],
           \A b \in Admins \ {a} : tab[b].at = "filling" => tab[b].form # f
    PROVE  Inv' /\ FormsOnward
<1>1. TabMoves(a) /\ tab'[a] = Home
  BY OneTabMoves DEF Inv
<1>2. TabInv(a)'
  BY <1>1 DEF TabInv, Home, FormOps
<1>3. FillingStays /\ OneFiller'
  BY <1>1 DEF FillingStays, OneFiller, TabMoves, FormMoves, Inv, TabInv, Home
<1>4. Shapes'
  BY <1>1 DEF Shapes, FormMoves, TabMoves, Inv
<1> QED
  BY <1>1, <1>2, <1>3, <1>4, FormsByOne, StepKeeps DEF TabMoves

\* The forms that are being filled are OPEN and have no items.
LEMMA OthersFill ==
    ASSUME Inv, NEW f \in Forms, form[f].status # "OPEN" \/ form[f].items # {}
    PROVE  \A b \in Admins : tab[b].at = "filling" => tab[b].form # f
BY DEF Inv, TabInv

\* A decision is taken on a form that its handler saw CLOSED.
LEMMA DecisionStep ==
    ASSUME Inv, NEW a \in Admins, NEW f \in Forms, NEW to \in {"APPROVED", "REJECTED"},
           Advance(f, {"CLOSED"}, to), sheet' = sheet
    PROVE  FormMoves(f)
<1>1. /\ form'[f].items = form[f].items
      /\ form'[f].status = IF form[f].status = "CLOSED" THEN to ELSE form[f].status
      /\ form[f].status # "CLOSED" => form'[f] = form[f]
      /\ \A g \in Forms \ {f} : form'[g] = form[g]
      /\ form' \in [Forms -> [status : Statuses, items : SUBSET Materials]]
  BY DEF Advance, Inv, Shapes, Statuses
<1>2. FormInv(f)
  BY DEF Inv, FormInv, AbsentEmpty, PublishedFormsHaveItems, SheetsWhole, Begun
<1>3. FormInv(f)'
  BY <1>1, <1>2 DEF FormInv, Begun, Closed
<1>4. Onward(f)
  BY <1>1 DEF Onward, Begun, Closed
<1> QED
  BY <1>1, <1>3, <1>4 DEF FormMoves, Inv, Shapes

LEMMA RejectStep ==
    ASSUME Inv, NEW a \in Admins, RejectForm(a)
    PROVE  Inv' /\ FormsOnward
<1>1. PICK f \in Forms : f = tab[a].form
  BY DEF RejectForm, Inv, TabInv, FormOps
<1>2. CASE form[f].status = "CLOSED"
  <2>1. /\ Advance(f, {"CLOSED"}, "REJECTED") /\ sheet' = sheet /\ report' = report
        /\ tab' = [tab EXCEPT ![a] = Home]
    BY <1>1 DEF RejectForm
  <2> QED
    BY <1>2, <2>1, DecisionStep, OthersFill, FormEnds
<1>3. CASE form[f].status # "CLOSED"
  <2>1. form' = form
    BY <1>1, <1>3 DEF RejectForm, Advance, Inv, Shapes
  <2> QED
    BY <2>1, GoesHome DEF RejectForm, tables
<1> QED
  BY <1>2, <1>3

LEMMA ApproveStep ==
    ASSUME Inv, NEW a \in Admins, ApproveForm(a)
    PROVE  Inv' /\ FormsOnward
<1>0. PICK f \in Forms : f = tab[a].form
  BY DEF ApproveForm, Inv, TabInv, FormOps
<1>1. Closed(f)
  BY <1>0 DEF ApproveForm, Inv, TabInv
<1>2. /\ Advance(f, {"CLOSED"}, "APPROVED") /\ sheet' = sheet /\ report' = report
      /\ tab' = [tab EXCEPT ![a] = Home]
  BY <1>0 DEF ApproveForm
<1> QED
  BY <1>1, <1>2, DecisionStep, OthersFill, FormEnds DEF Closed

LEMMA PublishStep ==
    ASSUME Inv, NEW a \in Admins, PublishForm(a)
    PROVE  Inv' /\ FormsOnward
<1>0. PICK f \in Forms : f = tab[a].form
  BY DEF PublishForm, Inv, TabInv, FormOps
<1>1. form[f].items # {}
  BY <1>0 DEF PublishForm, Inv, TabInv
<1>2. /\ form'[f].items = form[f].items
      /\ form'[f].status = IF form[f].status = "OPEN" THEN "PUBLISHED" ELSE form[f].status
      /\ form[f].status # "OPEN" => form'[f] = form[f]
      /\ \A g \in Forms \ {f} : form'[g] = form[g]
      /\ form' \in [Forms -> [status : Statuses, items : SUBSET Materials]]
      /\ sheet' = sheet
  BY <1>0 DEF PublishForm, Advance, Inv, Shapes, Statuses
<1>3. FormInv(f)
  BY <1>1 DEF Inv, FormInv, AbsentEmpty, PublishedFormsHaveItems, SheetsWhole, Begun
<1>4. FormInv(f)' /\ Onward(f)
  <2>1. FormInv(f)'
    BY <1>1, <1>2, <1>3 DEF FormInv, Begun, Closed
  <2>2. Onward(f)
    BY <1>2 DEF Onward, Begun, Closed
  <2> QED
    BY <2>1, <2>2
<1>5. FormMoves(f)
  BY <1>2, <1>4 DEF FormMoves, Inv, Shapes
<1> QED
  BY <1>1, <1>5, OthersFill, FormEnds DEF PublishForm

\* The sheet is written by the first close that finds the form COUNTING.
LEMMA CloseStep ==
    ASSUME Inv, NEW a \in Admins, CloseCommit(a)
    PROVE  Inv' /\ FormsOnward
<1>0. PICK f \in Forms : f = tab[a].form
  BY DEF CloseCommit, Inv, TabInv, FormOps
<1>1. Begun(f) /\ OneLineEach(tab[a].lines, form[f].items)
  BY <1>0 DEF CloseCommit, Inv, TabInv
<1>2. CASE StillCounting(f)
  <2>1. /\ form' = [form EXCEPT ![f].status = "CLOSED"]
        /\ sheet' = [sheet EXCEPT ![f] = tab[a].lines]
        /\ form[f].status = "COUNTING"
    BY <1>0, <1>2 DEF CloseCommit, StillCounting
  <2>2. /\ form'[f].items = form[f].items /\ form'[f].status = "CLOSED"
        /\ sheet'[f] = tab[a].lines
        /\ \A g \in Forms \ {f} : form'[g] = form[g] /\ sheet'[g] = sheet[g]
        /\ form' \in [Forms -> [status : Statuses, items : SUBSET Materials]]
        /\ DOMAIN sheet' = Forms
    BY <2>1 DEF Inv, Shapes, Statuses
  <2>3. FormInv(f)' /\ Onward(f)
    <3>1. FormInv(f)'
      BY <1>1, <2>1, <2>2 DEF FormInv, Begun, Inv, PublishedFormsHaveItems
    <3>2. Onward(f)
      BY <2>1, <2>2 DEF Onward, Begun, Closed
    <3> QED
      BY <3>1, <3>2
  <2>4. FormMoves(f)
    BY <2>2, <2>3 DEF FormMoves
  <2> QED
    BY <2>1, <2>4, OthersFill, FormEnds DEF CloseCommit
<1>3. CASE ~StillCounting(f)
  BY <1>0, <1>3, GoesHome DEF CloseCommit, tables
<1> QED
  BY <1>2, <1>3

\* A count marks a form that is being counted; it never reopens a closed one.
LEMMA CountSaveStep ==
    ASSUME Inv, NEW s \in Staff, CountSave(s)
    PROVE  Inv' /\ FormsOnward
<1>1. PICK f \in Forms : f = report[s].entry.form
  BY DEF CountSave, Inv, Shapes
<1>2. /\ sheet' = sheet /\ tab' = tab /\ report' = [report EXCEPT ![s] = NoCount]
      /\ \/ form' = form
         \/ /\ form[f].status \in {"PUBLISHED", "COUNTING"}
            /\ form' = [form EXCEPT ![f].status = "COUNTING"]
  <2>1. CASE report[s].status = "PUBLISHED"
    BY <1>1, <2>1 DEF CountSave
  <2>2. CASE report[s].status # "PUBLISHED"
    BY <1>1, <2>2 DEF CountSave, Inv, Shapes
  <2> QED
    BY <2>1, <2>2
<1>3. /\ form'[f].items = form[f].items
      /\ \/ form'[f] = form[f]
         \/ Begun(f) /\ ~Closed(f) /\ form'[f].status = "COUNTING"
      /\ \A g \in Forms \ {f} : form'[g] = form[g]
      /\ form' \in [Forms -> [status : Statuses, items : SUBSET Materials]]
  BY <1>2 DEF Inv, Shapes, Statuses, Begun, Closed
<1>4. FormInv(f)
  BY DEF Inv, FormInv, AbsentEmpty, PublishedFormsHaveItems, SheetsWhole, Begun
<1>5. FormInv(f)'
  BY <1>2, <1>3, <1>4 DEF FormInv, Begun, Closed
<1>6. Onward(f)
  BY <1>2, <1>3 DEF Onward, Begun, Closed
<1>7. FormMoves(f)
  BY <1>2, <1>3, <1>5, <1>6 DEF FormMoves, Inv, Shapes
<1>8. Shapes' /\ OneFiller'
  BY <1>2, <1>3 DEF Shapes, OneFiller, Inv
<1>9. FillingStays
  BY <1>3 DEF FillingStays, Inv, TabInv, Begun
<1> QED
  BY <1>2, <1>7, <1>8, <1>9, FormsByOne, StepKeeps

LEMMA CreateStep ==
    ASSUME Inv, NEW a \in Admins, NEW f \in Forms, NEW items \in Scopes, NEW publish \in BOOLEAN,
           CreateForm(a, f, items, publish)
    PROVE  Inv' /\ FormsOnward
<1>1. /\ form[f].status = "ABSENT" /\ form[f].items = {} /\ items # {} /\ items \subseteq Materials
      /\ form' = [form EXCEPT ![f] = [status |-> "OPEN", items |-> items]]
      /\ sheet' = sheet /\ report' = report /\ tab[a] = Home
      /\ tab' \in {tab, [tab EXCEPT ![a] = [at |-> "create", form |-> f]]}
  BY StockRoomAssumption DEF CreateForm, Inv, AbsentEmpty
<1>2. /\ form'[f].items = items /\ form'[f].status = "OPEN"
      /\ \A g \in Forms \ {f} : form'[g] = form[g]
      /\ form' \in [Forms -> [status : Statuses, items : SUBSET Materials]]
  BY <1>1 DEF Inv, Shapes, Statuses
<1>3. FormMoves(f)
  BY <1>1, <1>2 DEF FormMoves, FormInv, Onward, Begun, Closed, Inv, Shapes
<1>4. /\ TabMoves(a) /\ tab'[a].at # "filling"
      /\ tab'[a] = tab[a] \/ TabInv(a)'
  <2>1. CASE tab' = tab
    BY <1>1, <2>1 DEF TabMoves, Inv, Shapes, Home
  <2>2. CASE tab' = [tab EXCEPT ![a] = [at |-> "create", form |-> f]]
    <3>1. TabMoves(a) /\ tab'[a] = [at |-> "create", form |-> f]
      BY <2>2, OneTabMoves DEF Inv
    <3> QED
      BY <3>1 DEF TabInv, FormOps
  <2> QED
    BY <1>1, <2>1, <2>2
<1>5. FillingStays
  BY <1>1, <1>2, OthersFill DEF FillingStays, Inv, TabInv
<1>6. Shapes' /\ OneFiller'
  BY <1>1, <1>2, <1>4 DEF Shapes, OneFiller, TabMoves, Inv
<1> QED
  BY <1>3, <1>4, <1>5, <1>6, FormsByOne, StepKeeps DEF TabMoves

\* The new form of a recount has no items until its handler fills it.
LEMMA RecountCreateStep ==
    ASSUME Inv, NEW a \in Admins, NEW g \in Forms, RecountCreate(a, g)
    PROVE  Inv' /\ FormsOnward
<1>1. PICK f \in Forms : f = tab[a].form
  BY DEF RecountCreate, Inv, TabInv, FormOps
<1>2. form[f].items # {} /\ form[f].items \subseteq Materials
  BY <1>1 DEF RecountCreate, Inv, TabInv, PublishedFormsHaveItems, Begun, Shapes
<1> DEFINE page == [at |-> "filling", form |-> g, items |-> form[f].items]
<1>3. /\ form[g].status = "ABSENT" /\ form[g].items = {}
      /\ form' = [form EXCEPT ![g].status = "OPEN"]
      /\ sheet' = sheet /\ report' = report
      /\ tab' = [tab EXCEPT ![a] = page]
  BY <1>1 DEF RecountCreate, Inv, AbsentEmpty
<1>4. /\ form'[g].items = {} /\ form'[g].status = "OPEN"
      /\ \A k \in Forms \ {g} : form'[k] = form[k]
      /\ form' \in [Forms -> [status : Statuses, items : SUBSET Materials]]
  BY <1>3 DEF Inv, Shapes, Statuses
<1>5. FormMoves(g)
  BY <1>3, <1>4 DEF FormMoves, FormInv, Onward, Begun, Closed, Inv, Shapes
<1>6. TabMoves(a) /\ tab'[a] = page
  BY <1>3, OneTabMoves DEF Inv
<1>7. TabInv(a)'
  BY <1>2, <1>4, <1>6 DEF TabInv, FormOps
<1>8. \A b \in Admins : tab[b].at = "filling" => tab[b].form # g /\ tab[b].form \in Forms
  BY <1>3 DEF Inv, TabInv
<1>9. FillingStays /\ OneFiller'
  BY <1>4, <1>6, <1>8 DEF FillingStays, OneFiller, TabMoves, Inv
<1>10. Shapes'
  BY <1>3, <1>4, <1>6 DEF Shapes, TabMoves, Inv
<1> QED
  BY <1>5, <1>6, <1>7, <1>9, <1>10, FormsByOne, StepKeeps DEF TabMoves

LEMMA RecountFillStep ==
    ASSUME Inv, NEW a \in Admins, RecountFill(a)
    PROVE  Inv' /\ FormsOnward
<1>1. PICK f \in Forms : f = tab[a].form
  BY DEF RecountFill, Inv, TabInv
<1>2. /\ form[f].status = "OPEN" /\ form[f].items = {}
      /\ tab[a].items # {} /\ tab[a].items \subseteq Materials
      /\ \A b \in Admins \ {a} : tab[b].at = "filling" => tab[b].form # f
  BY <1>1 DEF RecountFill, Inv, TabInv, OneFiller
<1>3. /\ form' = [form EXCEPT ![f].items = tab[a].items]
      /\ sheet' = sheet /\ report' = report
      /\ tab' = [tab EXCEPT ![a] = Home]
  BY <1>1 DEF RecountFill
<1>4. /\ form'[f].items = tab[a].items /\ form'[f].status = "OPEN"
      /\ \A g \in Forms \ {f} : form'[g] = form[g]
      /\ form' \in [Forms -> [status : Statuses, items : SUBSET Materials]]
  BY <1>2, <1>3 DEF Inv, Shapes
<1>5. FormMoves(f)
  BY <1>2, <1>3, <1>4 DEF FormMoves, FormInv, Onward, Begun, Closed, Inv, Shapes
<1> QED
  BY <1>2, <1>3, <1>5, FormEnds

-----------------------------------------------------------------------------
LEMMA InvStep ==
    ASSUME Inv, [Next]_vars
    PROVE  Inv' /\ FormsOnward
BY PageSteps, AskSteps, CloseAggregateStep, QuietSteps, RejectStep, ApproveStep, PublishStep,
   CloseStep, CountSaveStep, CreateStep, RecountCreateStep, RecountFillStep
DEF Next, AdminStep, StaffStep

LEMMA InvAlways == Spec => []Inv
<1>1. Init => Inv
  BY InvInit
<1>2. Inv /\ [Next]_vars => Inv'
  BY InvStep
<1> QED
  BY <1>1, <1>2, PTL DEF Spec

-----------------------------------------------------------------------------
(* Approval *)

NewlyApproved(f) == form[f].status # "APPROVED" /\ form'[f].status = "APPROVED"

\* Nothing but an approval approves.
LEMMA OnlyApproveApproves ==
    ASSUME Inv, [Next]_vars, NEW f \in Forms, NewlyApproved(f)
    PROVE  \E a \in Admins : ApproveForm(a) /\ tab[a].form = f
<1> USE DEF NewlyApproved
<1>0. form \in [Forms -> [status : Statuses, items : SUBSET Materials]]
  BY DEF Inv, Shapes
<1>1. ASSUME form' = form PROVE FALSE
  BY <1>1
<1>2. ASSUME NEW a \in Admins,
             \/ \E g \in Forms : FetchForm(a, g)
             \/ FetchMaterials(a)
             \/ \E d \in Deliveries : RecordRestock(a, d)
             \/ \E q \in Spoils : RecordWaste(a, q)
             \/ \E m \in Materials : EditRead(a, m)
             \/ EditSave(a)
             \/ \E op \in FormOps, g \in Forms : Ask(a, op, g)
             \/ AskPublishCreated(a) \/ CloseAggregate(a) \/ Abort(a)
      PROVE  form' = form
  BY <1>2 DEF FetchForm, FetchMaterials, RecordRestock, RecordWaste, EditRead, EditSave, Ask,
     AskPublishCreated, CloseAggregate, Abort, tables
<1>3. ASSUME \/ \E s \in Staff, g \in Forms, m \in Materials, c \in Counts : CountRead(s, g, m, c)
             \/ \E s \in Staff : CountAbort(s)
             \/ \E q \in Sales : SyncSale(q)
             \/ UNCHANGED vars
      PROVE  form' = form
  BY <1>3 DEF CountRead, CountAbort, SyncSale, vars, tables
<1>4. ASSUME NEW a \in Admins,
             \/ PublishForm(a) \/ RejectForm(a) \/ CloseCommit(a) \/ RecountFill(a)
             \/ \E g \in Forms : RecountCreate(a, g)
      PROVE  FALSE
  BY <1>0, <1>4 DEF PublishForm, RejectForm, Advance, CloseCommit, RecountFill, RecountCreate
<1>5. ASSUME NEW a \in Admins, NEW g \in Forms, NEW items \in Scopes, NEW publish \in BOOLEAN,
             CreateForm(a, g, items, publish)
      PROVE  FALSE
  BY <1>0, <1>5 DEF CreateForm
<1>6. ASSUME NEW s \in Staff, CountSave(s) PROVE FALSE
  BY <1>0, <1>6 DEF CountSave
<1>7. ASSUME NEW a \in Admins, ApproveForm(a) PROVE tab[a].form = f
  BY <1>0, <1>7 DEF ApproveForm, Advance
<1> QED
  BY <1>1, <1>2, <1>3, <1>4, <1>5, <1>6, <1>7 DEF Next, AdminStep, StaffStep

\* The stock that an approval writes is the sheet its page showed.
LEMMA ApprovalWritesShown ==
    ASSUME Inv, NEW f \in Forms, NewlyApproved(f), NEW a \in Admins, ApproveForm(a),
           tab[a].form = f
    PROVE  /\ tab[a].at = "approve"
           /\ {l.material : l \in tab[a].shown} = form[f].items
           /\ \A m \in Materials : m \notin form[f].items => stock'[m] = stock[m]
           /\ \A l \in tab[a].shown : stock'[l.material] = l.actual
<1>1. tab[a].at = "approve" /\ Closed(f) /\ tab[a].shown = sheet[f]
  BY DEF ApproveForm, Inv, TabInv
<1>2. OneLineEach(sheet[f], form[f].items) /\ form[f].items \subseteq Materials
  BY <1>1 DEF Inv, SheetsWhole, Shapes
<1> DEFINE lineOf(m) == CHOOSE l \in sheet[f] : l.material = m
           counted == {l.material : l \in sheet[f]}
<1>3. form[f].status = "CLOSED"
  BY DEF ApproveForm, Advance, NewlyApproved, Inv, Shapes
<1>4. stock' = [m \in Materials |-> IF m \in counted THEN lineOf(m).actual ELSE stock[m]]
  BY <1>3 DEF ApproveForm, ApprovedLines
<1>5. \A l \in sheet[f] : lineOf(l.material) = l
  BY <1>2 DEF OneLineEach
<1>6. counted = form[f].items
  BY <1>2 DEF OneLineEach
<1> HIDE DEF lineOf
<1>7. \A l \in sheet[f] : stock'[l.material] = l.actual
  BY <1>2, <1>4, <1>5, <1>6
<1>8. \A m \in Materials : m \notin form[f].items => stock'[m] = stock[m]
  BY <1>4, <1>6
<1> QED
  BY <1>1, <1>6, <1>7, <1>8

-----------------------------------------------------------------------------
(* Types *)

TypeInv == TypeOK /\ IsFiniteSet(entries)

\* What TypeOK says of a tab, by where it is.
LEMMA TabTypes ==
    ASSUME TypeOK, NEW a \in Admins
    PROVE  /\ tab[a].at = "form" => tab[a].form \in Forms /\ tab[a].sheet \in SUBSET Lines
           /\ tab[a].at = "materials" => tab[a].stock \in [Materials -> Stock]
           /\ tab[a].at \in FormOps => tab[a].form \in Forms /\ tab[a].shown \in SUBSET Lines
           /\ tab[a].at = "closing" => tab[a].form \in Forms /\ tab[a].lines \in SUBSET Lines
           /\ tab[a].at = "filling" => tab[a].form \in Forms /\ tab[a].items \in SUBSET Materials
           /\ tab[a].at = "create" => tab[a].form \in Forms
           /\ tab[a].at = "edit" => tab[a].material \in Materials /\ tab[a].row \in Stock
<1>1. tab[a] \in Pages \cup Requests
  BY DEF TypeOK
<1>2. tab[a].at = "form" => tab[a] \in [at : {"form"}, form : Forms, status : Statuses, sheet : SUBSET Lines]
  BY <1>1 DEF Pages, Requests, Home, FormOps
<1>3. tab[a].at = "materials" => tab[a] \in [at : {"materials"}, stock : [Materials -> Stock]]
  BY <1>1 DEF Pages, Requests, Home, FormOps
<1>4. tab[a].at \in FormOps => tab[a] \in [at : FormOps, form : Forms, shown : SUBSET Lines]
  BY <1>1 DEF Pages, Requests, Home, FormOps
<1>5. tab[a].at = "closing" => tab[a] \in [at : {"closing"}, form : Forms, lines : SUBSET Lines]
  BY <1>1 DEF Pages, Requests, Home, FormOps
<1>6. tab[a].at = "filling" => tab[a] \in [at : {"filling"}, form : Forms, items : SUBSET Materials]
  BY <1>1 DEF Pages, Requests, Home, FormOps
<1>7. tab[a].at = "create" => tab[a] \in [at : {"create"}, form : Forms]
  BY <1>1 DEF Pages, Requests, Home, FormOps
<1>8. tab[a].at = "edit" => tab[a] \in [at : {"edit"}, material : Materials, row : Stock]
  BY <1>1 DEF Pages, Requests, Home, FormOps
<1> QED
  BY <1>2, <1>3, <1>4, <1>5, <1>6, <1>7, <1>8

\* The pages and requests that steps show and make.
LEMMA PageTypes ==
    /\ Home \in Pages \cup Requests
    /\ \A f \in Forms : \A st \in Statuses : \A lines \in SUBSET Lines :
          [at |-> "form", form |-> f, status |-> st, sheet |-> lines] \in Pages \cup Requests
    /\ \A rows \in [Materials -> Stock] :
          [at |-> "materials", stock |-> rows] \in Pages \cup Requests
    /\ \A op \in FormOps : \A f \in Forms : \A lines \in SUBSET Lines :
          [at |-> op, form |-> f, shown |-> lines] \in Pages \cup Requests
    /\ \A f \in Forms : \A lines \in SUBSET Lines :
          [at |-> "closing", form |-> f, lines |-> lines] \in Pages \cup Requests
    /\ \A f \in Forms : \A items \in SUBSET Materials :
          [at |-> "filling", form |-> f, items |-> items] \in Pages \cup Requests
    /\ \A f \in Forms : [at |-> "create", form |-> f] \in Pages \cup Requests
    /\ \A m \in Materials : \A row \in Stock :
          [at |-> "edit", material |-> m, row |-> row] \in Pages \cup Requests
BY DEF Pages, Requests, Home

LEMMA RestockedType ==
    ASSUME NEW s \in Stock, NEW q \in Nat, NEW size \in Nat
    PROVE  /\ Restocked(s, q, size) \in Stock
           /\ Units(Restocked(s, q, size), size) = Units(s, size) + q
<1>0. s.loose \in Int /\ s.pkg \in Nat
  BY DEF Stock
<1>1. CASE size > 0
  <2> DEFINE d == q \div size
             r == q % size
  <2>1. d \in Nat /\ r \in Nat /\ q = size * d + r
    BY <1>1, SMT
  <2>2. Restocked(s, q, size) = [loose |-> s.loose + r, pkg |-> s.pkg + d]
    BY <1>1 DEF Restocked
  <2> HIDE DEF d, r
  <2>3. (s.pkg + d) * size + (s.loose + r) = s.pkg * size + s.loose + q
    BY <1>0, <2>1, SMT
  <2> QED
    BY <1>0, <2>1, <2>2, <2>3 DEF Stock, Units
<1>2. CASE ~(size > 0)
  <2>1. Restocked(s, q, size) = [s EXCEPT !.loose = s.loose + q]
    BY <1>2 DEF Restocked
  <2>2. size = 0
    BY <1>2
  <2>3. s.pkg * size \in Int
    BY <1>0
  <2> QED
    BY <1>0, <2>1, <2>3 DEF Stock, Units
<1> QED
  BY <1>1, <1>2

\* A bulk restock, and whatever takes goods off the shelf, moves each row by what
\* its record says.
LEMMA RestockMoves ==
    ASSUME TypeOK, NEW a \in Admins, NEW d \in Deliveries, RecordRestock(a, d)
    PROVE  /\ stock' \in [Materials -> Stock] /\ booked' \in [Materials -> Int] /\ moves' \in Nat
           /\ \A m \in Materials : \E q \in Nat :
                 /\ Units(stock'[m], PackSize[m]) = Units(stock[m], PackSize[m]) + q
                 /\ booked'[m] = booked[m] + q
<1> DEFINE qty(m) == BaseQuantity(d[m], PackSize[m])
<1>1. ASSUME NEW m \in Materials
      PROVE  PackSize[m] \in Nat /\ stock[m] \in Stock /\ booked[m] \in Int /\ qty(m) \in Nat
  <2>1. d[m] \in [n : Nat, unit : {"unit", "package"}] /\ PackSize[m] \in Nat
    BY StockRoomAssumption
  <2>2. d[m].n * PackSize[m] \in Nat
    BY <2>1
  <2> QED
    BY <2>1, <2>2 DEF BaseQuantity, TypeOK
<1>2. /\ stock' = [m \in Materials |-> Restocked(stock[m], qty(m), PackSize[m])]
      /\ booked' = [m \in Materials |-> booked[m] + qty(m)]
      /\ moves' = moves + 1
  BY DEF RecordRestock
<1> HIDE DEF qty
<1>3. ASSUME NEW m \in Materials
      PROVE  /\ stock'[m] \in Stock /\ booked'[m] \in Int
             /\ Units(stock'[m], PackSize[m]) = Units(stock[m], PackSize[m]) + qty(m)
             /\ booked'[m] = booked[m] + qty(m)
  BY <1>1, <1>2, RestockedType
<1> QED
  BY <1>1, <1>2, <1>3 DEF TypeOK

\* What TakeOff leaves of a row.
Left(s, q, size, unpack) == IF q > 0 THEN Deduct(s, q, size, unpack) ELSE s

LEMMA LeftUnits ==
    ASSUME NEW s \in Stock, NEW q \in Nat, NEW size \in Nat, NEW unpack \in BOOLEAN
    PROVE  /\ Left(s, q, size, unpack) \in Stock
           /\ Units(Left(s, q, size, unpack), size) = Units(s, size) - q
<1>1. CASE q > 0
  <2>1. Left(s, q, size, unpack) = Deduct(s, q, size, unpack)
    BY <1>1 DEF Left
  <2> QED
    BY <2>1, DeductType, DeductUnits
<1>2. CASE ~(q > 0)
  <2>1. Left(s, q, size, unpack) = s /\ q = 0
    BY <1>2 DEF Left
  <2>2. s.pkg * size \in Int
    BY DEF Stock
  <2> QED
    BY <2>1, <2>2 DEF Units, Stock
<1> QED
  BY <1>1, <1>2

LEMMA TakeOffMoves ==
    ASSUME TypeOK, NEW qty \in Quantities, NEW unpack \in BOOLEAN, TakeOff(qty, unpack)
    PROVE  /\ stock' \in [Materials -> Stock] /\ booked' \in [Materials -> Int] /\ moves' \in Nat
           /\ \A m \in Materials :
                 /\ Units(stock'[m], PackSize[m]) = Units(stock[m], PackSize[m]) - qty[m]
                 /\ booked'[m] = booked[m] - qty[m]
<1>1. /\ stock' = [m \in Materials |-> Left(stock[m], qty[m], PackSize[m], unpack)]
      /\ booked' = [m \in Materials |-> booked[m] - qty[m]]
      /\ moves' = moves + 1
  BY DEF TakeOff, Left
<1>2. ASSUME NEW m \in Materials
      PROVE  /\ stock'[m] \in Stock /\ booked'[m] \in Int
             /\ Units(stock'[m], PackSize[m]) = Units(stock[m], PackSize[m]) - qty[m]
             /\ booked'[m] = booked[m] - qty[m]
  <2>1. PackSize[m] \in Nat /\ stock[m] \in Stock /\ booked[m] \in Int /\ qty[m] \in Nat
    BY StockRoomAssumption DEF TypeOK, Quantities
  <2> QED
    BY <1>1, <2>1, LeftUnits
<1> QED
  BY <1>1, <1>2 DEF TypeOK

\* The counts of a material add up to a row of raw_materials.
LEMMA CountedType ==
    ASSUME TypeInv, NEW f \in Forms, NEW m \in Materials
    PROVE  Counted(f, m) \in [loose : Nat, pkg : Nat]
<1> DEFINE reports == {e \in entries : e.form = f /\ e.material = m}
           loose == [e \in reports |-> e.count.loose]
           pkg == [e \in reports |-> e.count.pkg]
<1>1. IsFiniteSet(reports)
  BY FS_Subset DEF TypeInv
<1>2. \A e \in reports : loose[e] \in Nat /\ pkg[e] \in Nat
  BY StockRoomAssumption DEF TypeInv, TypeOK, Entries
<1>3. Counted(f, m) = [loose |-> SumOver(loose, reports), pkg |-> SumOver(pkg, reports)]
  BY DEF Counted
<1> HIDE DEF reports, loose, pkg
<1>4. SumOver(loose, reports) \in Nat /\ SumOver(pkg, reports) \in Nat
  BY <1>1, <1>2, SumIsNat
<1> QED
  BY <1>3, <1>4

LEMMA AggregateType ==
    ASSUME TypeInv, NEW f \in Forms
    PROVE  Aggregate(f) \in SUBSET Lines
<1>1. \A m \in form[f].items : m \in Materials /\ Counted(f, m) \in [loose : Nat, pkg : Nat]
  BY CountedType DEF TypeInv, TypeOK
<1> QED
  BY <1>1 DEF Aggregate, Lines

\* A row of form's table after an UPDATE of its status.
LEMMA AdvanceType ==
    ASSUME TypeOK, NEW f \in Forms, NEW from, NEW to \in Statuses, Advance(f, from, to)
    PROVE  form' \in [Forms -> [status : Statuses, items : SUBSET Materials]]
BY DEF TypeOK, Advance

\* One tab moves to a page or a request.
LEMMA TabTyped ==
    ASSUME TypeOK, NEW a \in Admins, NEW page \in Pages \cup Requests,
           tab' = [tab EXCEPT ![a] = page]
    PROVE  tab' \in [Admins -> Pages \cup Requests]
BY DEF TypeOK

LEMMA PageTypeSteps ==
    ASSUME TypeInv, NEW a \in Admins,
           \/ \E f \in Forms : FetchForm(a, f)
           \/ FetchMaterials(a)
           \/ \E m \in Materials : EditRead(a, m)
           \/ \E op \in FormOps, f \in Forms : Ask(a, op, f)
           \/ AskPublishCreated(a)
           \/ Abort(a)
    PROVE  TypeInv'
<1>0. TypeOK
  BY DEF TypeInv
<1>1. /\ UNCHANGED <<stock, tables, report, booked, missed, moves>> /\ late' \subseteq late
      /\ \E page \in Pages \cup Requests : tab' = [tab EXCEPT ![a] = page]
  <2>1. ASSUME NEW f \in Forms, FetchForm(a, f) PROVE <1>1
    <3>1. form[f].status \in Statuses /\ sheet[f] \in SUBSET Lines
      BY <1>0 DEF TypeOK
    <3> QED
      BY <2>1, <3>1, PageTypes DEF FetchForm, history
  <2>2. ASSUME FetchMaterials(a) PROVE <1>1
    BY <1>0, <2>2, PageTypes DEF FetchMaterials, TypeOK, history
  <2>3. ASSUME NEW m \in Materials, EditRead(a, m) PROVE <1>1
    BY <1>0, <2>3, PageTypes DEF EditRead, TypeOK, history
  <2>4. ASSUME NEW op \in FormOps, NEW f \in Forms, Ask(a, op, f) PROVE <1>1
    <3>1. tab[a].sheet \in SUBSET Lines
      BY <1>0, <2>4, TabTypes DEF Ask, Offers
    <3> QED
      BY <2>4, <3>1, PageTypes DEF Ask, history
  <2>5. ASSUME AskPublishCreated(a) PROVE <1>1
    <3>1. tab[a].form \in Forms /\ {} \in SUBSET Lines /\ "publish" \in FormOps
      BY <1>0, <2>5, TabTypes DEF AskPublishCreated, FormOps
    <3> QED
      BY <2>5, <3>1, PageTypes DEF AskPublishCreated, history
  <2>6. ASSUME Abort(a) PROVE <1>1
    BY <2>6, PageTypes DEF Abort, history
  <2> QED
    BY <2>1, <2>2, <2>3, <2>4, <2>5, <2>6
<1>2. tab' \in [Admins -> Pages \cup Requests]
  BY <1>0, <1>1, TabTyped
<1> QED
  BY <1>0, <1>1, <1>2 DEF TypeInv, TypeOK, tables

LEMMA MaterialTypeSteps ==
    ASSUME TypeInv,
           \/ \E a \in Admins, d \in Deliveries : RecordRestock(a, d)
           \/ \E a \in Admins, q \in Spoils : RecordWaste(a, q)
           \/ \E a \in Admins : EditSave(a)
           \/ \E q \in Sales : SyncSale(q)
    PROVE  TypeInv'
<1>0. TypeOK /\ Spoils \subseteq Quantities /\ Sales \subseteq Quantities
  BY StockRoomAssumption DEF TypeInv
<1>1. /\ UNCHANGED <<tables, report, late, missed>>
      /\ tab' = tab \/ \E a \in Admins : tab' = [tab EXCEPT ![a] = Home]
  BY DEF RecordRestock, RecordWaste, EditSave, SyncSale, history
<1>2. tab' \in [Admins -> Pages \cup Requests]
  BY <1>0, <1>1, TabTyped, PageTypes DEF TypeOK
<1>3. stock' \in [Materials -> Stock] /\ booked' \in [Materials -> Int] /\ moves' \in Nat
  <2>1. ASSUME NEW a \in Admins, NEW d \in Deliveries, RecordRestock(a, d) PROVE <1>3
    BY <1>0, <2>1, RestockMoves
  <2>2. ASSUME NEW a \in Admins, NEW q \in Spoils, RecordWaste(a, q) PROVE <1>3
    <3>1. TakeOff(q, TRUE) /\ q \in Quantities
      BY <1>0, <2>2 DEF RecordWaste
    <3> QED
      BY <1>0, <3>1, TakeOffMoves
  <2>3. ASSUME NEW a \in Admins, EditSave(a) PROVE <1>3
    <3>1. tab[a].material \in Materials /\ tab[a].row \in Stock
      BY <1>0, <2>3, TabTypes DEF EditSave
    <3> QED
      BY <1>0, <2>3, <3>1 DEF EditSave, TypeOK, history
  <2>4. ASSUME NEW q \in Sales, SyncSale(q) PROVE <1>3
    <3>1. TakeOff(q, AutoUnpack) /\ q \in Quantities /\ AutoUnpack \in BOOLEAN
      BY <1>0, <2>4, StockRoomAssumption DEF SyncSale
    <3> QED
      BY <1>0, <3>1, TakeOffMoves
  <2> QED
    BY <2>1, <2>2, <2>3, <2>4
<1> QED
  BY <1>1, <1>2, <1>3 DEF TypeInv, TypeOK, tables

LEMMA FormTypeSteps ==
    ASSUME TypeInv, NEW a \in Admins,
           \/ \E f \in Forms, items \in Scopes, publish \in BOOLEAN :
                 CreateForm(a, f, items, publish)
           \/ PublishForm(a) \/ RejectForm(a)
           \/ \E g \in Forms : RecountCreate(a, g)
           \/ RecountFill(a)
    PROVE  TypeInv'
<1>0. TypeOK /\ Scopes \subseteq SUBSET Materials
  BY StockRoomAssumption DEF TypeInv
<1>1. /\ UNCHANGED <<stock, entries, sheet, report, history>>
      /\ form' \in [Forms -> [status : Statuses, items : SUBSET Materials]]
      /\ tab' = tab \/ \E page \in Pages \cup Requests : tab' = [tab EXCEPT ![a] = page]
  <2>1. ASSUME NEW f \in Forms, NEW items \in Scopes, NEW publish \in BOOLEAN,
               CreateForm(a, f, items, publish)
        PROVE <1>1
    <3>1. /\ form' = [form EXCEPT ![f] = [status |-> "OPEN", items |-> items]]
          /\ tab' = tab \/ tab' = [tab EXCEPT ![a] = [at |-> "create", form |-> f]]
          /\ UNCHANGED <<stock, entries, sheet, report, history>>
      BY <2>1 DEF CreateForm
    <3>2. form' \in [Forms -> [status : Statuses, items : SUBSET Materials]]
      BY <1>0, <3>1 DEF TypeOK, Statuses
    <3> QED
      BY <3>1, <3>2, PageTypes
  <2>2. ASSUME PublishForm(a) PROVE <1>1
    <3>1. tab[a].form \in Forms /\ "PUBLISHED" \in Statuses
      BY <1>0, <2>2, TabTypes DEF PublishForm, FormOps, Statuses
    <3> QED
      BY <1>0, <2>2, <3>1, AdvanceType, PageTypes DEF PublishForm
  <2>3. ASSUME RejectForm(a) PROVE <1>1
    <3>1. tab[a].form \in Forms /\ "REJECTED" \in Statuses
      BY <1>0, <2>3, TabTypes DEF RejectForm, FormOps, Statuses
    <3> QED
      BY <1>0, <2>3, <3>1, AdvanceType, PageTypes DEF RejectForm
  <2>4. ASSUME NEW g \in Forms, RecountCreate(a, g) PROVE <1>1
    <3>1. tab[a].form \in Forms
      BY <1>0, <2>4, TabTypes DEF RecountCreate, FormOps
    <3>2. form[tab[a].form].items \in SUBSET Materials
      BY <1>0, <3>1 DEF TypeOK
    <3>3. form' = [form EXCEPT ![g].status = "OPEN"]
      BY <2>4 DEF RecountCreate
    <3>4. form' \in [Forms -> [status : Statuses, items : SUBSET Materials]]
      BY <1>0, <3>3 DEF TypeOK, Statuses
    <3> QED
      BY <2>4, <3>2, <3>4, PageTypes DEF RecountCreate
  <2>5. ASSUME RecountFill(a) PROVE <1>1
    <3>1. tab[a].form \in Forms /\ tab[a].items \in SUBSET Materials
      BY <1>0, <2>5, TabTypes DEF RecountFill
    <3>2. form' = [form EXCEPT ![tab[a].form].items = tab[a].items]
      BY <2>5 DEF RecountFill
    <3>3. form' \in [Forms -> [status : Statuses, items : SUBSET Materials]]
      BY <1>0, <3>1, <3>2 DEF TypeOK
    <3> QED
      BY <2>5, <3>3, PageTypes DEF RecountFill
  <2> QED
    BY <2>1, <2>2, <2>3, <2>4, <2>5
<1>2. tab' \in [Admins -> Pages \cup Requests]
  BY <1>0, <1>1, TabTyped DEF TypeOK
<1> QED
  BY <1>1, <1>2 DEF TypeInv, TypeOK, history

LEMMA CloseTypeSteps ==
    ASSUME TypeInv, NEW a \in Admins, CloseAggregate(a) \/ CloseCommit(a)
    PROVE  TypeInv'
<1>0. TypeOK
  BY DEF TypeInv
<1>1. CASE CloseAggregate(a)
  <2> DEFINE f == tab[a].form
  <2>1. f \in Forms
    BY <1>0, <1>1, TabTypes DEF CloseAggregate, FormOps
  <2>2. Aggregate(f) \in SUBSET Lines
    BY <2>1, AggregateType
  <2>3. tab' \in [Admins -> Pages \cup Requests]
    BY <1>0, <1>1, <2>1, <2>2, PageTypes, TabTyped DEF CloseAggregate
  <2>4. UNCHANGED <<stock, tables, report, booked, missed, moves>> /\ late' \subseteq late
    BY <1>1 DEF CloseAggregate
  <2> QED
    BY <2>3, <2>4 DEF TypeInv, TypeOK, tables
<1>2. CASE CloseCommit(a)
  <2> DEFINE f == tab[a].form
  <2>1. f \in Forms /\ tab[a].lines \in SUBSET Lines
    BY <1>0, <1>2, TabTypes DEF CloseCommit
  <2>2. /\ form' = form \/ form' = [form EXCEPT ![f].status = "CLOSED"]
        /\ sheet' = sheet \/ sheet' = [sheet EXCEPT ![f] = tab[a].lines]
        /\ tab' = [tab EXCEPT ![a] = Home]
        /\ late' \subseteq late /\ missed' \in {missed, missed \cup {f}}
        /\ UNCHANGED <<stock, entries, report, booked, moves>>
    BY <1>2 DEF CloseCommit
  <2>3. form' \in [Forms -> [status : Statuses, items : SUBSET Materials]]
    BY <1>0, <2>1, <2>2 DEF TypeOK, Statuses
  <2>4. sheet' \in [Forms -> SUBSET Lines]
    BY <1>0, <2>1, <2>2 DEF TypeOK
  <2>5. tab' \in [Admins -> Pages \cup Requests]
    BY <1>0, <2>2, PageTypes, TabTyped
  <2> QED
    BY <2>1, <2>2, <2>3, <2>4, <2>5 DEF TypeInv, TypeOK
<1> QED
  BY <1>1, <1>2

LEMMA ApproveType ==
    ASSUME TypeInv, NEW a \in Admins, ApproveForm(a)
    PROVE  TypeInv'
<1>0. TypeOK
  BY DEF TypeInv
<1> DEFINE f == tab[a].form
           lineOf(m) == CHOOSE l \in sheet[f] : l.material = m
           counted == {l.material : l \in sheet[f]}
<1>1. f \in Forms /\ tab[a].at = "approve" /\ "APPROVED" \in Statuses
  BY <1>0, TabTypes DEF ApproveForm, FormOps, Statuses
<1>2. sheet[f] \in SUBSET Lines
  BY <1>0, <1>1 DEF TypeOK
<1>3. \A m \in counted : lineOf(m).actual \in Stock
  BY <1>2 DEF Lines, Stock
<1>4. \A m \in Materials : PackSize[m] \in Nat /\ stock[m] \in Stock /\ booked[m] \in Int
  BY <1>0, StockRoomAssumption DEF TypeOK
<1>5. \A s \in Stock : \A size \in Nat : Units(s, size) \in Int
  <2> SUFFICES ASSUME NEW s \in Stock, NEW size \in Nat PROVE Units(s, size) \in Int
    OBVIOUS
  <2>1. s.pkg * size \in Int
    BY DEF Stock
  <2> QED
    BY <2>1 DEF Units, Stock
<1>6. \/ stock' = stock /\ booked' = booked
      \/ /\ stock' = [m \in Materials |-> IF m \in counted THEN lineOf(m).actual ELSE stock[m]]
         /\ booked' = [m \in Materials |->
                          IF m \in counted THEN Units(lineOf(m).actual, PackSize[m]) ELSE booked[m]]
  BY DEF ApproveForm, ApprovedLines
<1> HIDE DEF lineOf, counted
<1>7. stock' \in [Materials -> Stock] /\ booked' \in [Materials -> Int]
  <2>1. \A m \in Materials : m \in counted => Units(lineOf(m).actual, PackSize[m]) \in Int
    BY <1>3, <1>4, <1>5
  <2> QED
    BY <1>0, <1>3, <1>4, <1>6, <2>1 DEF TypeOK
<1>8. form' \in [Forms -> [status : Statuses, items : SUBSET Materials]]
  BY <1>0, <1>1, AdvanceType DEF ApproveForm
<1>9. /\ tab' = [tab EXCEPT ![a] = Home]
      /\ UNCHANGED <<entries, sheet, report, late, missed, moves>>
  BY DEF ApproveForm
<1>10. tab' \in [Admins -> Pages \cup Requests]
  BY <1>0, <1>9, PageTypes, TabTyped
<1> QED
  BY <1>7, <1>8, <1>9, <1>10 DEF TypeInv, TypeOK

LEMMA StaffTypeSteps ==
    ASSUME TypeInv, NEW s \in Staff, StaffStep(s)
    PROVE  TypeInv'
<1>0. TypeOK
  BY DEF TypeInv
<1>1. ASSUME NEW f \in Forms, NEW m \in Materials, NEW c \in Counts, CountRead(s, f, m, c)
      PROVE  TypeInv'
  <2> DEFINE new == [status |-> form[f].status,
                     entry |-> [form |-> f, material |-> m, by |-> s, count |-> c]]
  <2>1. new \in Reports
    BY <1>1 DEF CountRead, Reports, Entries
  <2>2. report' = [report EXCEPT ![s] = new] /\ UNCHANGED <<stock, tables, tab, history>>
    BY <1>1 DEF CountRead
  <2> HIDE DEF new
  <2>3. report' \in [Staff -> {NoCount} \cup Reports]
    BY <1>0, <2>1, <2>2 DEF TypeOK
  <2> QED
    BY <2>2, <2>3 DEF TypeInv, TypeOK, tables, history
<1>2. CASE CountAbort(s)
  BY <1>2 DEF CountAbort, TypeInv, TypeOK, tables, history
<1>3. CASE CountSave(s)
  <2> DEFINE new == report[s].entry
  <2>1. new \in Entries /\ new.form \in Forms
    BY <1>0, <1>3 DEF CountSave, TypeOK, Reports, NoCount, Entries
  <2>2. /\ report' = [report EXCEPT ![s] = NoCount] /\ UNCHANGED <<stock, sheet, tab, booked, moves>>
        /\ \/ UNCHANGED <<form, entries, missed>>
           \/ /\ entries' = Upsert(new)
              /\ form' = [form EXCEPT ![new.form].status =
                             IF report[s].status = "PUBLISHED" THEN "COUNTING" ELSE @]
              /\ missed' \in {missed, missed \cup {new.form}}
    BY <1>3 DEF CountSave
  <2>6. late' \in SUBSET Admins
    BY <1>0, <1>3 DEF CountSave, TypeOK
  <2> HIDE DEF new
  <2>3. form' \in [Forms -> [status : Statuses, items : SUBSET Materials]]
    BY <1>0, <2>1, <2>2 DEF TypeOK, Statuses
  <2>4. entries' \subseteq Entries /\ IsFiniteSet(entries')
    <3> DEFINE others == {e \in entries : <<e.form, e.material, e.by>> # <<new.form, new.material, new.by>>}
    <3>1. IsFiniteSet(others) /\ others \subseteq Entries
      BY FS_Subset DEF TypeInv, TypeOK
    <3>2. IsFiniteSet(others \cup {new}) /\ others \cup {new} \subseteq Entries
      BY <2>1, <3>1, FS_AddElement
    <3> QED
      BY <2>2, <3>2 DEF Upsert, TypeInv, TypeOK
  <2>5. report' \in [Staff -> {NoCount} \cup Reports] /\ missed' \in SUBSET Forms
    BY <1>0, <2>1, <2>2 DEF TypeOK
  <2> QED
    BY <2>2, <2>3, <2>4, <2>5, <2>6 DEF TypeInv, TypeOK
<1> QED
  BY <1>1, <1>2, <1>3 DEF StaffStep

LEMMA TypeStep ==
    ASSUME TypeInv, [Next]_vars
    PROVE  TypeInv'
<1>1. CASE UNCHANGED vars
  BY <1>1 DEF vars, tables, history, TypeInv, TypeOK
<1>2. CASE Next
  BY <1>2, PageTypeSteps, MaterialTypeSteps, FormTypeSteps, CloseTypeSteps, ApproveType,
     StaffTypeSteps
  DEF Next, AdminStep
<1> QED
  BY <1>1, <1>2

LEMMA TypeInit == Init => TypeInv
<1> SUFFICES ASSUME Init PROVE TypeInv
  OBVIOUS
<1>1. \A m \in Materials : Units(OpeningStock[m], PackSize[m]) \in Int
  <2> SUFFICES ASSUME NEW m \in Materials PROVE Units(OpeningStock[m], PackSize[m]) \in Int
    OBVIOUS
  <2>1. OpeningStock[m] \in Stock /\ PackSize[m] \in Nat
    BY StockRoomAssumption
  <2>2. OpeningStock[m].pkg * PackSize[m] \in Int
    BY <2>1 DEF Stock
  <2> QED
    BY <2>1, <2>2 DEF Units, Stock
<1>2. booked \in [Materials -> Int] /\ stock \in [Materials -> Stock]
  BY <1>1, StockRoomAssumption DEF Init
<1>3. tab \in [Admins -> Pages \cup Requests]
  BY PageTypes DEF Init
<1>4. IsFiniteSet(entries) /\ entries \subseteq Entries
  BY FS_EmptySet DEF Init
<1>5. /\ form \in [Forms -> [status : Statuses, items : SUBSET Materials]]
      /\ sheet \in [Forms -> SUBSET Lines]
      /\ report \in [Staff -> {NoCount} \cup Reports]
      /\ late \in SUBSET Admins /\ missed \in SUBSET Forms /\ moves \in Nat
  BY DEF Init, Statuses
<1> QED
  BY <1>2, <1>3, <1>4, <1>5 DEF TypeInv, TypeOK

LEMMA TypeAlways == Spec => []TypeInv
<1>1. Init => TypeInv
  BY TypeInit
<1>2. TypeInv /\ [Next]_vars => TypeInv'
  BY TypeStep
<1> QED
  BY <1>1, <1>2, PTL DEF Spec

-----------------------------------------------------------------------------
(* What the sheet of a closed form adds up to.  A close that a count came   *)
(* too late for is in `late`, its form in `missed` once it is closed; the   *)
(* lines that any other close has in hand, and those that it wrote, are the *)
(* counts as they still stand.                                              *)

LinesFollow(f) == Closed(f) /\ f \notin missed => sheet[f] = Aggregate(f)

CloserFollows(a) ==
    tab[a].at = "closing" /\ a \notin late =>
        tab[a].lines = Aggregate(tab[a].form)

SheetInv ==
    /\ Inv
    /\ TypeInv
    /\ \A f \in Forms : LinesFollow(f)
    /\ \A a \in Admins : CloserFollows(a)

\* What a form's counts add up to changes with its items and its counts only.
LEMMA AggregateStays ==
    ASSUME NEW f \in Forms, form'[f].items = form[f].items,
           {e \in entries' : e.form = f} = {e \in entries : e.form = f}
    PROVE  Aggregate(f)' = Aggregate(f)
<1>1. ASSUME NEW m PROVE {e \in entries' : e.form = f /\ e.material = m}
                          = {e \in entries : e.form = f /\ e.material = m}
  OBVIOUS
<1>2. ASSUME NEW m PROVE Counted(f, m)' = Counted(f, m)
  BY <1>1 DEF Counted
<1> QED
  BY <1>2 DEF Aggregate

\* A form whose counts, items and sheet a step leaves, and that it does not close.
LEMMA QuietForm ==
    ASSUME SheetInv, NEW f \in Forms, form'[f].items = form[f].items, sheet'[f] = sheet[f],
           {e \in entries' : e.form = f} = {e \in entries : e.form = f},
           Closed(f)' => Closed(f), f \notin missed' => f \notin missed
    PROVE  LinesFollow(f)'
BY AggregateStays DEF SheetInv, LinesFollow

\* A closer that a step leaves alone, with its form's items and counts.
LEMMA QuietCloser ==
    ASSUME SheetInv, NEW a \in Admins, tab'[a] = tab[a],
           tab[a].at = "closing" =>
               LET f == tab[a].form
               IN  /\ form'[f].items = form[f].items
                   /\ {e \in entries' : e.form = f} = {e \in entries : e.form = f}
                   /\ a \notin late' => a \notin late
    PROVE  CloserFollows(a)'
<1>1. CASE tab[a].at = "closing"
  <2> DEFINE f == tab[a].form
  <2>1. f \in Forms
    BY <1>1 DEF SheetInv, Inv, TabInv
  <2>2. Aggregate(f)' = Aggregate(f)
    BY <1>1, <2>1, AggregateStays
  <2>3. tab'[a].form = f
    OBVIOUS
  <2>4. Aggregate(tab[a].form)' = Aggregate(f)'
    BY <2>3 DEF Aggregate, Counted
  <2> QED
    BY <1>1, <2>2, <2>4 DEF SheetInv, CloserFollows
<1>2. CASE tab[a].at # "closing"
  BY <1>2 DEF CloserFollows
<1> QED
  BY <1>1, <1>2

\* Most steps leave the counts, and what is missed; one tab moves, to no close.
LEMMA CountsStay ==
    ASSUME SheetInv, UNCHANGED <<entries, missed, sheet>>, DOMAIN tab' = Admins,
           \A f \in Forms : (Closed(f)' => Closed(f))
                            /\ (Begun(f) \/ Closed(f) => form'[f].items = form[f].items),
           \A b \in Admins : \/ tab'[b].at # "closing"
                             \/ tab'[b] = tab[b] /\ (b \notin late' => b \notin late)
    PROVE  (\A f \in Forms : LinesFollow(f)') /\ (\A a \in Admins : CloserFollows(a)')
<1>1. ASSUME NEW f \in Forms PROVE LinesFollow(f)'
  <2>1. CASE Closed(f)
    BY <2>1, QuietForm
  <2>2. CASE ~Closed(f)
    BY <2>2 DEF LinesFollow
  <2> QED
    BY <2>1, <2>2
<1>2. ASSUME NEW a \in Admins PROVE CloserFollows(a)'
  <2>1. CASE tab'[a].at # "closing"
    BY <2>1 DEF CloserFollows
  <2>2. CASE tab'[a].at = "closing"
    <3>1. tab'[a] = tab[a] /\ tab[a].at = "closing" /\ (a \notin late' => a \notin late)
      BY <2>2
    <3>2. tab[a].form \in Forms /\ Begun(tab[a].form)
      BY <3>1 DEF SheetInv, Inv, TabInv
    <3> QED
      BY <3>1, <3>2, QuietCloser
  <2> QED
    BY <2>1, <2>2
<1> QED
  BY <1>1, <1>2

\* No tab moves into a close, and none at one makes up for a late count.
NoneToClose ==
    /\ DOMAIN tab' = Admins
    /\ \A b \in Admins : \/ tab'[b].at # "closing"
                         \/ tab'[b] = tab[b] /\ (b \notin late' => b \notin late)

LEMMA MoveElsewhere ==
    ASSUME DOMAIN tab = Admins, NEW a \in Admins, NEW page, page.at # "closing",
           tab' = [tab EXCEPT ![a] = page],
           late' = late \/ late' = late \ {a}
    PROVE  NoneToClose
BY DEF NoneToClose

Follow == (\A f \in Forms : LinesFollow(f)) /\ (\A a \in Admins : CloserFollows(a))

LEMMA PageFollows ==
    ASSUME SheetInv, NEW a \in Admins,
           \/ \E f \in Forms : FetchForm(a, f)
           \/ FetchMaterials(a)
           \/ \E d \in Deliveries : RecordRestock(a, d)
           \/ \E q \in Spoils : RecordWaste(a, q)
           \/ \E m \in Materials : EditRead(a, m)
           \/ EditSave(a)
           \/ \E op \in FormOps, f \in Forms : Ask(a, op, f)
           \/ AskPublishCreated(a)
           \/ Abort(a)
    PROVE  Follow'
<1>1. UNCHANGED <<entries, missed, sheet, form>>
  BY DEF FetchForm, FetchMaterials, RecordRestock, RecordWaste, EditRead, EditSave, Ask,
     AskPublishCreated, Abort, tables, history
<1>2. NoneToClose
  <2>0. DOMAIN tab = Admins /\ (late' = late \/ late' = late \ {a})
    BY DEF SheetInv, Inv, Shapes, FetchForm, FetchMaterials, RecordRestock, RecordWaste,
       EditRead, EditSave, Ask, AskPublishCreated, Abort, history
  <2>1. ASSUME NEW f \in Forms, FetchForm(a, f) PROVE <1>2
    BY <2>0, <2>1, MoveElsewhere DEF FetchForm
  <2>2. ASSUME FetchMaterials(a) PROVE <1>2
    BY <2>0, <2>2, MoveElsewhere DEF FetchMaterials
  <2>3. ASSUME NEW m \in Materials, EditRead(a, m) PROVE <1>2
    BY <2>0, <2>3, MoveElsewhere DEF EditRead
  <2>4. ASSUME NEW op \in FormOps, NEW f \in Forms, Ask(a, op, f) PROVE <1>2
    BY <2>0, <2>4, MoveElsewhere DEF Ask, FormOps
  <2>5. ASSUME AskPublishCreated(a) PROVE <1>2
    BY <2>0, <2>5, MoveElsewhere DEF AskPublishCreated, Home
  <2>6. ASSUME \/ \E d \in Deliveries : RecordRestock(a, d)
               \/ \E q \in Spoils : RecordWaste(a, q)
               \/ EditSave(a) \/ Abort(a)
        PROVE  <1>2
    BY <2>0, <2>6, MoveElsewhere DEF RecordRestock, RecordWaste, EditSave, Abort, Home
  <2> QED
    BY <2>1, <2>2, <2>3, <2>4, <2>5, <2>6
<1>3. \A f \in Forms : (Closed(f)' => Closed(f)) /\ form'[f].items = form[f].items
  BY <1>1 DEF Closed
<1> QED
  BY <1>1, <1>2, <1>3, CountsStay DEF Follow, NoneToClose

\* Steps on a form that neither count nor close.
LEMMA FormFollows ==
    ASSUME SheetInv, NEW a \in Admins,
           \/ \E f \in Forms, items \in Scopes, publish \in BOOLEAN :
                 CreateForm(a, f, items, publish)
           \/ PublishForm(a) \/ RejectForm(a) \/ ApproveForm(a)
           \/ \E g \in Forms : RecountCreate(a, g)
           \/ RecountFill(a)
    PROVE  Follow'
<1>0. form \in [Forms -> [status : Statuses, items : SUBSET Materials]] /\ DOMAIN tab = Admins
      /\ PublishedFormsHaveItems
  BY DEF SheetInv, Inv, Shapes
<1>1. UNCHANGED <<entries, late, missed, sheet>>
  BY DEF CreateForm, PublishForm, RejectForm, ApproveForm, RecountCreate, RecountFill, history
<1>2. NoneToClose
  <2>1. ASSUME NEW f \in Forms, NEW items \in Scopes, NEW publish \in BOOLEAN,
               CreateForm(a, f, items, publish)
        PROVE  <1>2
    <3>1. tab' = tab \/ tab' = [tab EXCEPT ![a] = [at |-> "create", form |-> f]]
      BY <2>1 DEF CreateForm
    <3> QED
      BY <1>0, <1>1, <3>1, MoveElsewhere DEF NoneToClose
  <2>2. ASSUME NEW g \in Forms, RecountCreate(a, g) PROVE <1>2
    BY <1>0, <1>1, <2>2, MoveElsewhere DEF RecountCreate
  <2>3. ASSUME PublishForm(a) \/ RejectForm(a) \/ ApproveForm(a) \/ RecountFill(a) PROVE <1>2
    BY <1>0, <1>1, <2>3, MoveElsewhere DEF PublishForm, RejectForm, ApproveForm, RecountFill, Home
  <2> QED
    BY <2>1, <2>2, <2>3
<1>3. \A f \in Forms : Closed(f)' => Closed(f)
  <2>1. ASSUME NEW f \in Forms, NEW items \in Scopes, NEW publish \in BOOLEAN,
               CreateForm(a, f, items, publish)
        PROVE  <1>3
    BY <1>0, <2>1 DEF CreateForm, Closed
  <2>2. ASSUME NEW g \in Forms, RecountCreate(a, g) PROVE <1>3
    BY <1>0, <2>2 DEF RecountCreate, Closed
  <2>3. ASSUME PublishForm(a) PROVE <1>3
    BY <1>0, <2>3 DEF PublishForm, Advance, Closed
  <2>4. ASSUME RejectForm(a) PROVE <1>3
    BY <1>0, <2>4 DEF RejectForm, Advance, Closed
  <2>5. ASSUME ApproveForm(a) PROVE <1>3
    BY <1>0, <2>5 DEF ApproveForm, Advance, Closed
  <2>6. ASSUME RecountFill(a) PROVE <1>3
    BY <1>0, <2>6 DEF RecountFill, Closed
  <2> QED
    BY <2>1, <2>2, <2>3, <2>4, <2>5, <2>6
<1>4. \A f \in Forms : Begun(f) \/ Closed(f) => form'[f].items = form[f].items
  <2>1. Next
    BY DEF Next, AdminStep
  <2>2. FormsOnward
    BY <2>1, InvStep DEF SheetInv
  <2> QED
    BY <1>0, <2>2 DEF FormsOnward, Onward, PublishedFormsHaveItems, Begun, Closed
<1> QED
  BY <1>1, <1>2, <1>3, <1>4, CountsStay DEF Follow, NoneToClose

\* Adding up: from here the close follows the counts.
LEMMA CloseAggregateFollows ==
    ASSUME SheetInv, NEW a \in Admins, CloseAggregate(a)
    PROVE  Follow'
<1>0. PICK f \in Forms : f = tab[a].form
  BY DEF CloseAggregate, SheetInv, Inv, TabInv, FormOps
<1> DEFINE page == [at |-> "closing", form |-> f, lines |-> Aggregate(f)]
<1>1. /\ tab[a].at = "close" /\ UNCHANGED tables
      /\ tab' = [tab EXCEPT ![a] = page]
      /\ late' = late \ {a} /\ missed' = missed
  BY <1>0 DEF CloseAggregate
<1>3. form' = form /\ entries' = entries /\ sheet' = sheet
  BY <1>1 DEF tables
<1>4. tab'[a] = page /\ \A b \in Admins \ {a} : tab'[b] = tab[b]
  BY <1>1 DEF SheetInv, Inv, Shapes
<1>5. ASSUME NEW g \in Forms PROVE LinesFollow(g)'
  <2>1. Closed(g)' => Closed(g)
    BY <1>3 DEF Closed
  <2> QED
    BY <1>1, <1>3, <2>1, QuietForm
<1>6. ASSUME NEW b \in Admins PROVE CloserFollows(b)'
  <2>1. CASE b = a
    <3>1. form'[f].items = form[f].items
          /\ {e \in entries' : e.form = f} = {e \in entries : e.form = f}
      BY <1>3
    <3>2. tab'[b].form = f /\ tab'[b].lines = Aggregate(f)
      BY <1>4, <2>1
    <3>3. Aggregate(f)' = Aggregate(f)
      BY <3>1, AggregateStays
    <3> QED
      BY <3>2, <3>3 DEF CloserFollows
  <2>2. CASE b # a
    <3>1. tab'[b] = tab[b]
      BY <1>4, <2>2
    <3>2. b \notin late' => b \notin late
      BY <1>1, <2>2
    <3> QED
      BY <1>3, <3>1, <3>2, QuietCloser
  <2> QED
    BY <2>1, <2>2
<1> QED
  BY <1>5, <1>6 DEF Follow

\* Closing: what the close has in hand becomes the sheet.
LEMMA CloseCommitFollows ==
    ASSUME SheetInv, NEW a \in Admins, CloseCommit(a)
    PROVE  Follow'
<1> DEFINE f == tab[a].form
<1>1. /\ tab[a].at = "closing" /\ entries' = entries /\ late' = late \ {a}
      /\ tab' = [tab EXCEPT ![a] = Home]
      /\ IF StillCounting(f)
         THEN /\ form' = [form EXCEPT ![f].status = "CLOSED"]
              /\ sheet' = [sheet EXCEPT ![f] = tab[a].lines]
              /\ missed' = IF a \in late THEN missed \cup {f} ELSE missed
         ELSE form' = form /\ sheet' = sheet /\ missed' = missed
  BY DEF CloseCommit
<1>2. f \in Forms /\ form \in [Forms -> [status : Statuses, items : SUBSET Materials]]
      /\ DOMAIN sheet = Forms /\ DOMAIN tab = Admins
  BY <1>1 DEF SheetInv, Inv, TabInv, Shapes
<1>3. \A g \in Forms : form'[g].items = form[g].items
  BY <1>1, <1>2
<1>4. tab'[a] = Home /\ \A b \in Admins \ {a} : tab'[b] = tab[b]
  BY <1>1, <1>2
<1>5. ASSUME NEW g \in Forms PROVE LinesFollow(g)'
  <2>1. CASE g = f /\ StillCounting(f)
    <3>1. sheet'[g] = tab[a].lines
      BY <1>1, <1>2, <2>1
    <3>2. Aggregate(g)' = Aggregate(g)
      BY <1>1, <1>3, AggregateStays
    <3>3. f \notin missed' => tab[a].lines = Aggregate(f)
      BY <1>1, <2>1 DEF SheetInv, CloserFollows
    <3> QED
      BY <1>1, <2>1, <3>1, <3>2, <3>3 DEF LinesFollow
  <2>2. CASE ~(g = f /\ StillCounting(f))
    <3>1. form'[g] = form[g] /\ sheet'[g] = sheet[g]
      BY <1>1, <1>2, <2>2
    <3>2. Closed(g)' => Closed(g)
      BY <3>1 DEF Closed
    <3>3. g \notin missed' => g \notin missed
      BY <1>1
    <3> QED
      BY <1>1, <1>3, <3>1, <3>2, <3>3, QuietForm
  <2> QED
    BY <2>1, <2>2
<1>6. ASSUME NEW b \in Admins PROVE CloserFollows(b)'
  <2>1. CASE b = a
    BY <1>4, <2>1 DEF CloserFollows, Home
  <2>2. CASE b # a
    <3>1. tab[b].at = "closing" => tab[b].form \in Forms
      BY DEF SheetInv, Inv, TabInv
    <3> QED
      BY <1>1, <1>3, <1>4, <2>2, <3>1, QuietCloser
  <2> QED
    BY <2>1, <2>2
<1> QED
  BY <1>5, <1>6 DEF Follow

\* A count goes into a form that is still open, and the closes that have added up are
\* late for it, or the closed form is known to have missed it.
LEMMA CountSaveFollows ==
    ASSUME SheetInv, NEW s \in Staff, CountSave(s)
    PROVE  Follow'
<1>1. PICK f \in Forms : f = report[s].entry.form
  BY DEF CountSave, SheetInv, Inv, Shapes
<1> DEFINE new == report[s].entry
<1>2. sheet' = sheet /\ tab' = tab
  BY DEF CountSave
<1>3. form \in [Forms -> [status : Statuses, items : SUBSET Materials]]
  BY DEF SheetInv, Inv, Shapes
<1>4. CASE UNCHANGED <<form, entries, late, missed>>
  <2>1. \A g \in Forms : LinesFollow(g)'
    BY <1>2, <1>4, QuietForm DEF Closed
  <2>2. \A b \in Admins : CloserFollows(b)'
    BY <1>2, <1>4, QuietCloser
  <2> QED
    BY <2>1, <2>2 DEF Follow
<1>5. CASE /\ entries' = Upsert(new)
           /\ form' = [form EXCEPT ![f].status =
                          IF report[s].status = "PUBLISHED" THEN "COUNTING" ELSE @]
           /\ late' = late \cup {a \in Admins : Closing(a, f)}
           /\ missed' = IF form[f].status \in {"PUBLISHED", "COUNTING"}
                        THEN missed ELSE missed \cup {f}
  <2>1. \A g \in Forms \ {f} : {e \in entries' : e.form = g} = {e \in entries : e.form = g}
    BY <1>1, <1>5 DEF Upsert
  <2>2. \A g \in Forms : form'[g].items = form[g].items
    BY <1>1, <1>3, <1>5
  <2>3. \A g \in Forms : g \notin missed' => g \notin missed
    BY <1>5
  <2>4. f \in missed' \/ ~Closed(f)'
    BY <1>1, <1>3, <1>5 DEF Closed
  <2>5. ASSUME NEW g \in Forms PROVE LinesFollow(g)'
    <3>1. CASE g = f
      BY <2>4, <3>1, <1>2, <2>2, <2>3 DEF LinesFollow
    <3>2. CASE g # f
      <4>1. form'[g] = form[g]
        BY <1>1, <1>3, <1>5, <3>2
      <4> QED
        BY <1>2, <2>1, <2>2, <2>3, <3>2, <4>1, QuietForm DEF Closed
    <3> QED
      BY <3>1, <3>2
  <2>6. ASSUME NEW b \in Admins PROVE CloserFollows(b)'
    <3>0. tab'[b] = tab[b] /\ (tab[b].at = "closing" => tab[b].form \in Forms)
      BY <1>2 DEF SheetInv, Inv, TabInv
    <3>1. CASE tab[b].at = "closing" /\ tab[b].form = f
      <4>1. b \in late'
        BY <1>5, <3>1 DEF Closing
      <4> QED
        BY <3>0, <3>1, <4>1 DEF CloserFollows
    <3>2. CASE ~(tab[b].at = "closing" /\ tab[b].form = f)
      BY <1>5, <2>1, <2>2, <3>0, <3>2, QuietCloser
    <3> QED
      BY <3>1, <3>2
  <2> QED
    BY <2>5, <2>6 DEF Follow
<1> QED
  BY <1>1, <1>4, <1>5 DEF CountSave

LEMMA SheetStep ==
    ASSUME SheetInv, [Next]_vars
    PROVE  SheetInv'
<1>1. Inv' /\ TypeInv'
  BY InvStep, TypeStep DEF SheetInv
<1>2. ASSUME \/ \E s \in Staff, f \in Forms, m \in Materials, c \in Counts : CountRead(s, f, m, c)
             \/ \E s \in Staff : CountAbort(s)
             \/ \E q \in Sales : SyncSale(q)
             \/ UNCHANGED vars
      PROVE  Follow'
  <2>1. UNCHANGED <<form, entries, late, missed, sheet, tab>>
    BY <1>2 DEF CountRead, CountAbort, SyncSale, vars, tables, history
  <2>2. DOMAIN tab' = Admins /\ \A f \in Forms : Closed(f)' => Closed(f)
    BY <2>1 DEF SheetInv, Inv, Shapes, Closed
  <2> QED
    BY <2>1, <2>2, CountsStay DEF Follow
<1>3. Follow'
  BY <1>2, PageFollows, FormFollows, CloseAggregateFollows, CloseCommitFollows, CountSaveFollows
  DEF Next, AdminStep, StaffStep
<1> QED
  BY <1>1, <1>3 DEF SheetInv, Follow

\* In base units, what is added up form by form is what is added up count by count.
LEMMA CountedUnits ==
    ASSUME TypeInv, NEW f \in Forms, NEW m \in Materials
    PROVE  Units(Counted(f, m), PackSize[m]) =
               LET reports == {e \in entries : e.form = f /\ e.material = m}
               IN  SumOver([e \in reports |-> Units(e.count, PackSize[e.material])], reports)
<1> DEFINE reports == {e \in entries : e.form = f /\ e.material = m}
           loose == [e \in reports |-> e.count.loose]
           pkg == [e \in reports |-> e.count.pkg]
           units == [e \in reports |-> Units(e.count, PackSize[e.material])]
           size == PackSize[m]
<1>1. IsFiniteSet(reports) /\ size \in Int
  BY FS_Subset, StockRoomAssumption DEF TypeInv
<1>2. \A e \in reports : loose[e] \in Int /\ pkg[e] \in Int
  BY StockRoomAssumption DEF TypeInv, TypeOK, Entries
<1>3. \A e \in reports : units[e] = pkg[e] * size + loose[e]
  BY DEF Units
<1>4. Counted(f, m) = [loose |-> SumOver(loose, reports), pkg |-> SumOver(pkg, reports)]
  BY DEF Counted
<1> HIDE DEF reports, loose, pkg, units, size
<1>5. SumOver(units, reports) = SumOver(pkg, reports) * size + SumOver(loose, reports)
  BY <1>1, <1>2, <1>3, SumOfScaled
<1>6. Units(Counted(f, m), size) = SumOver(units, reports)
  BY <1>4, <1>5 DEF Units
<1> QED
  BY <1>6 DEF reports, units, size

\* One line for each of finitely many materials is as many lines as materials.
LEMMA AsManyLines ==
    ASSUME NEW lines, NEW items, IsFiniteSet(items), OneLineEach(lines, items)
    PROVE  Cardinality(lines) = Cardinality(items)
<1> DEFINE of == [l \in lines |-> l.material]
<1>1. of \in Injection(lines, items)
  BY DEF OneLineEach, Injection, IsInjective
<1>2. of \in Surjection(lines, items)
  BY DEF OneLineEach, Surjection
<1> HIDE DEF of
<1> QED
  BY <1>1, <1>2, FS_Injection

LEMMA SheetAddsUp ==
    ASSUME SheetInv
    PROVE  ClosedSheetAddsUp
<1> SUFFICES ASSUME NEW f \in Forms, Closed(f), f \notin missed
             PROVE  /\ {l.material : l \in sheet[f]} = form[f].items
                    /\ Cardinality(sheet[f]) = Cardinality(form[f].items)
                    /\ \A l \in sheet[f] :
                          Units(l.actual, PackSize[l.material]) =
                              LET reports == {e \in entries : e.form = f /\ e.material = l.material}
                              IN  SumOver([e \in reports |-> Units(e.count, PackSize[e.material])],
                                          reports)
  BY DEF ClosedSheetAddsUp
<1>1. OneLineEach(sheet[f], form[f].items) /\ form[f].items \subseteq Materials
  BY DEF SheetInv, Inv, SheetsWhole, Shapes
<1>2. Cardinality(sheet[f]) = Cardinality(form[f].items)
  BY <1>1, AsManyLines, FS_Subset, StockRoomAssumption
<1>3. sheet[f] = Aggregate(f)
  BY DEF SheetInv, LinesFollow
<1>4. \A l \in sheet[f] : l.material \in Materials /\ l.actual = Counted(f, l.material)
  BY <1>1, <1>3 DEF Aggregate
<1>5. TypeInv
  BY DEF SheetInv
<1> QED
  BY <1>1, <1>2, <1>4, <1>5, CountedUnits DEF OneLineEach

LEMMA SheetAlways == Spec => []SheetInv
<1>1. Init => SheetInv
  BY InvInit, TypeInit DEF Init, SheetInv, LinesFollow, CloserFollows, Closed, Home
<1>2. SheetInv /\ [Next]_vars => SheetInv'
  BY SheetStep
<1> QED
  BY <1>1, <1>2, PTL DEF Spec

-----------------------------------------------------------------------------
(* The shelf and the books *)

\* Only the writers of raw materials move the shelf and the books.
LEMMA OnlyWritersMove ==
    ASSUME [Next]_vars,
           ~ \E a \in Admins : \/ \E d \in Deliveries : RecordRestock(a, d)
                               \/ \E q \in Spoils : RecordWaste(a, q)
                               \/ EditSave(a) \/ ApproveForm(a),
           ~ \E q \in Sales : SyncSale(q)
    PROVE  UNCHANGED <<stock, booked>>
<1> USE DEF vars, history
<1>1. ASSUME NEW a \in Admins,
             \/ FetchMaterials(a) \/ (\E m \in Materials : EditRead(a, m))
             \/ (\E f \in Forms : FetchForm(a, f)) \/ Abort(a)
      PROVE  UNCHANGED <<stock, booked>>
  BY <1>1 DEF FetchMaterials, EditRead, FetchForm, Abort
<1>2. ASSUME NEW a \in Admins,
             \/ \E f \in Forms, items \in Scopes, publish \in BOOLEAN :
                   CreateForm(a, f, items, publish)
             \/ \E op \in FormOps, f \in Forms : Ask(a, op, f)
             \/ AskPublishCreated(a)
      PROVE  UNCHANGED <<stock, booked>>
  BY <1>2 DEF CreateForm, Ask, AskPublishCreated
<1>3. ASSUME NEW a \in Admins,
             \/ PublishForm(a) \/ RejectForm(a) \/ CloseAggregate(a) \/ CloseCommit(a)
             \/ (\E g \in Forms : RecountCreate(a, g)) \/ RecountFill(a)
      PROVE  UNCHANGED <<stock, booked>>
  BY <1>3 DEF PublishForm, RejectForm, CloseAggregate, CloseCommit, RecountCreate, RecountFill
<1>4. ASSUME NEW s \in Staff, StaffStep(s)
      PROVE  UNCHANGED <<stock, booked>>
  BY <1>4 DEF StaffStep, CountRead, CountSave, CountAbort
<1>5. ASSUME UNCHANGED vars PROVE UNCHANGED <<stock, booked>>
  BY <1>5
<1> QED
  BY <1>1, <1>2, <1>3, <1>4, <1>5 DEF Next, AdminStep

LEMMA UnitsAreInt ==
    ASSUME TypeOK, NEW m \in Materials
    PROVE  Units(stock[m], PackSize[m]) \in Int /\ booked[m] \in Int /\ PackSize[m] \in Nat
<1>1. stock[m] \in Stock /\ booked[m] \in Int /\ PackSize[m] \in Nat
  BY StockRoomAssumption DEF TypeOK
<1>2. stock[m].pkg * PackSize[m] \in Int
  BY <1>1 DEF Stock
<1> QED
  BY <1>1, <1>2 DEF Units, Stock

\* A saved edit moves the shelf without the books only where its row is stale.
Overwrites(m) ==
    \E a \in Admins : /\ tab[a].at = "edit" /\ tab'[a] = Home
                      /\ tab[a].material = m /\ tab[a].row # stock[m]

LEMMA BooksStep ==
    ASSUME TypeInv, [Next]_vars, NEW m \in Materials, FollowsBooks(m)
    PROVE  FollowsBooks(m)' \/ Overwrites(m)
<1>0. TypeOK /\ Spoils \subseteq Quantities /\ Sales \subseteq Quantities
  BY StockRoomAssumption DEF TypeInv
<1>1. Units(stock[m], PackSize[m]) \in Int /\ Units(stock[m], PackSize[m]) = booked[m]
  BY <1>0, UnitsAreInt DEF FollowsBooks
<1>2. ASSUME NEW a \in Admins, NEW d \in Deliveries, RecordRestock(a, d) PROVE FollowsBooks(m)'
  BY <1>0, <1>1, <1>2, RestockMoves DEF FollowsBooks
<1>3. ASSUME NEW q \in Quantities, NEW unpack \in BOOLEAN, TakeOff(q, unpack)
      PROVE  FollowsBooks(m)'
  BY <1>0, <1>1, <1>3, TakeOffMoves DEF FollowsBooks
<1>4. ASSUME NEW a \in Admins, EditSave(a) PROVE FollowsBooks(m)' \/ Overwrites(m)
  <2>1. /\ tab[a].at = "edit" /\ tab' = [tab EXCEPT ![a] = Home] /\ booked' = booked
        /\ stock' = [stock EXCEPT ![tab[a].material] = tab[a].row]
    BY <1>4 DEF EditSave, history
  <2>2. tab'[a] = Home
    BY <1>0, <2>1 DEF TypeOK
  <2>3. CASE tab[a].material = m /\ tab[a].row # stock[m]
    BY <2>1, <2>2, <2>3 DEF Overwrites
  <2>4. CASE ~(tab[a].material = m /\ tab[a].row # stock[m])
    <3>1. stock'[m] = stock[m]
      BY <1>0, <2>1, <2>4 DEF TypeOK
    <3> QED
      BY <1>1, <2>1, <3>1 DEF FollowsBooks
  <2> QED
    BY <2>3, <2>4
<1>5. ASSUME NEW a \in Admins, ApproveForm(a) PROVE FollowsBooks(m)'
  <2> DEFINE f == tab[a].form
             lineOf(n) == CHOOSE l \in sheet[f] : l.material = n
             counted == {l.material : l \in sheet[f]}
  <2>1. \/ stock' = stock /\ booked' = booked
        \/ /\ stock' = [n \in Materials |-> IF n \in counted THEN lineOf(n).actual ELSE stock[n]]
           /\ booked' = [n \in Materials |->
                          IF n \in counted THEN Units(lineOf(n).actual, PackSize[n]) ELSE booked[n]]
    BY <1>5 DEF ApproveForm, ApprovedLines
  <2> HIDE DEF lineOf, counted
  <2> QED
    BY <1>1, <2>1 DEF FollowsBooks
<1>6. ASSUME UNCHANGED <<stock, booked>> PROVE FollowsBooks(m)'
  BY <1>1, <1>6 DEF FollowsBooks
<1> QED
  <2>1. ASSUME NEW a \in Admins, NEW q \in Spoils, RecordWaste(a, q) PROVE FollowsBooks(m)'
    BY <1>0, <1>3, <2>1 DEF RecordWaste
  <2>2. ASSUME NEW q \in Sales, SyncSale(q) PROVE FollowsBooks(m)'
    BY <1>0, <1>3, <2>2, StockRoomAssumption DEF SyncSale
  <2> QED
    BY <1>2, <1>4, <1>5, <1>6, <2>1, <2>2, OnlyWritersMove

LEMMA BelowStep ==
    ASSUME TypeInv, [Next]_vars, NEW m \in Materials, ~Below(stock[m], m), Below(stock'[m], m)
    PROVE  \/ \E q \in Sales : SyncSale(q)
           \/ \E a \in Admins : EditSave(a) /\ Below(tab[a].row, m)
<1>0. /\ TypeOK /\ Spoils \subseteq Quantities /\ PackSize[m] \in Nat
      /\ Units(stock[m], PackSize[m]) \in Int /\ Units(stock[m], PackSize[m]) >= 0
  BY StockRoomAssumption, UnitsAreInt DEF TypeInv, Below
<1>1. ASSUME NEW a \in Admins, NEW d \in Deliveries, RecordRestock(a, d) PROVE FALSE
  <2>1. PICK q \in Nat : Units(stock'[m], PackSize[m]) = Units(stock[m], PackSize[m]) + q
    BY <1>0, <1>1, RestockMoves
  <2> QED
    BY <1>0, <2>1 DEF Below
<1>2. ASSUME NEW a \in Admins, NEW q \in Spoils, RecordWaste(a, q) PROVE FALSE
  <2>1. TakeOff(q, TRUE) /\ q \in Quantities /\ q[m] \in Nat
    BY <1>0, <1>2 DEF RecordWaste, Quantities
  <2>2. q[m] > 0 => q[m] <= Units(stock[m], PackSize[m])
    BY <1>2 DEF RecordWaste, EnoughInStock
  <2>3. Units(stock'[m], PackSize[m]) = Units(stock[m], PackSize[m]) - q[m]
    BY <1>0, <2>1, TakeOffMoves
  <2> QED
    BY <1>0, <2>1, <2>2, <2>3 DEF Below
<1>3. ASSUME NEW a \in Admins, EditSave(a) PROVE Below(tab[a].row, m)
  <2>1. stock' = [stock EXCEPT ![tab[a].material] = tab[a].row] /\ stock \in [Materials -> Stock]
    BY <1>0, <1>3 DEF EditSave, TypeOK
  <2>2. stock'[m] = tab[a].row \/ stock'[m] = stock[m]
    BY <2>1
  <2> QED
    BY <2>2 DEF Below
<1>4. ASSUME NEW a \in Admins, ApproveForm(a) PROVE FALSE
  <2> DEFINE f == tab[a].form
             lineOf(n) == CHOOSE l \in sheet[f] : l.material = n
             counted == {l.material : l \in sheet[f]}
  <2>1. \/ stock' = stock
        \/ stock' = [n \in Materials |-> IF n \in counted THEN lineOf(n).actual ELSE stock[n]]
    BY <1>4 DEF ApproveForm, ApprovedLines
  <2>2. m \in counted => Units(lineOf(m).actual, PackSize[m]) \in Nat
    <3> SUFFICES ASSUME m \in counted PROVE Units(lineOf(m).actual, PackSize[m]) \in Nat
      OBVIOUS
    <3>1. f \in Forms
      BY <1>0, <1>4, TabTypes DEF ApproveForm, FormOps
    <3>2. sheet[f] \in SUBSET Lines
      BY <1>0, <3>1 DEF TypeOK
    <3>3. lineOf(m).actual \in [loose : Nat, pkg : Nat]
      BY <3>2 DEF Lines
    <3>4. lineOf(m).actual.pkg * PackSize[m] \in Nat
      BY <1>0, <3>3
    <3> HIDE DEF lineOf
    <3> QED
      BY <3>3, <3>4 DEF Units
  <2> HIDE DEF lineOf, counted
  <2>3. stock'[m] = stock[m] \/ (m \in counted /\ stock'[m] = lineOf(m).actual)
    BY <2>1
  <2> QED
    BY <1>0, <2>2, <2>3 DEF Below
<1>5. stock' # stock
  BY DEF Below
<1> QED
  BY <1>1, <1>2, <1>3, <1>4, <1>5, OnlyWritersMove

-----------------------------------------------------------------------------
(* The theorems *)

\* Staff are never asked to count a form without materials, although a recount that
\* dies half way leaves one (RecountForm, PublishForm).
THEOREM FormsHaveItems == Spec => []PublishedFormsHaveItems
<1>1. Inv => PublishedFormsHaveItems
  BY DEF Inv
<1> QED
  BY <1>1, InvAlways, PTL

\* A closed form keeps its sheet and its items, and is decided once, whatever other
\* tabs and late counts do (repository.Close, Approve, Reject).
THEOREM ClosedIsFinal == Spec => ClosedFormsStay
<1> DEFINE Stay == \A f \in Forms : Closed(f) =>
          /\ sheet'[f] = sheet[f]
          /\ form'[f].items = form[f].items
          /\ form'[f].status \in {"APPROVED", "REJECTED"} \cup {form[f].status}
          /\ form[f].status # "CLOSED" => form'[f] = form[f]
<1>1. Inv /\ [Next]_vars => [Stay]_vars
  <2> SUFFICES ASSUME Inv, [Next]_vars PROVE Stay
    OBVIOUS
  <2>1. FormsOnward /\ PublishedFormsHaveItems
    BY InvStep DEF Inv
  <2> QED
    BY <2>1 DEF FormsOnward, Onward, PublishedFormsHaveItems, Closed
<1> QED
  BY <1>1, InvAlways, PTL DEF Spec, ClosedFormsStay

\* An approval writes what its page showed, and nothing else (ApproveForm).
THEOREM ApprovalIsAsShown == Spec => ApprovedAsShown
<1> DEFINE Shown == \A f \in Forms : form[f].status # "APPROVED" /\ form'[f].status = "APPROVED" =>
          \E a \in Admins :
              /\ tab[a].at = "approve" /\ tab[a].form = f
              /\ {l.material : l \in tab[a].shown} = form[f].items
              /\ \A m \in Materials : m \notin form[f].items => stock'[m] = stock[m]
              /\ \A l \in tab[a].shown : stock'[l.material] = l.actual
<1>1. Inv /\ [Next]_vars => [Shown]_vars
  BY OnlyApproveApproves, ApprovalWritesShown DEF NewlyApproved
<1> QED
  BY <1>1, InvAlways, PTL DEF Spec, ApprovedAsShown

\* The tables, pages, requests and counts keep their types; among them, no package
\* count is ever negative, whatever is sold, wasted, edited and approved at once.
THEOREM TypeCorrect == Spec => []TypeOK
<1>1. TypeInv => TypeOK
  BY DEF TypeInv
<1> QED
  BY <1>1, TypeAlways, PTL

\* The sheet of a closed form is what the staff counted, in base units, with one line
\* for each of its materials, however many tabs close it and whoever counts meanwhile,
\* unless a count was accepted after the counts were added up (repository.Close).
THEOREM SheetsAddUp == Spec => []ClosedSheetAddsUp
<1>1. SheetInv => ClosedSheetAddsUp
  BY SheetAddsUp
<1> QED
  BY <1>1, SheetAlways, PTL

\* The shelf holds what the records and the last approved count add up to, for any
\* packages, deliveries and interleavings; what parts them is an edit that saves a row
\* that changed since it was read (RawMaterialService.Update).
THEOREM ShelfFollowsBooks == Spec => StockFollowsBooks
<1> DEFINE Kept == \A m \in Materials : FollowsBooks(m) /\ ~FollowsBooks(m)' =>
          \E a \in Admins :
              /\ tab[a].at = "edit" /\ tab'[a] = Home
              /\ tab[a].material = m /\ tab[a].row # stock[m]
<1>1. TypeInv /\ [Next]_vars => [Kept]_vars
  BY BooksStep DEF Overwrites
<1> QED
  BY <1>1, TypeAlways, PTL DEF Spec, StockFollowsBooks

\* Only a till's sale takes a material below zero, or an edit that saves a row that was
\* below zero when it was read: no waste from a page of any age does, nor a restock or
\* an approved count, for any quantities and packages (RecordBulkWaste).
THEOREM OnlySalesGoBelow == Spec => OnlySalesOverdraw
<1> DEFINE Kept == \A m \in Materials : ~Below(stock[m], m) /\ Below(stock'[m], m) =>
          \/ \E q \in Sales : SyncSale(q)
          \/ \E a \in Admins : EditSave(a) /\ Below(tab[a].row, m)
<1>1. TypeInv /\ [Next]_vars => [Kept]_vars
  BY BelowStep
<1> QED
  BY <1>1, TypeAlways, PTL DEF Spec, OnlySalesOverdraw
=============================================================================
