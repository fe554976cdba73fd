------------------------------ MODULE StockRoom ------------------------------
(***************************************************************************)
(* The back office of one outlet: the owner's pages that move raw          *)
(* materials (restock, waste, edit) and the stock-opname forms, from draft *)
(* through the staff's counts to the approval that overwrites the stock.   *)
(* Several tabs of the owner's web app, the staff's counting apps and the  *)
(* tills' sales act on the same rows at once.                              *)
(*                                                                         *)
(* A tab shows a page, which may be old when its owner clicks, or waits    *)
(* for a request; the mutations invalidate or leave the page, so that the  *)
(* next click is on a page fetched again.  A request whose handler is one  *)
(* database transaction over rows it locks is one action here.  A handler  *)
(* that reads before its transaction (the status of a form, the row an     *)
(* edit saves back) keeps in `tab` what it read until it writes; Abort     *)
(* drops it in between (a lost connection, a restart).                     *)
(*                                                                         *)
(* Left out: prices and the moving-average cost, fraud flags, the notes    *)
(* and history of a form, deletion of a material, edits that change the    *)
(* package size, and PUT /so-forms/:id/items, which no page calls.         *)
(***************************************************************************)
EXTENDS DualStock, FiniteSets, Sums

CONSTANTS
    Materials,
    PackSize,       \* quantity_per_package, 0 when the material has none
    OpeningStock,
    Admins,         \* open tabs of the owner's web app
    Staff,          \* staff members who count
    Forms,          \* ids that forms may get
    Scopes,         \* selections of SOCreateForm: everything, a category, a choice
    Deliveries,     \* bulk restocks: what the form's row for each material holds
    Spoils, Sales,  \* bulk wastes and sales: base units of each material
    Counts,         \* what a staff member may report of a material
    Collaborative,  \* the plan includes stock_opname_collaborative
    AutoUnpack,     \* the plan includes dual_stock_auto_unpack
    MaxMoves        \* bound: restocks, wastes and sales in a behaviour

Quantities == [Materials -> Nat]

ASSUME StockRoomAssumption ==
    /\ IsFiniteSet(Materials)
    /\ PackSize \in [Materials -> Nat]
    /\ OpeningStock \in [Materials -> Stock]
    /\ Deliveries \subseteq [Materials -> [n : Nat, unit : {"unit", "package"}]]
    /\ Spoils \subseteq Quantities /\ Sales \subseteq Quantities
    /\ Counts \subseteq [loose : Nat, pkg : Nat]
    /\ Scopes \subseteq SUBSET Materials
    /\ Collaborative \in BOOLEAN /\ AutoUnpack \in BOOLEAN
    /\ MaxMoves \in Nat

VARIABLES
    \* the outlet's database
    stock,      \* raw_materials
    form,       \* opname_sessions with their opname_form_items
    entries,    \* opname_count_entries
    sheet,      \* opname_session_items of a form
    \* clients and requests at work
    tab,        \* what a tab shows, or its request inside a handler of several steps
    report,     \* a staff member's counts inside SubmitCounts
    \* history, for the properties
    booked,     \* base units by the restock, waste and sale records and the approved counts
    late,       \* tabs whose close misses a count that was accepted since it added up
    missed,     \* closed forms whose sheet misses a count that was accepted
    moves       \* for the bound

tables  == <<form, entries, sheet>>
history == <<booked, late, missed, moves>>
vars    == <<stock, tables, tab, report, history>>

Statuses == {"ABSENT", "OPEN", "PUBLISHED", "COUNTING", "CLOSED", "APPROVED", "REJECTED"}
Lines    == [material : Materials, actual : [loose : Nat, pkg : Nat]]
Entries  == [form : Forms, material : Materials, by : Staff, count : Counts]

Home == [at |-> "home"]
Pages ==
    {Home}
    \cup [at : {"form"}, form : Forms, status : Statuses, sheet : SUBSET Lines]
    \cup [at : {"materials"}, stock : [Materials -> Stock]]

FormOps == {"publish", "close", "approve", "reject", "recount"}
Requests ==
    [at : FormOps, form : Forms, shown : SUBSET Lines]
    \cup [at : {"closing"}, form : Forms, lines : SUBSET Lines]
    \cup [at : {"filling"}, form : Forms, items : SUBSET Materials]
    \cup [at : {"create"}, form : Forms]
    \cup [at : {"edit"}, material : Materials, row : Stock]

NoCount  == [status |-> "none"]
Reports  == [status : {"PUBLISHED", "COUNTING"}, entry : Entries]

TypeOK ==
    /\ stock \in [Materials -> Stock]
    /\ form \in [Forms -> [status : Statuses, items : SUBSET Materials]]
    /\ entries \subseteq Entries
    /\ sheet \in [Forms -> SUBSET Lines]
    /\ tab \in [Admins -> Pages \cup Requests]
    /\ report \in [Staff -> {NoCount} \cup Reports]
    /\ booked \in [Materials -> Int]
    /\ late \in SUBSET Admins
    /\ missed \in SUBSET Forms
    /\ moves \in Nat

Init ==
    /\ stock = OpeningStock
    /\ form = [f \in Forms |-> [status |-> "ABSENT", items |-> {}]]
    /\ entries = {}
    /\ sheet = [f \in Forms |-> {}]
    /\ tab = [a \in Admins |-> Home]
    /\ report = [s \in Staff |-> NoCount]
    /\ booked = [m \in Materials |-> Units(OpeningStock[m], PackSize[m])]
    /\ late = {}
    /\ missed = {}
    /\ moves = 0

-----------------------------------------------------------------------------
(* The pages *)

ShowsPage(a) == tab[a].at \in {"home", "form", "materials"}

\* SOFormDetail fetches the form: on opening it, and again after each of its
\* own mutations or whenever the query refetches.
FetchForm(a, f) ==
    /\ ShowsPage(a)
    /\ form[f].status # "ABSENT"
    /\ tab' = [tab EXCEPT ![a] = [at |-> "form", form |-> f,
                                  status |-> form[f].status, sheet |-> sheet[f]]]
    /\ UNCHANGED <<stock, tables, report, history>>

\* The restock, waste and edit forms work on the cached list of raw materials.
FetchMaterials(a) ==
    /\ ShowsPage(a)
    /\ tab' = [tab EXCEPT ![a] = [at |-> "materials", stock |-> stock]]
    /\ UNCHANGED <<stock, tables, report, history>>

\* The buttons SOFormDetail shows for the status its data has.  (It offers to
\* close a form nobody has counted yet; the server will not.)
OfferedFrom(op) ==
    CASE op = "publish" -> {"OPEN"}
      [] op = "close"   -> {"PUBLISHED", "COUNTING"}
      [] OTHER          -> {"CLOSED"}

Offers(a, op, f) ==
    /\ tab[a].at = "form"
    /\ tab[a].form = f
    /\ tab[a].status \in OfferedFrom(op)

-----------------------------------------------------------------------------
(* Raw materials: every writer but the edit locks the rows it changes. *)

\* RestockForm: a row in packages is sent as quantity * quantity_per_package.
BaseQuantity(delivered, size) ==
    IF delivered.unit = "package" /\ size > 0 THEN delivered.n * size ELSE delivered.n

\* Mutant: packages are counted from the shelf and the delivery together, and
\* the loose units are counted again.
RestockedFromTotal(s, qty, size) ==
    IF size > 0
    THEN [loose |-> s.loose + (qty % size), pkg |-> s.pkg + ((s.loose + qty) \div size)]
    ELSE [s EXCEPT !.loose = @ + qty]

\* RecordBulkRestock: whole packages go on the shelf as packages.
Restocked(s, qty, size) ==
    IF size > 0
    THEN [loose |-> s.loose + (qty % size), pkg |-> s.pkg + (qty \div size)]
    ELSE [s EXCEPT !.loose = @ + qty]

RecordRestock(a, delivery) ==
    LET qty(m) == BaseQuantity(delivery[m], PackSize[m])
    IN  /\ moves < MaxMoves
        /\ tab[a].at = "materials"
        /\ tab' = [tab EXCEPT ![a] = Home]
        /\ stock' = [m \in Materials |-> Restocked(stock[m], qty(m), PackSize[m])]
        /\ booked' = [m \in Materials |-> booked[m] + qty(m)]
        /\ moves' = moves + 1
        /\ UNCHANGED <<tables, report, late, missed>>

\* WasteForm refuses a row above the stock of its cached material.
WasteFormAccepts(a, qty) ==
    \A m \in Materials : qty[m] <= Units(tab[a].stock[m], PackSize[m])

\* Mutant: the server relies on the form's check.
NoStockCheck(qty) == TRUE

\* RecordBulkWaste looks at the locked row again.
EnoughInStock(qty) ==
    \A m \in Materials : qty[m] > 0 => qty[m] <= Units(stock[m], PackSize[m])

\* Taking units off every row; where it is allowed, a package is opened when loose
\* units run short.
TakeOff(qty, unpack) ==
    /\ stock' = [m \in Materials |-> IF qty[m] > 0
                                     THEN Deduct(stock[m], qty[m], PackSize[m], unpack)
                                     ELSE stock[m]]
    /\ booked' = [m \in Materials |-> booked[m] - qty[m]]
    /\ moves' = moves + 1

RecordWaste(a, qty) ==
    /\ moves < MaxMoves
    /\ tab[a].at = "materials"
    /\ WasteFormAccepts(a, qty)
    /\ EnoughInStock(qty)
    /\ TakeOff(qty, TRUE)
    /\ tab' = [tab EXCEPT ![a] = Home]
    /\ UNCHANGED <<tables, report, late, missed>>

\* A till's sale arrives (PosSyncServer has its steps): no check of the stock, and
\* packages are opened only if the plan says so.
SyncSale(qty) ==
    /\ moves < MaxMoves
    /\ TakeOff(qty, AutoUnpack)
    /\ UNCHANGED <<tables, tab, report, late, missed>>

\* Update reads the row without a lock ...
EditRead(a, m) ==
    /\ tab[a].at = "materials"
    /\ tab' = [tab EXCEPT ![a] = [at |-> "edit", material |-> m, row |-> stock[m]]]
    /\ UNCHANGED <<stock, tables, report, history>>

\* ... and saves all its columns, the stock it read among them.
EditSave(a) ==
    /\ tab[a].at = "edit"
    /\ stock' = [stock EXCEPT ![tab[a].material] = tab[a].row]
    /\ tab' = [tab EXCEPT ![a] = Home]
    /\ UNCHANGED <<tables, report, history>>

-----------------------------------------------------------------------------
(* Forms *)

\* SOCreateForm refuses an empty selection; the server creates the form and its
\* items in one transaction.  "Publish at once" is a second request, sent when
\* the first is answered.
CreateForm(a, f, items, publish) ==
    /\ tab[a] = Home
    /\ items # {}
    /\ form[f].status = "ABSENT"
    /\ form' = [form EXCEPT ![f] = [status |-> "OPEN", items |-> items]]
    /\ tab' = IF publish THEN [tab EXCEPT ![a] = [at |-> "create", form |-> f]] ELSE tab
    /\ UNCHANGED <<stock, entries, sheet, report, history>>

\* What each handler asks of the form it loaded, before it writes anything.
AdmittedFrom(op) ==
    CASE op = "publish" -> {"OPEN"}
      [] op = "close"   -> {"COUNTING"}
      [] op = "recount" -> {"CLOSED", "REJECTED"}
      [] OTHER          -> {"CLOSED"}

\* Mutant: an empty form may be published.
NothingMissingForClose(op, f) ==
    op = "close" => \E e \in entries : e.form = f

\* PublishForm and CloseForm also look at the form's items and counts.
NothingMissing(op, f) ==
    /\ op = "publish" => form[f].items # {}
    /\ op = "close" => \E e \in entries : e.form = f

Admits(op, f) ==
    /\ form[f].status \in AdmittedFrom(op)
    /\ NothingMissing(op, f)

\* A click, and the handler's look at the form.  (A refused request changes
\* nothing.)  `shown` is what the page showed the person who clicked.
Ask(a, op, f) ==
    /\ Offers(a, op, f)
    /\ Admits(op, f)
    /\ tab' = [tab EXCEPT ![a] = [at |-> op, form |-> f, shown |-> tab[a].sheet]]
    /\ UNCHANGED <<stock, tables, report, history>>

\* The second request of "create and publish" reaches the server.
AskPublishCreated(a) ==
    /\ tab[a].at = "create"
    /\ LET f == tab[a].form
       IN tab' = [tab EXCEPT ![a] = IF Admits("publish", f)
                                    THEN [at |-> "publish", form |-> f, shown |-> {}]
                                    ELSE Home]
    /\ UNCHANGED <<stock, tables, report, history>>

\* The status changes only under the condition of the UPDATE's WHERE.
Advance(f, from, to) ==
    form' = [form EXCEPT ![f].status = IF @ \in from THEN to ELSE @]

PublishForm(a) ==
    /\ tab[a].at = "publish"
    /\ Advance(tab[a].form, {"OPEN"}, "PUBLISHED")
    /\ tab' = [tab EXCEPT ![a] = Home]
    /\ UNCHANGED <<stock, entries, sheet, report, history>>

RejectForm(a) ==
    /\ tab[a].at = "reject"
    /\ Advance(tab[a].form, {"CLOSED"}, "REJECTED")
    /\ tab' = [tab EXCEPT ![a] = Home]
    /\ UNCHANGED <<stock, entries, sheet, report, history>>

\* SubmitCounts, before its transaction.
CountRead(s, f, m, count) ==
    /\ report[s] = NoCount
    /\ form[f].status \in {"PUBLISHED", "COUNTING"}
    /\ m \in form[f].items
    /\ Collaborative \/ \A e \in entries : e.form = f => e.by = s
    /\ report' = [report EXCEPT ![s] =
          [status |-> form[f].status,
           entry |-> [form |-> f, material |-> m, by |-> s, count |-> count]]]
    /\ UNCHANGED <<stock, tables, tab, history>>

\* The tables after a count: one row per form, material and staff member.
Upsert(new) ==
    {e \in entries : <<e.form, e.material, e.by>> # <<new.form, new.material, new.by>>} \cup {new}

Closing(a, f) == tab[a].at = "closing" /\ tab[a].form = f

\* The transaction.  Only a count that found the form PUBLISHED marks it
\* COUNTING, and is rolled back when the form has moved past that.
CountSave(s) ==
    /\ report[s] # NoCount
    /\ LET new    == report[s].entry
           f      == new.form
           counts == form[f].status \in {"PUBLISHED", "COUNTING"}
       IN  IF report[s].status = "PUBLISHED" /\ ~counts
           THEN UNCHANGED <<form, entries, late, missed>>
           ELSE /\ entries' = Upsert(new)
                /\ form' = [form EXCEPT ![f].status =
                               IF report[s].status = "PUBLISHED" THEN "COUNTING" ELSE @]
                /\ late' = late \cup {a \in Admins : Closing(a, f)}
                /\ missed' = IF counts THEN missed ELSE missed \cup {f}
    /\ report' = [report EXCEPT ![s] = NoCount]
    /\ UNCHANGED <<stock, sheet, tab, booked, moves>>

\* The app or its connection dies before the transaction.
CountAbort(s) ==
    /\ report[s] # NoCount
    /\ report' = [report EXCEPT ![s] = NoCount]
    /\ UNCHANGED <<stock, tables, tab, history>>

\* Mutant: the aggregate joins one staff member's counts.
CountedOnce(f, m) ==
    LET reports == {e \in entries : e.form = f /\ e.material = m}
    IN  IF reports = {} THEN [loose |-> 0, pkg |-> 0]
        ELSE LET e == CHOOSE e \in reports : TRUE IN [loose |-> e.count.loose, pkg |-> e.count.pkg]

\* The counts of every staff member, added up; nothing for an uncounted material.
Counted(f, m) ==
    LET reports == {e \in entries : e.form = f /\ e.material = m}
    IN  [loose |-> SumOver([e \in reports |-> e.count.loose], reports),
         pkg   |-> SumOver([e \in reports |-> e.count.pkg], reports)]

Aggregate(f) == {[material |-> m, actual |-> Counted(f, m)] : m \in form[f].items}

\* repository.Close, first statement: the counts committed when it begins become the
\* sheet.  Of two transactions that close one form the second waits at the rows the
\* first wrote, with the sums it already has; what it still does it does when the first
\* has ended, so the wait shows only in which of the two CloseCommits comes first.
CloseAggregate(a) ==
    LET f == tab[a].form
    IN  /\ tab[a].at = "close"
        /\ tab' = [tab EXCEPT ![a] = [at |-> "closing", form |-> f, lines |-> Aggregate(f)]]
        /\ late' = late \ {a}
        /\ UNCHANGED <<stock, tables, report, booked, missed, moves>>

\* Mutant: the last UPDATE has no condition on the status.
NoStatusCheck(f) == TRUE

\* Its last statement: COUNTING -> CLOSED, or everything is rolled back.
StillCounting(f) == form[f].status = "COUNTING"

CloseCommit(a) ==
    /\ tab[a].at = "closing"
    /\ LET f == tab[a].form
       IN  IF StillCounting(f)
           THEN /\ form' = [form EXCEPT ![f].status = "CLOSED"]
                /\ sheet' = [sheet EXCEPT ![f] = tab[a].lines]
                /\ missed' = IF a \in late THEN missed \cup {f} ELSE missed
           ELSE UNCHANGED <<form, sheet, missed>>
    /\ tab' = [tab EXCEPT ![a] = Home]
    /\ late' = late \ {a}
    /\ UNCHANGED <<stock, entries, report, booked, moves>>

\* Mutant: an approval adds the counts up again.
CountsOfNow(f) == Aggregate(f)

\* The lines an approval applies: those that closing the form wrote.
ApprovedLines(f) == sheet[f]

\* ApproveForm's transaction: the form becomes APPROVED, and every counted row
\* is locked (in the order of the ids) and overwritten with its count.
ApproveForm(a) ==
    /\ tab[a].at = "approve"
    /\ LET f          == tab[a].form
           lines      == ApprovedLines(f)
           lineOf(m)  == CHOOSE l \in lines : l.material = m
           counted    == {l.material : l \in lines}
       IN  /\ Advance(f, {"CLOSED"}, "APPROVED")
           /\ IF form[f].status = "CLOSED"
              THEN /\ stock' = [m \in Materials |->
                                   IF m \in counted THEN lineOf(m).actual ELSE stock[m]]
                   /\ booked' = [m \in Materials |->
                                   IF m \in counted
                                   THEN Units(lineOf(m).actual, PackSize[m]) ELSE booked[m]]
              ELSE UNCHANGED <<stock, booked>>
    /\ tab' = [tab EXCEPT ![a] = Home]
    /\ UNCHANGED <<entries, sheet, report, late, missed, moves>>

\* RecountForm makes a new form ...
RecountCreate(a, g) ==
    /\ tab[a].at = "recount"
    /\ form[g].status = "ABSENT"
    /\ form' = [form EXCEPT ![g].status = "OPEN"]
    /\ tab' = [tab EXCEPT ![a] = [at |-> "filling", form |-> g, items |-> form[tab[a].form].items]]
    /\ UNCHANGED <<stock, entries, sheet, report, history>>

\* ... and then, in a transaction of its own, gives it the items of the old one.
RecountFill(a) ==
    /\ tab[a].at = "filling"
    /\ form' = [form EXCEPT ![tab[a].form].items = tab[a].items]
    /\ tab' = [tab EXCEPT ![a] = Home]
    /\ UNCHANGED <<stock, entries, sheet, report, history>>

\* A request ends before its next step: what it has not committed is gone.
Abort(a) ==
    /\ ~ShowsPage(a)
    /\ tab' = [tab EXCEPT ![a] = Home]
    /\ late' = late \ {a}
    /\ UNCHANGED <<stock, tables, report, booked, missed, moves>>

-----------------------------------------------------------------------------
AdminStep(a) ==
    \/ \E f \in Forms : FetchForm(a, f)
    \/ FetchMaterials(a)
    \/ \E d \in Deliveries : RecordRestock(a, d)
    \/ \E q \in Spoils : RecordWaste(a, q)
    \/ \E m \in Materials : EditRead(a, m)
    \/ EditSave(a)
    \/ \E f \in Forms, items \in Scopes, publish \in BOOLEAN :
          CreateForm(a, f, items, publish)
    \/ \E op \in FormOps, f \in Forms : Ask(a, op, f)
    \/ AskPublishCreated(a)
    \/ PublishForm(a)
    \/ RejectForm(a)
    \/ CloseAggregate(a)
    \/ CloseCommit(a)
    \/ ApproveForm(a)
    \/ \E g \in Forms : RecountCreate(a, g)
    \/ RecountFill(a)
    \/ Abort(a)

StaffStep(s) ==
    \/ \E f \in Forms, m \in Materials, c \in Counts : CountRead(s, f, m, c)
    \/ CountSave(s)
    \/ CountAbort(s)

Next ==
    \/ \E a \in Admins : AdminStep(a)
    \/ \E s \in Staff : StaffStep(s)
    \/ \E q \in Sales : SyncSale(q)

Spec == Init /\ [][Next]_vars

-----------------------------------------------------------------------------
(* What the stock room promises *)

Closed(f) == form[f].status \in {"CLOSED", "APPROVED", "REJECTED"}

\* A form that staff are asked to count lists at least one material, although
\* a recount that dies half way leaves a form without any (RecountForm creates
\* the form and its items apart; PublishForm looks before it publishes).
PublishedFormsHaveItems ==
    \A f \in Forms : form[f].status \notin {"ABSENT", "OPEN"} => form[f].items # {}

\* The sheet of a closed form has one line for each material of the form, and
\* in base units a line is what all staff members counted, unless a count was
\* accepted after the counts were added up (repository.Close, SubmitCounts).
ClosedSheetAddsUp ==
    \A f \in Forms : Closed(f) /\ f \notin missed =>
        /\ {l.material : l \in sheet[f]} = form[f].items
        /\ Cardinality(sheet[f]) = Cardinality(form[f].items)
        /\ \A l \in sheet[f] :
              Units(l.actual, PackSize[l.material]) =
                  LET reports == {e \in entries : e.form = f /\ e.material = l.material}
                  IN  SumOver([e \in reports |-> Units(e.count, PackSize[e.material])], reports)

\* From the moment a form is closed its sheet and its items never change, and a
\* decision is taken once: late counts, a second close and a second decision of
\* another tab all find the form closed or decided (the banner "telah diagregasi
\* dan dikunci" of SOFormDetail).
ClosedFormsStay ==
    [][\A f \in Forms : Closed(f) =>
          /\ sheet'[f] = sheet[f]
          /\ form'[f].items = form[f].items
          /\ form'[f].status \in {"APPROVED", "REJECTED"} \cup {form[f].status}
          /\ form[f].status # "CLOSED" => form'[f] = form[f]]_vars

\* What an approval writes to the raw materials is the sheet that the person who
\* approved had on the page, however old the page was, and no other row moves.
ApprovedAsShown ==
    [][\A f \in Forms : form[f].status # "APPROVED" /\ form'[f].status = "APPROVED" =>
          \E a \in Admins :
              /\ tab[a].at = "approve" /\ tab[a].form = f
              /\ {l.material : l \in tab[a].shown} = form[f].items
              /\ \A m \in Materials : m \notin form[f].items => stock'[m] = stock[m]
              /\ \A l \in tab[a].shown : stock'[l.material] = l.actual]_vars

FollowsBooks(m) == Units(stock[m], PackSize[m]) = booked[m]

\* The shelf holds what the restock, waste and sale records and the last
\* approved count add up to.  The only step that parts them is an edit that
\* saves a row which changed since it was read (RawMaterialService.Update).
StockFollowsBooks ==
    [][\A m \in Materials : FollowsBooks(m) /\ ~FollowsBooks(m)' =>
          \E a \in Admins :
              /\ tab[a].at = "edit" /\ tab'[a] = Home
              /\ tab[a].material = m /\ tab[a].row # stock[m]]_vars

Below(row, m) == Units(row, PackSize[m]) < 0

\* Only a till's sale takes a material below zero: two tabs that write off the same
\* goods from pages that both still show them do not, nor does a restock or a count.
\* An edit brings back the row below zero that it read before a restock (RecordBulkWaste).
OnlySalesOverdraw ==
    [][\A m \in Materials : ~Below(stock[m], m) /\ Below(stock'[m], m) =>
          \/ \E q \in Sales : SyncSale(q)
          \/ \E a \in Admins : EditSave(a) /\ Below(tab[a].row, m)]_vars
=============================================================================
