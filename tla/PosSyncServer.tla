--------------------------- MODULE PosSyncServer ---------------------------
(***************************************************************************)
(* The stock-moving half of POST /v1/pos/sync: sales, voids, wastes and    *)
(* returns as posSyncService and returnService process them, one database  *)
(* transaction per row, statement by statement, for requests handled       *)
(* concurrently against PostgreSQL at READ COMMITTED.                      *)
(*                                                                         *)
(* A worker is one request goroutine while it handles one row.  What it    *)
(* writes stays in `job` until it commits.  A statement waits where        *)
(* PostgreSQL makes it wait: on another transaction's uncommitted insert   *)
(* of the same primary key, and on a FOR UPDATE row lock.                  *)
(*                                                                         *)
(* The tills are reduced to what they can send: the current form of a row  *)
(* they have not seen acknowledged.  How a till queues rows and marks them *)
(* is SyncOutbox's subject.  Not modelled here: shifts, void logs and      *)
(* security events (no stock), tenders, malformed rows, other outlets.     *)
(***************************************************************************)
EXTENDS Integers, Sequences, FiniteSets, DualStock, Sums

CONSTANTS
    Workers,            \* request goroutines
    Sales, Wastes, Returns, Materials,
    Need,               \* Need[row][m]: base units of m the row's items take (item x recipe)
    LockPath,           \* LockPath[row]: the order in which the row's items reach the materials
    SaleOf, ReturnQty, Restock,   \* of a return
    SoldQty,            \* of a sale
    PackSize,           \* quantity_per_package of a material, 0 when it has none
    OpeningStock,       \* raw_materials before the first sale
    AutoUnpack,         \* the plan includes dual_stock_auto_unpack
    OneInFlightPerRow   \* no two requests carry the same row at the same time

Rows == Sales \cup Wastes \cup Returns
NoRow == "none"

ASSUME RowsAssumption ==
    /\ NoRow \notin Rows
    /\ Sales \cap Wastes = {} /\ Sales \cap Returns = {} /\ Wastes \cap Returns = {}
    /\ SaleOf \in [Returns -> Sales]
    /\ ReturnQty \in [Returns -> Nat \ {0}]
    /\ Restock \in [Returns -> BOOLEAN]
    /\ SoldQty \in [Sales -> Nat \ {0}]

ASSUME StockAssumption ==
    /\ Need \in [Rows -> [Materials -> Nat]]
    /\ LockPath \in [Rows -> Seq(Materials)]
    /\ PackSize \in [Materials -> Nat]
    /\ OpeningStock \in [Materials -> Stock]
    /\ AutoUnpack \in BOOLEAN
    /\ OneInFlightPerRow \in BOOLEAN

\* A row's path visits each material it needs, once.
ASSUME PathAssumption ==
    \A row \in Rows :
        /\ \A i, j \in 1..Len(LockPath[row]) :
              LockPath[row][i] = LockPath[row][j] => i = j
        /\ \A m \in Materials :
              Need[row][m] > 0 <=> \E i \in 1..Len(LockPath[row]) : LockPath[row][i] = m

VARIABLES
    \* committed tables
    trx,          \* transactions.status of a sale, "absent" when there is no row
    printedRow,   \* transactions.receipt_printed_at IS NOT NULL
    returnState,  \* transactions.return_state
    booked,       \* ids in product_wastes (from tills) and returns
    writeOffs,    \* product_wastes rows the server derived from a return
    stock,        \* raw_materials
    \* requests
    job,
    \* the tills
    till,         \* a sale's local status, "unsold" before it exists
    receipt,      \* its receipt has been printed
    voidPage,     \* sales on a void page that found them unprinted
    filed,        \* wastes and returns recorded at a till
    acked,        \* <<row, status>> answered as synced
    refused       \* <<row, reason>> answered as not retryable

tables == <<trx, printedRow, returnState, booked, writeOffs, stock>>
tills  == <<till, receipt, voidPage, filed>>
vars   == <<tables, job, tills, acked, refused>>

Statuses  == {"COMPLETED", "VOIDED"}
TxSteps   == {"lookup", "original", "lockItems", "insert", "move", "commit"}
Reasons   == {"VOID_AFTER_PRINT", "ORIGINAL_ABSENT", "NOT_PRINTED", "CANCELLED", "OVER_QUANTITY"}
Outcomes  == {"ok", "retry"} \cup Reasons

Idle == [pc |-> "idle", row |-> NoRow, status |-> "COMPLETED", printed |-> FALSE,
         inserted |-> FALSE, restoring |-> FALSE, seen |-> {}, next |-> 1,
         held |-> {}, buf |-> OpeningStock, outcome |-> "ok"]

Init ==
    /\ trx = [s \in Sales |-> "absent"]
    /\ printedRow = [s \in Sales |-> FALSE]
    /\ returnState = [s \in Sales |-> "NONE"]
    /\ booked = {}
    /\ writeOffs = [r \in Returns |-> 0]
    /\ stock = OpeningStock
    /\ job = [w \in Workers |-> Idle]
    /\ till = [s \in Sales |-> "unsold"]
    /\ receipt = [s \in Sales |-> FALSE]
    /\ voidPage = {}
    /\ filed = {}
    /\ acked = {}
    /\ refused = {}
-----------------------------------------------------------------------------
(* The tills. *)

TillSell(s) ==
    /\ till[s] = "unsold"
    /\ till' = [till EXCEPT ![s] = "COMPLETED"]
    /\ UNCHANGED <<tables, job, receipt, voidPage, filed, acked, refused>>

\* The receipt is printed after the sale is stored, or reprinted at any time later.
TillPrint(s) ==
    /\ till[s] # "unsold"
    /\ ~receipt[s]
    /\ receipt' = [receipt EXCEPT ![s] = TRUE]
    /\ UNCHANGED <<tables, job, till, voidPage, filed, acked, refused>>

\* decideCancellation on the copy of the sale the page was opened with ...
TillOpenVoid(s) ==
    /\ till[s] = "COMPLETED"
    /\ ~receipt[s]
    /\ s \notin voidPage
    /\ voidPage' = voidPage \cup {s}
    /\ UNCHANGED <<tables, job, till, receipt, filed, acked, refused>>

\* ... and the void itself, which looks at nothing again.
TillVoid(s) ==
    /\ s \in voidPage
    /\ till' = [till EXCEPT ![s] = "VOIDED"]
    /\ voidPage' = voidPage \ {s}
    /\ UNCHANGED <<tables, job, receipt, filed, acked, refused>>

TillWaste(x) ==
    /\ x \in Wastes \ filed
    /\ filed' = filed \cup {x}
    /\ UNCHANGED <<tables, job, till, receipt, voidPage, acked, refused>>

\* A till knows only its own returns; the limit on the sum is the server's.
TillReturn(r) ==
    /\ r \in Returns \ filed
    /\ till[SaleOf[r]] = "COMPLETED"
    /\ receipt[SaleOf[r]]
    /\ filed' = filed \cup {r}
    /\ UNCHANGED <<tables, job, till, receipt, voidPage, acked, refused>>
-----------------------------------------------------------------------------
(* The tables, and what a running transaction holds in them. *)

Exists(row) == IF row \in Sales THEN trx[row] # "absent" ELSE row \in booked

ReturnsOf(s) == {r \in Returns \cap booked : SaleOf[r] = s}
Quantity == [rs \in SUBSET Returns |-> SumOver(ReturnQty, rs)]

\* What of a sale may still be returned after the returns rs, clamped at zero.
Returnable(s, rs) ==
    IF Quantity[rs] > SoldQty[s] THEN 0 ELSE SoldQty[s] - Quantity[rs]

DeriveState(s, total) ==
    IF total = 0 THEN "NONE" ELSE IF total < SoldQty[s] THEN "PARTIAL" ELSE "FULL"

InTx(w) == job[w].pc \in TxSteps

\* transaction_items of s are locked FOR UPDATE by w until it ends its transaction.
HoldsItems(w, s) ==
    /\ job[w].row \in Returns
    /\ SaleOf[job[w].row] = s
    /\ job[w].pc \in {"insert", "move", "commit"}

\* Mutant: LockByID without FOR UPDATE.
WaitsForNoStock(w, v) ==
    /\ w # v
    /\ \/ job[w].pc = "lockItems" /\ HoldsItems(v, SaleOf[job[w].row])
       \/ job[w].pc = "insert" /\ job[v].row = job[w].row /\ job[v].inserted

\* Mutant: SnapshotForReturn without FOR UPDATE.
WaitsForNoItems(w, v) ==
    /\ w # v
    /\ \/ job[w].pc = "insert" /\ job[v].row = job[w].row /\ job[v].inserted
       \/ /\ job[w].pc = "move"
          /\ LockPath[job[w].row][job[w].next] \in job[v].held

\* w and v are at statements where w waits for v.
WaitsFor(w, v) ==
    /\ w # v
    /\ \/ job[w].pc = "lockItems" /\ HoldsItems(v, SaleOf[job[w].row])
       \/ job[w].pc = "insert" /\ job[v].row = job[w].row /\ job[v].inserted
       \/ /\ job[w].pc = "move"
          /\ LockPath[job[w].row][job[w].next] \in job[v].held

Blocked(w) == \E v \in Workers : WaitsFor(w, v)

\* Ends the transaction with nothing written and keeps what there is to answer.
Answered(j, outcome) ==
    [Idle EXCEPT !.pc = "reply", !.row = j.row, !.status = j.status, !.outcome = outcome]

Finish(w, outcome) ==
    /\ job' = [job EXCEPT ![w] = Answered(@, outcome)]
    /\ UNCHANGED <<tables, tills, acked, refused>>

Step(w, j) ==
    /\ job' = [job EXCEPT ![w] = j]
    /\ UNCHANGED <<tables, tills, acked, refused>>

\* Where a transaction goes once its own rows are written.
AfterInsert(j, moving) ==
    IF moving /\ Len(LockPath[j.row]) > 0 THEN "move" ELSE "commit"
-----------------------------------------------------------------------------
(* One row of a request. *)

Pending(row) ==
    IF row \in Sales
    THEN till[row] # "unsold" /\ <<row, till[row]>> \notin acked
    ELSE row \in filed /\ <<row, "COMPLETED">> \notin acked

Receive(w, row) ==
    /\ job[w].pc = "idle"
    /\ Pending(row)
    /\ \A reason \in Reasons : <<row, reason>> \notin refused
    /\ OneInFlightPerRow => \A v \in Workers : job[v].row # row
    /\ Step(w, [Idle EXCEPT !.pc = "lookup", !.row = row,
                    !.status = IF row \in Sales THEN till[row] ELSE "COMPLETED",
                    !.printed = IF row \in Sales THEN receipt[row] ELSE FALSE])

\* Mutant: whatever row is found, it is a duplicate.
LookupAnyIsDuplicate(w) ==
    LET j == job[w]
    IN  /\ j.pc = "lookup" /\ j.row \in Sales
        /\ IF trx[j.row] = "absent"
           THEN Step(w, [j EXCEPT !.pc = "insert"])
           ELSE Finish(w, "ok")

\* Mutant: a repeated void restores again.
LookupRestoresAgain(w) ==
    LET j == job[w]
        s == j.row
        void == j.status = "VOIDED"
    IN  /\ j.pc = "lookup" /\ s \in Sales
        /\ \/ /\ trx[s] = "absent"
              /\ Step(w, [j EXCEPT !.pc = "insert"])
           \/ /\ trx[s] # "absent" /\ void /\ printedRow[s]
              /\ Finish(w, "VOID_AFTER_PRINT")
           \/ /\ trx[s] # "absent" /\ void /\ ~printedRow[s]
              /\ Step(w, [j EXCEPT !.pc = AfterInsert(j, TRUE), !.restoring = TRUE])
           \/ /\ trx[s] # "absent" /\ ~void
              /\ Finish(w, "ok")

\* GetTransactionByID and the branches on what it found.
LookupSale(w) ==
    LET j == job[w]
        s == j.row
        void == j.status = "VOIDED"
    IN  /\ j.pc = "lookup" /\ s \in Sales
        /\ \/ /\ trx[s] = "absent"
              /\ Step(w, [j EXCEPT !.pc = "insert"])
           \/ /\ trx[s] # "absent" /\ void /\ printedRow[s]
              /\ Finish(w, "VOID_AFTER_PRINT")
           \/ /\ trx[s] = "COMPLETED" /\ void /\ ~printedRow[s]
              /\ Step(w, [j EXCEPT !.pc = AfterInsert(j, TRUE), !.restoring = TRUE])
           \/ /\ trx[s] # "absent"
              /\ ~void \/ (trx[s] = "VOIDED" /\ ~printedRow[s])
              /\ Finish(w, "ok")

\* GetProductWasteByID, or returnRepo.GetByID.  An error of the latter is passed over,
\* and the next read, in the transaction it has aborted, fails as CheckOriginal's can.
LookupOther(w) ==
    LET j == job[w]
    IN  /\ j.pc = "lookup" /\ j.row \notin Sales
        /\ \/ j.row \in booked /\ Finish(w, "ok")
           \/ /\ j.row \notin booked
              /\ Step(w, [j EXCEPT !.pc = IF j.row \in Returns THEN "original" ELSE "insert"])
           \/ j.row \in Returns /\ Finish(w, "ORIGINAL_ABSENT")

\* Mutant: the receipt is not asked for.
CheckStatusOnly(w) ==
    LET s == SaleOf[job[w].row]
    IN  /\ job[w].pc = "original"
        /\ \/ trx[s] = "absent" /\ Finish(w, "ORIGINAL_ABSENT")
           \/ trx[s] = "VOIDED" /\ Finish(w, "CANCELLED")
           \/ trx[s] = "COMPLETED" /\ Step(w, [job[w] EXCEPT !.pc = "lockItems"])

\* The checks of returnService.Create on the original sale.  A database error while it
\* is read is answered as if the sale were absent, and not as something to retry.
CheckOriginal(w) ==
    LET j == job[w]
        s == SaleOf[j.row]
    IN  /\ j.pc = "original"
        /\ \/ Finish(w, "ORIGINAL_ABSENT")
           \/ trx[s] # "absent" /\ ~printedRow[s] /\ Finish(w, "NOT_PRINTED")
           \/ trx[s] = "VOIDED" /\ printedRow[s] /\ Finish(w, "CANCELLED")
           \/ /\ trx[s] = "COMPLETED" /\ printedRow[s]
              /\ Step(w, [j EXCEPT !.pc = "lockItems"])

\* SnapshotForReturn and validateAgainstSnapshot.
LockItems(w) ==
    LET j == job[w]
        s == SaleOf[j.row]
    IN  /\ j.pc = "lockItems"
        /\ ~Blocked(w)
        /\ \/ /\ ReturnQty[j.row] > Returnable(s, ReturnsOf(s))
              /\ Finish(w, "OVER_QUANTITY")
           \/ /\ ReturnQty[j.row] <= Returnable(s, ReturnsOf(s))
              /\ Step(w, [j EXCEPT !.pc = "insert", !.seen = ReturnsOf(s)])

\* Mutant: a sale that arrives voided takes stock too.
InsertAlwaysMoves(w) ==
    LET j == job[w]
        moving == IF j.row \in Returns THEN Restock[j.row] ELSE TRUE
    IN  /\ j.pc = "insert"
        /\ IF j.row \in Sales /\ j.status = "VOIDED" /\ j.printed
           THEN Finish(w, "retry")
           ELSE ~Blocked(w) /\ Step(w, [j EXCEPT !.pc = AfterInsert(j, moving),
                            !.inserted = ~Exists(j.row),
                            !.restoring = j.row \in Returns])

\* INSERT ... ON CONFLICT (id) DO NOTHING: a row committed meanwhile is no error.
\* ck_void_requires_unprinted turns a printed VOIDED row into a database error.
Insert(w) ==
    LET j == job[w]
        moving == IF j.row \in Returns THEN Restock[j.row] ELSE j.status = "COMPLETED"
    IN  /\ j.pc = "insert"
        /\ IF j.row \in Sales /\ j.status = "VOIDED" /\ j.printed
           THEN Finish(w, "retry")
           ELSE ~Blocked(w) /\ Step(w, [j EXCEPT !.pc = AfterInsert(j, moving),
                            !.inserted = ~Exists(j.row),
                            !.restoring = j.row \in Returns])

\* What applyToProduct writes to material m, read under its lock.
Moved(j, m) ==
    IF j.restoring THEN Restore(stock[m], Need[j.row][m])
    ELSE Deduct(stock[m], Need[j.row][m], PackSize[m], AutoUnpack)

\* LockByID and Update of the next material: bomStockAdjuster.applyToProduct.
Move(w) ==
    LET j == job[w]
        m == LockPath[j.row][j.next]
    IN  /\ j.pc = "move"
        /\ ~Blocked(w)
        /\ Step(w, [j EXCEPT !.held = @ \cup {m}, !.buf[m] = Moved(j, m), !.next = @ + 1,
                        !.pc = IF j.next = Len(LockPath[j.row]) THEN "commit" ELSE "move"])

NewStatus(j) == IF j.inserted \/ j.restoring THEN j.status ELSE trx[j.row]

Commit(w) ==
    LET j == job[w]
    IN  /\ j.pc = "commit"
        /\ stock' = [m \in Materials |-> IF m \in j.held THEN j.buf[m] ELSE stock[m]]
        /\ IF j.row \in Sales
           THEN /\ trx' = [trx EXCEPT ![j.row] = NewStatus(j)]
                /\ printedRow' = [printedRow EXCEPT ![j.row] = IF j.inserted THEN j.printed ELSE @]
                /\ UNCHANGED booked
           ELSE /\ booked' = booked \cup {j.row}
                /\ UNCHANGED <<trx, printedRow>>
        /\ IF j.row \in Returns
           THEN /\ returnState' = [returnState EXCEPT ![SaleOf[j.row]] =
                                      DeriveState(SaleOf[j.row], Quantity[j.seen] + ReturnQty[j.row])]
                /\ writeOffs' = [writeOffs EXCEPT ![j.row] = IF Restock[j.row] THEN @ ELSE @ + 1]
           ELSE UNCHANGED <<returnState, writeOffs>>
        /\ job' = [job EXCEPT ![w] = Answered(j, "ok")]
        /\ UNCHANGED <<tills, acked, refused>>

\* A database error, a lost connection or a restart rolls the transaction back.
Abort(w) ==
    /\ InTx(w)
    /\ Finish(w, "retry")

\* PostgreSQL breaks a cycle of lock waits by aborting one of its members.
Deadlocked(w) ==
    \E S \in SUBSET Workers :
        /\ w \in S
        /\ \A v \in S : (\E u \in S : WaitsFor(v, u)) /\ (\E u \in S : WaitsFor(u, v))

\* Mutant: the victim runs its transaction again at once, as often as it takes.
DeadlockVictimTriesAgain(w) ==
    /\ InTx(w)
    /\ Deadlocked(w)
    /\ Step(w, [Idle EXCEPT !.pc = "lookup", !.row = job[w].row,
                    !.status = job[w].status, !.printed = job[w].printed])

DeadlockVictim(w) ==
    /\ InTx(w)
    /\ Deadlocked(w)
    /\ Finish(w, "retry")

\* The till reads the answer.
Answer(w) ==
    LET j == job[w]
    IN  /\ j.pc = "reply"
        /\ acked' = IF j.outcome = "ok" THEN acked \cup {<<j.row, j.status>>} ELSE acked
        /\ refused' = IF j.outcome \in Reasons THEN refused \cup {<<j.row, j.outcome>>} ELSE refused
        /\ job' = [job EXCEPT ![w] = Idle]
        /\ UNCHANGED <<tables, tills>>

\* The answer is lost, or the till has stopped waiting for it.
AnswerLost(w) ==
    /\ job[w].pc = "reply"
    /\ job' = [job EXCEPT ![w] = Idle]
    /\ UNCHANGED <<tables, tills, acked, refused>>

\* The statements of a transaction that can have to wait.
LockStep(w) == LockItems(w) \/ Insert(w) \/ Move(w)

Advance(w) ==
    \/ LookupSale(w) \/ LookupOther(w) \/ CheckOriginal(w) \/ Commit(w)
    \/ Answer(w) \/ AnswerLost(w)

Next ==
    \/ \E s \in Sales : TillSell(s) \/ TillPrint(s) \/ TillOpenVoid(s) \/ TillVoid(s)
    \/ \E x \in Wastes : TillWaste(x)
    \/ \E r \in Returns : TillReturn(r)
    \/ \E w \in Workers : \/ \E row \in Rows : Receive(w, row)
                          \/ LockStep(w) \/ Advance(w) \/ Abort(w) \/ DeadlockVictim(w)

Spec == Init /\ [][Next]_vars

\* A request runs to its end: goroutines are scheduled, a lock that is released
\* is granted (PostgreSQL queues lock waiters in order), and deadlock_timeout
\* expires.  Nothing obliges a till to sell, print, void or send.
Fairness ==
    \A w \in Workers :
        WF_vars(Advance(w)) /\ SF_vars(LockStep(w)) /\ WF_vars(DeadlockVictim(w))

FairSpec == Spec /\ Fairness
-----------------------------------------------------------------------------
(* Properties. *)

JobType ==
    [pc : {"idle", "reply"} \cup TxSteps, row : Rows \cup {NoRow}, status : Statuses,
     printed : BOOLEAN, inserted : BOOLEAN, restoring : BOOLEAN, seen : SUBSET Returns,
     next : Nat, held : SUBSET Materials, buf : [Materials -> Stock],
     outcome : Outcomes]

\* The type of the state: no table, request or till field ever holds a value
\* the handlers of pos_sync_service.go and return_service.go cannot produce.
TypeOK ==
    /\ trx \in [Sales -> Statuses \cup {"absent"}]
    /\ printedRow \in [Sales -> BOOLEAN]
    /\ returnState \in [Sales -> {"NONE", "PARTIAL", "FULL"}]
    /\ booked \in SUBSET (Wastes \cup Returns)
    /\ writeOffs \in [Returns -> Nat]
    /\ stock \in [Materials -> Stock]
    /\ job \in [Workers -> JobType]
    /\ till \in [Sales -> Statuses \cup {"unsold"}]
    /\ receipt \in [Sales -> BOOLEAN]
    /\ voidPage \in SUBSET Sales
    /\ filed \in SUBSET (Wastes \cup Returns)
    /\ acked \in SUBSET (Rows \X Statuses)
    /\ refused \in SUBSET (Rows \X Reasons)

NeedOf(rows, m) == SumOver([row \in Rows |-> Need[row][m]], rows)

\* The stock of every raw material is the opening stock less what the committed
\* sales and wastes took, plus what the committed restocked returns gave back,
\* however requests interleave, repeat or abort (stock_movement.go).
StockMatchesTables ==
    \A m \in Materials :
        Units(stock[m], PackSize[m]) =
            Units(OpeningStock[m], PackSize[m])
            - NeedOf({s \in Sales : trx[s] = "COMPLETED"}, m)
            - NeedOf(Wastes \cap booked, m)
            + NeedOf({r \in Returns \cap booked : Restock[r]}, m)

Recorded(row, status) ==
    IF status = "VOIDED" THEN row \in Sales /\ trx[row] = "VOIDED" ELSE Exists(row)

\* A row the server answered as synced is on its books in the form that was
\* sent: a void acknowledged to the cashier is a void in the tables.
AckedIsRecorded == \A a \in acked : Recorded(a[1], a[2])

\* The returned quantity never exceeds the quantity sold, and return_state says
\* what the returns table adds up to (SnapshotForReturn's item lock).
ReturnsWithinSale ==
    \A s \in Sales :
        /\ Quantity[ReturnsOf(s)] <= SoldQty[s]
        /\ returnState[s] = DeriveState(s, Quantity[ReturnsOf(s)])
        /\ \A r \in ReturnsOf(s) : writeOffs[r] = IF Restock[r] THEN 0 ELSE 1

\* Never more of a sale is returned than was sold: the part of ReturnsWithinSale
\* that holds even when the same return arrives in two requests at once.
NeverOverReturned ==
    \A s \in Sales : Quantity[ReturnsOf(s)] <= SoldQty[s]

\* What was answered as synced is on the books in some form.
AckedIsBooked == \A a \in acked : Exists(a[1])

\* Goods come back one way only: a sale with a booked return is never voided.
ReturnedNeverVoided ==
    \A s \in Sales : ReturnsOf(s) # {} => trx[s] = "COMPLETED"

\* A return the till files is for a receipt that was printed, so the server
\* never refuses it because "the receipt was never printed" (return_service.go).
PrintedSaleIsReturnable ==
    \A r \in Returns : <<r, "NOT_PRINTED">> \notin refused

\* The handlers implement the ledger the service promises.
Ledger == INSTANCE SaleLedger WITH
    sale <- trx,
    units <- [m \in Materials |-> Units(stock[m], PackSize[m])],
    Opening <- [m \in Materials |-> Units(OpeningStock[m], PackSize[m])]

\* Every step of the handlers is a step of the ledger, or leaves it alone.
LedgerSpec == Ledger!Spec

\* Every request that was received is answered, or its answer is lost: no
\* worker waits for ever for a lock (order of lock requests, deadlock victims).
EveryRequestEnds ==
    \A w \in Workers : job[w].pc # "idle" ~> job[w].pc = "idle"
=============================================================================
