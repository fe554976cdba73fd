----------------------------- MODULE SyncOutbox -----------------------------
(***************************************************************************)
(* How a till gets its shifts and sales to the server: the local rows with *)
(* their synced and quarantined flags, SyncEngine's batches, the Reconciler*)
(* that reads the answer, and the server's counts and per-row errors.      *)
(*                                                                         *)
(* One engine runs in the UI isolate and one in the WorkManager isolate;   *)
(* each has a lock of its own over the same SQLite file.  A request that   *)
(* the till gave up on may still reach the server, or go on in it.  The    *)
(* server stores a request's rows in one step here (PosSyncServer opens it *)
(* up); then it reads, and in a later step writes, the totals of one       *)
(* closed shift after the other.                                           *)
(*                                                                         *)
(* Shifts and sales are numbered in the order the cashier creates them.    *)
(* Left out: wastes, returns, void logs and events (same flags, counted or *)
(* tracked per row), the backoff timer (a manual run ignores it), and the  *)
(* batches-per-run limit (the next run goes on where one stopped).         *)
(***************************************************************************)
EXTENDS Integers, FiniteSets

CONSTANTS
    Shifts, Sales,      \* numbers, in order of creation
    ShiftOf,            \* the shift a sale is made in
    Engines,            \* isolates with a SyncEngine
    BatchLimit,         \* maxTransactionsPerBatch
    Contested,          \* shifts whose cashier has a shift open on another till
    Malformed,          \* sales whose tenders do not add up: the till itself holds them back
    Refused,            \* sales the server refuses for good (a tender or quantity of zero)
    Printed,            \* sales whose receipt is out by the time they are first sent
    IdRank,             \* the order in which SQLite returns shifts read by their ids
    ChangesInFlight,    \* the cashier voids and closes while a request is under way
    Abandoned           \* bound: room for requests that nobody waits for any more

ASSUME OutboxAssumption ==
    /\ Shifts \subseteq Nat /\ Sales \subseteq Nat
    /\ IsFiniteSet(Shifts) /\ IsFiniteSet(Sales)
    /\ ShiftOf \in [Sales -> Shifts]
    /\ BatchLimit \in Nat \ {0} /\ Engines \cap Abandoned = {}
    /\ Contested \subseteq Shifts
    /\ Malformed \subseteq Sales /\ Refused \subseteq Sales /\ Printed \subseteq Sales
    /\ IdRank \in [Shifts -> Nat]
    /\ \A g, h \in Shifts : IdRank[g] = IdRank[h] => g = h
    /\ ChangesInFlight \in BOOLEAN

VARIABLES
    shift,              \* shifts.status on the till, "none" before it is opened
    sale,               \* transactions.status on the till
    syncedShifts, syncedSales,    \* rows whose synced flag is set
    heldShifts, heldSales,        \* rows whose quarantined flag is set
    request,            \* the request of each engine, and those nobody waits for
    outage,             \* network, database and isolates may fail
    srvShift, srvSale,  \* the same rows on the server
    totals,             \* the sales counted when a closed shift's totals were last computed
    raced               \* history: shifts whose totals were written while another request
                        \* had read them and not yet written

till   == <<shift, sale>>
flags  == <<syncedShifts, syncedSales, heldShifts, heldSales>>
server == <<srvShift, srvSale, totals, raced>>
vars   == <<till, flags, request, outage, server>>

Requests == Engines \cup Abandoned

\* Of shiftsSynced the till learns only how many they are.
NoAnswer == [shiftsSynced |-> {}, failed |-> {}, fatalShifts |-> {}, fatalSales |-> {}]
NoRows   == [shifts |-> <<>>, before |-> {}, sales |-> <<>>]

\* due: closed shifts whose totals are still to be computed; hand: the totals that
\* were read and not yet written, if any.
Resting  == [pc |-> "idle", batch |-> NoRows, answer |-> NoAnswer, due |-> {}, hand |-> {}]

Init ==
    /\ shift = [h \in Shifts |-> "none"]
    /\ sale = [s \in Sales |-> "none"]
    /\ syncedShifts = {} /\ syncedSales = {}
    /\ heldShifts = {} /\ heldSales = {}
    /\ request = [r \in Requests |-> Resting]
    /\ outage = TRUE
    /\ srvShift = [h \in Shifts |-> "none"]
    /\ srvSale = [s \in Sales |-> "none"]
    /\ totals = [h \in Shifts |-> {}]
    /\ raced = {}
-----------------------------------------------------------------------------
(* The cashier. *)

Quiet == ChangesInFlight \/ \A e \in Engines : request[e].pc = "idle"

\* The opening screen is reached only when no shift is open.
OpenShift(h) ==
    /\ shift[h] = "none"
    /\ \A g \in Shifts : shift[g] # "OPEN" /\ (g < h => shift[g] = "CLOSED")
    /\ shift' = [shift EXCEPT ![h] = "OPEN"]
    /\ UNCHANGED <<sale, flags, request, outage, server>>

\* Mutant: a closed shift does not go back to the queue.
CloseShiftStaysSynced(h) ==
    /\ shift[h] = "OPEN"
    /\ Quiet
    /\ shift' = [shift EXCEPT ![h] = "CLOSED"]
    /\ UNCHANGED <<sale, flags, request, outage, server>>

CloseShift(h) ==
    /\ shift[h] = "OPEN"
    /\ Quiet
    /\ shift' = [shift EXCEPT ![h] = "CLOSED"]
    /\ syncedShifts' = syncedShifts \ {h}
    /\ UNCHANGED <<sale, syncedSales, heldShifts, heldSales, request, outage, server>>

Sell(s) ==
    /\ sale[s] = "none"
    /\ shift[ShiftOf[s]] = "OPEN"
    /\ \A t \in Sales : t < s => sale[t] # "none"
    /\ sale' = [sale EXCEPT ![s] = "COMPLETED"]
    /\ UNCHANGED <<shift, flags, request, outage, server>>

VoidSale(s) ==
    /\ sale[s] = "COMPLETED"
    /\ Quiet
    /\ sale' = [sale EXCEPT ![s] = "VOIDED"]
    /\ syncedSales' = syncedSales \ {s}
    /\ UNCHANGED <<shift, syncedShifts, heldShifts, heldSales, request, outage, server>>
-----------------------------------------------------------------------------
(* The engine: _collectBatch and the request. *)

\* Mutant: quarantined shifts leave the queue.
ShiftsNotHeld == {h \in Shifts : shift[h] # "none" /\ h \notin syncedShifts \cup heldShifts}

\* transactionDao.pendingTransactions without its limit.
QueuedSales == {s \in Sales : sale[s] # "none" /\ s \notin syncedSales \cup heldSales}

\* shiftDao.pending does not ask for the quarantined flag.
QueuedShifts == {h \in Shifts : shift[h] # "none" /\ h \notin syncedShifts}

CollectedSales == {s \in QueuedSales : Cardinality({t \in QueuedSales : t < s}) < BatchLimit}

\* What assertTenderIntegrity throws on is held back, and has had its place in the batch.
BatchSales == CollectedSales \ Malformed

\* Every sale of a batch brings its shift, synced or not.
BatchShifts == QueuedShifts \cup {ShiftOf[s] : s \in BatchSales}

\* The order of a batch: the shifts still to be synced as they were opened, then the
\* other shifts of its sales as SQLite returns them.
Precedes(g, h) ==
    \/ g \in QueuedShifts /\ (h \in QueuedShifts => g < h)
    \/ g \notin QueuedShifts /\ h \notin QueuedShifts /\ IdRank[g] < IdRank[h]

Batch ==
    [shifts |-> [h \in BatchShifts |-> shift[h]],
     before |-> {p \in BatchShifts \X BatchShifts : Precedes(p[1], p[2])},
     sales  |-> [s \in BatchSales |-> sale[s]]]

Send(e) ==
    /\ request[e].pc = "idle"
    /\ BatchShifts \cup CollectedSales # {}
    /\ heldSales' = heldSales \cup (CollectedSales \cap Malformed)
    /\ \/ /\ BatchShifts \cup BatchSales = {}
          /\ UNCHANGED request
       \/ /\ BatchShifts \cup BatchSales # {}
          /\ request' = [request EXCEPT ![e] = [Resting EXCEPT !.pc = "waiting", !.batch = Batch]]
    /\ UNCHANGED <<till, syncedShifts, syncedSales, heldShifts, outage, server>>

\* The client times out, or its isolate dies; the request may still be under way, or
\* the server go on with it.
GiveUp(e) ==
    /\ request[e].pc # "idle"
    /\ outage
    /\ \/ request' = [request EXCEPT ![e] = Resting]
       \/ \E r \in Abandoned :
             /\ request[e].pc # "answered"
             /\ request[r].pc = "idle"
             /\ request' = [request EXCEPT ![e] = Resting, ![r] = request[e]]
    /\ UNCHANGED <<till, flags, outage, server>>
-----------------------------------------------------------------------------
(* The server: syncShifts, syncTransactions, reconcileClosedShifts.  During an  *)
(* outage any rows may be lost, and the totals of any closed shift unsettled.   *)

ClosedIn(b) == {h \in DOMAIN b.shifts : b.shifts[h] = "CLOSED"}

\* No second OPEN shift on the device, nor one for a cashier busy on another till.
SlotTaken(b, lostShifts, h) ==
    \/ h \in Contested
    \/ \E g \in Shifts \ {h} :
          srvShift[g] = "OPEN" /\ ~(g \in ClosedIn(b) \ lostShifts /\ <<g, h>> \in b.before)

\* A closed shift is not opened again.
Saved(b, lostShifts) ==
    {h \in DOMAIN b.shifts \ lostShifts :
        b.shifts[h] = "OPEN" => srvShift[h] # "CLOSED" /\ ~SlotTaken(b, lostShifts, h)}

ShiftsAfter(b, lostShifts) ==
    [h \in Shifts |-> IF h \in Saved(b, lostShifts) THEN b.shifts[h] ELSE srvShift[h]]

\* A void never follows a receipt: on a stored sale the service refuses it for good, on
\* a new one ck_void_requires_unprinted fails the insert, now and at every retry.
VoidedLate(b) == {s \in DOMAIN b.sales \cap Printed : b.sales[s] = "VOIDED"}

\* A sale needs its shift's row (transactions.shift_id).
Stored(b, lostShifts, lostSales) ==
    {s \in DOMAIN b.sales \ (lostSales \cup Refused \cup VoidedLate(b)) :
        ShiftsAfter(b, lostShifts)[ShiftOf[s]] # "none"}

\* Mutant: the last copy to arrive wins.
SalesLastWins(b, lostShifts, lostSales) ==
    [s \in Sales |-> IF s \in Stored(b, lostShifts, lostSales) THEN b.sales[s] ELSE srvSale[s]]

SalesAfter(b, lostShifts, lostSales) ==
    [s \in Sales |->
        IF s \notin Stored(b, lostShifts, lostSales) THEN srvSale[s]
        ELSE IF srvSale[s] = "VOIDED" THEN "VOIDED"
        ELSE IF b.sales[s] = "VOIDED" THEN "VOIDED" ELSE "COMPLETED"]

\* Whatever keeps a shift from being saved is answered as not retryable, but what keeps
\* a sale from being inserted as retryable (PERSIST_FAILED), though it never will be; a
\* closed shift that is saved is counted once its totals are written.
AnswerTo(b, lostShifts, lostSales) ==
    [shiftsSynced |-> Saved(b, lostShifts) \ ClosedIn(b),
     failed      |-> DOMAIN b.sales \ Stored(b, lostShifts, lostSales),
     fatalShifts |-> DOMAIN b.shifts \ Saved(b, lostShifts),
     fatalSales  |-> (DOMAIN b.sales \cap Refused)
                     \cup {s \in VoidedLate(b) \ lostSales : srvSale[s] # "none"}]

\* A request is answered when no totals are due; nobody reads an abandoned one's answer.
Goes(r, j) ==
    request' = [request EXCEPT ![r] =
        IF j.due # {} THEN [j EXCEPT !.pc = "settling"]
        ELSE IF r \in Abandoned THEN Resting ELSE [j EXCEPT !.pc = "answered"]]

Store(r, lostShifts, lostSales) ==
    LET b == request[r].batch
    IN  /\ request[r].pc = "waiting"
        /\ lostShifts \cup lostSales # {} => outage
        /\ srvShift' = ShiftsAfter(b, lostShifts)
        /\ srvSale' = SalesAfter(b, lostShifts, lostSales)
        /\ Goes(r, [request[r] EXCEPT !.due = Saved(b, lostShifts) \cap ClosedIn(b),
                                      !.answer = AnswerTo(b, lostShifts, lostSales)])
        /\ UNCHANGED <<till, flags, outage, totals, raced>>

\* Closed shifts are settled in the order of the request.
IsNext(r, h) ==
    h \in request[r].due /\ \A g \in request[r].due \ {h} : <<h, g>> \in request[r].batch.before

\* Mutant: the tenders of voided sales are added up too.
TendersOfAll(h) == {s \in Sales : ShiftOf[s] = h /\ srvSale[s] # "none"}

TenderTotals(h) == {s \in Sales : ShiftOf[s] = h /\ srvSale[s] = "COMPLETED"}

ReadTotals(r) ==
    \E h \in request[r].due :
        /\ IsNext(r, h)
        /\ request[r].hand = {}
        /\ request' = [request EXCEPT ![r].hand = {[shift |-> h, counted |-> TenderTotals(h)]}]
        /\ UNCHANGED <<till, flags, outage, server>>

\* Mutant: the totals stay in hand for the next shift.
KeepsHand(j, h, done) == [j EXCEPT !.due = @ \ {h}, !.answer.shiftsSynced = @ \cup done]

\* On to the request's next shift; this one counts as synced if it is done.
Onward(j, h, done) ==
    [j EXCEPT !.due = @ \ {h}, !.hand = {}, !.answer.shiftsSynced = @ \cup done]

\* Another request is between its read and its write of this shift's totals.
Overlapped(r, h) ==
    \E q \in Requests \ {r} : \E t \in request[q].hand : t.shift = h

WriteTotals(r) ==
    \E t \in request[r].hand :
        /\ totals' = [totals EXCEPT ![t.shift] = t.counted]
        /\ raced' = raced \cup {h \in {t.shift} : Overlapped(r, h)}
        /\ Goes(r, Onward(request[r], t.shift, {t.shift}))
        /\ UNCHANGED <<till, flags, outage, srvShift, srvSale>>

\* The read or the write fails: the shift is saved and not counted.
TotalsFail(r) ==
    \E h \in request[r].due :
        /\ IsNext(r, h)
        /\ outage
        /\ Goes(r, Onward(request[r], h, {}))
        /\ UNCHANGED <<till, flags, outage, server>>

\* An abandoned request is lost, or stopped at any statement.
Lose(r) ==
    /\ request[r].pc # "idle"
    /\ request' = [request EXCEPT ![r] = Resting]
    /\ UNCHANGED <<till, flags, outage, server>>
-----------------------------------------------------------------------------
(* The Reconciler: one SQLite transaction over the rows that were sent. *)

\* shifts_synced counts; it does not say which shift failed.
AllShiftsOk(j) == Cardinality(j.answer.shiftsSynced) = Cardinality(DOMAIN j.batch.shifts)

GoodShifts(j) ==
    IF AllShiftsOk(j) THEN DOMAIN j.batch.shifts \ j.answer.fatalShifts ELSE {}

\* Mutant: only what is refused for good counts as failed.
SalesNotFatal(j) ==
    IF AllShiftsOk(j) THEN DOMAIN j.batch.sales \ j.answer.fatalSales ELSE {}

\* Mutant: one failed sale keeps the whole batch in the queue.
AllOrNoSales(j) ==
    IF AllShiftsOk(j) /\ j.answer.failed \cup j.answer.fatalSales = {} THEN DOMAIN j.batch.sales
    ELSE {}

GoodSales(j) ==
    IF AllShiftsOk(j) THEN DOMAIN j.batch.sales \ (j.answer.failed \cup j.answer.fatalSales)
    ELSE {}

Reconcile(e) ==
    LET j == request[e]
    IN  /\ j.pc = "answered"
        /\ syncedShifts' = (syncedShifts \ DOMAIN j.batch.shifts) \cup GoodShifts(j)
        /\ syncedSales' = (syncedSales \ DOMAIN j.batch.sales) \cup GoodSales(j)
        /\ heldShifts' = heldShifts \cup j.answer.fatalShifts
        /\ heldSales' = heldSales \cup j.answer.fatalSales
        /\ request' = [request EXCEPT ![e] = Resting]
        /\ UNCHANGED <<till, outage, server>>
-----------------------------------------------------------------------------
OutageEnds ==
    /\ outage
    /\ outage' = FALSE
    /\ UNCHANGED <<till, flags, request, server>>

Next ==
    \/ OutageEnds
    \/ \E h \in Shifts : OpenShift(h) \/ CloseShift(h)
    \/ \E s \in Sales : Sell(s) \/ VoidSale(s)
    \/ \E e \in Engines : Send(e) \/ GiveUp(e) \/ Reconcile(e)
    \/ \E r \in Requests :
          \/ \E lostShifts \in SUBSET DOMAIN request[r].batch.shifts,
                lostSales \in SUBSET DOMAIN request[r].batch.sales :
                Store(r, lostShifts, lostSales)
          \/ ReadTotals(r) \/ WriteTotals(r) \/ TotalsFail(r)
    \/ \E r \in Abandoned : Lose(r)

Spec == Init /\ [][Next]_vars

\* Triggers keep coming while the app is installed (timer, connectivity, WorkManager),
\* a request that is sent is handled and its answer read, and outages end: liveness is
\* claimed for what happens after the last one.
Fairness ==
    /\ WF_vars(OutageEnds)
    /\ \A e \in Engines :
          /\ WF_vars(Send(e))
          /\ WF_vars(Store(e, {}, {}) \/ ReadTotals(e) \/ WriteTotals(e))
          /\ WF_vars(Reconcile(e))

FairSpec == Spec /\ Fairness
-----------------------------------------------------------------------------
(* Properties. *)

Statuses == {"COMPLETED", "VOIDED"}
Batches ==
    [shifts : UNION {[H -> {"OPEN", "CLOSED"}] : H \in SUBSET Shifts},
     before : SUBSET (Shifts \X Shifts),
     sales  : UNION {[S -> Statuses] : S \in SUBSET Sales}]
Answers ==
    [shiftsSynced : SUBSET Shifts, failed : SUBSET Sales,
     fatalShifts : SUBSET Shifts, fatalSales : SUBSET Sales]
Jobs ==
    [pc : {"idle", "waiting", "settling", "answered"}, batch : Batches, answer : Answers,
     due : SUBSET Shifts, hand : SUBSET [shift : Shifts, counted : SUBSET Sales]]

\* The type of the state: rows, flags, requests and answers as sync_engine.dart,
\* reconciler.dart and the daos build them; totals in hand are of the next shift due.
TypeOK ==
    /\ shift \in [Shifts -> {"none", "OPEN", "CLOSED"}]
    /\ sale \in [Sales -> Statuses \cup {"none"}]
    /\ syncedShifts \subseteq Shifts /\ syncedSales \subseteq Sales
    /\ heldShifts \subseteq Shifts /\ heldSales \subseteq Sales
    /\ request \in [Requests -> Jobs]
    /\ \A r \in Requests : \A t \in request[r].hand : IsNext(r, t.shift)
    /\ outage \in BOOLEAN
    /\ srvShift \in [Shifts -> {"none", "OPEN", "CLOSED"}]
    /\ srvSale \in [Sales -> Statuses \cup {"none"}]
    /\ totals \in [Shifts -> SUBSET Sales]
    /\ raced \subseteq Shifts

\* A sale the till will not send again is on the server as the till has it: void
\* included, although requests may be lost, repeated or arrive late (reconciler.dart).
SyncedSaleIsRecorded == \A s \in syncedSales : srvSale[s] = sale[s]

\* A shift the till will not send again of its own accord is on the server as the
\* till has it; a close that never arrives leaves the cash undeclared (shift_dao.dart).
SyncedShiftIsRecorded == \A h \in syncedShifts : srvShift[h] = shift[h]

\* Neither a void nor a close is forgotten, whenever the cashier makes it
\* (transaction_dao.dart, shift_dao.dart).
SyncedRowsAreRecorded == SyncedSaleIsRecorded /\ SyncedShiftIsRecorded

\* Once a closed shift and its sales have left the queue, the totals the cashier's
\* count is compared with cover exactly its completed sales, whichever batch brought
\* them and however often the computation failed (reconcileClosedShifts), unless two
\* requests were between Reconcile's read and its write of that shift at once.
SettledShiftCountsItsSales ==
    \A h \in syncedShifts \ raced :
        LET mine == {s \in Sales : ShiftOf[s] = h /\ sale[s] # "none"}
        IN  shift[h] = "CLOSED" /\ mine \subseteq syncedSales =>
                totals[h] = {s \in mine : sale[s] = "COMPLETED"}

\* Even while the cashier works during a request, no sale leaves the queue without
\* the server having it in some form (transactionSynced).
NoSaleVanishes == \A s \in syncedSales : srvSale[s] # "none"

\* A late or repeated copy never undoes what a newer one did: a closed shift is not
\* reopened, a void not withdrawn, a stored sale not lost (pos_sync_service.go).
ServerNeverRegresses ==
    [][/\ \A h \in Shifts : srvShift[h] = "CLOSED" => srvShift'[h] = "CLOSED"
       /\ \A s \in Sales : /\ srvSale[s] = "VOIDED" => srvSale'[s] = "VOIDED"
                           /\ srvSale[s] # "none" => srvSale'[s] # "none"]_vars

\* Voided after its receipt and before its first delivery: refused at every retry, and
\* never held back.
Stuck(s) == s \in Printed /\ sale[s] = "VOIDED" /\ srvSale[s] = "none"

\* As long as sales that are stuck cannot fill a batch, every other sale leaves the queue
\* in the end, onto the server or into quarantine, however many rows before it are
\* refused.  (One whose cashier has a shift open on another till has to wait for that
\* shift.)
EverySaleSettles ==
    Cardinality(Printed) < BatchLimit =>
        \A s \in Sales :
            sale[s] # "none" /\ ShiftOf[s] \notin Contested
                ~> s \in heldSales \/ (s \in syncedSales /\ srvSale[s] # "none") \/ Stuck(s)

\* Every closed shift is closed on the server in the end.
EveryCloseArrives ==
    \A h \in Shifts : shift[h] = "CLOSED" ~> srvShift[h] = "CLOSED"
=============================================================================
