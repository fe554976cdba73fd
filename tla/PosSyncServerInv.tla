-------------------------- MODULE PosSyncServerInv --------------------------
(***************************************************************************)
(* The inductive invariants behind the safety of PosSyncServer: what a     *)
(* running database transaction may rely on between its statements, when   *)
(* no two requests carry the same row at the same time and, weaker,        *)
(* whatever the requests carry.  PosSyncServerProofs proves both inductive.*)
(***************************************************************************)
EXTENDS PosSyncServer

PathSet(row) == {LockPath[row][i] : i \in 1..Len(LockPath[row])}

\* The transaction of j moves stock.
Moves(j) ==
    IF j.row \in Returns THEN Restock[j.row] ELSE j.status = "COMPLETED" \/ j.restoring

\* A row is in the hands of one request.
RowMutex ==
    \A w, v \in Workers :
        job[w].row = job[v].row /\ job[w].row # NoRow => w = v

\* A raw_materials row is locked by one transaction, and so are the items of a sale.
LockMutex ==
    \A w, v \in Workers :
        w # v => /\ job[w].held \cap job[v].held = {}
                 /\ \A s \in Sales : ~(HoldsItems(w, s) /\ HoldsItems(v, s))

\* Where a job is in its row's path; without it `Move` could leave the materials.
JobPlace(j) ==
    /\ j.pc # "idle" => j.row \in Rows
    /\ j.pc \in {"lookup", "original", "lockItems", "insert"} => j.next = 1
    /\ j.pc = "move" => j.next \in 1..Len(LockPath[j.row])

WellFormed == TypeOK /\ \A w \in Workers : JobPlace(job[w])

\* Only sales are ever voided.
JobVoids(j) == j.row \notin Sales => j.status = "COMPLETED"

\* Nothing is written before the transaction's own row is.
JobFresh(j) ==
    j.pc \in {"lookup", "original", "lockItems", "insert"} =>
        j.held = {} /\ ~j.inserted /\ ~j.restoring

\* What the lookup found about the row itself still holds.
JobLookup(j) ==
    /\ j.pc \in {"original", "lockItems"} => j.row \in Returns
    /\ j.pc \in {"original", "lockItems", "insert"} => ~Exists(j.row)
    /\ j.pc \in {"move", "commit"} =>
          IF j.row \in Sales
          THEN \/ j.inserted /\ ~j.restoring /\ trx[j.row] = "absent"
               \/ /\ ~j.inserted /\ j.restoring /\ j.status = "VOIDED"
                  /\ trx[j.row] = "COMPLETED" /\ ~printedRow[j.row]
          ELSE j.row \notin booked /\ j.restoring = (j.row \in Returns)

\* What a return found about the original sale still holds.
JobOriginal(j) ==
    j.row \in Returns =>
        /\ j.pc \in {"lockItems", "insert", "move", "commit"} =>
              trx[SaleOf[j.row]] = "COMPLETED" /\ printedRow[SaleOf[j.row]]
        /\ j.pc \in {"insert", "move", "commit"} =>
              /\ j.seen = ReturnsOf(SaleOf[j.row])
              /\ ReturnQty[j.row] <= Returnable(SaleOf[j.row], j.seen)

\* The materials locked so far are the path so far, each with its new value ready.
JobPath(j) ==
    /\ j.pc \in {"idle", "reply"} => j.held = {}
    /\ j.pc = "move" =>
          /\ Moves(j)
          /\ j.held = {LockPath[j.row][i] : i \in 1..(j.next - 1)}
    /\ j.pc = "commit" => j.held = IF Moves(j) THEN PathSet(j.row) ELSE {}
    /\ \A m \in j.held : j.buf[m] = Moved(j, m)

JobReply(j) == j.pc = "reply" /\ j.outcome = "ok" => Recorded(j.row, j.status)

\* Goods are returned only from sales that are settled and printed.
ReturnsSettled ==
    \A r \in Returns \cap booked :
        trx[SaleOf[r]] = "COMPLETED" /\ printedRow[SaleOf[r]]

JobInv(j) ==
    JobVoids(j) /\ JobFresh(j) /\ JobLookup(j) /\ JobOriginal(j) /\ JobPath(j) /\ JobReply(j)

\* What every transaction knows between two of its statements stays true while
\* the others run: the row it looked up, the sale it checked, the stock it locked.
TransactionsIsolated ==
    /\ WellFormed
    /\ RowMutex
    /\ LockMutex
    /\ ReturnsSettled
    /\ AckedIsRecorded
    /\ \A w \in Workers : JobInv(job[w])
-----------------------------------------------------------------------------
(* With the same row in several requests. *)

\* One transaction at a time inserts a row (the primary key) ...
OneWriter ==
    \A w, v \in Workers :
        job[w].inserted /\ job[v].inserted /\ job[w].row = job[v].row => w = v

\* ... and one at a time holds the items of a sale.
ItemsMutex ==
    \A w, v \in Workers :
        w # v => \A s \in Sales : ~(HoldsItems(w, s) /\ HoldsItems(v, s))

\* A transaction that did not insert its row found it there; a void that restores
\* stock found its sale unprinted; and a return knows what it always knows.
OverlapJob(j) ==
    /\ j.pc \in {"lookup", "original", "lockItems", "insert"} => ~j.inserted /\ ~j.restoring
    /\ j.pc \in {"original", "lockItems"} => j.row \in Returns
    /\ j.pc \in {"move", "commit"} /\ j.row \in Sales =>
          /\ j.inserted <=> trx[j.row] = "absent"
          /\ j.restoring => ~j.inserted /\ ~printedRow[j.row]
    /\ JobOriginal(j)
    /\ j.pc = "reply" /\ j.outcome = "ok" => Exists(j.row)

OverlapSafe ==
    /\ WellFormed
    /\ OneWriter
    /\ ItemsMutex
    /\ ReturnsSettled
    /\ AckedIsBooked
    /\ \A w \in Workers : OverlapJob(job[w])
=============================================================================
