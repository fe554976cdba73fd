------------------------ MODULE PosSyncServerProofs ------------------------
(***************************************************************************)
(* Proofs about PosSyncServer, for any number of workers, rows and         *)
(* materials.                                                              *)
(***************************************************************************)
EXTENDS PosSyncServerInv, DualStockTheorems, SumTheorems, TLAPS

-----------------------------------------------------------------------------
(* Type correctness. *)

LEMMA IdleType == Idle \in JobType /\ JobPlace(Idle)
PROOF
  BY StockAssumption DEF Idle, JobType, JobPlace, Rows, Statuses, Outcomes, TxSteps

\* Only a job changes in most steps; the state stays well-formed if the new one is.
LEMMA StepType ==
    ASSUME WellFormed, NEW w \in Workers, NEW j \in JobType, JobPlace(j), Step(w, j)
    PROVE  WellFormed'
PROOF
  <1>1. TypeOK'
    BY DEF WellFormed, TypeOK, Step, tables, tills
  <1>2. ASSUME NEW v \in Workers PROVE JobPlace(job'[v])
    BY DEF WellFormed, TypeOK, Step
  <1> QED
    BY <1>1, <1>2 DEF WellFormed, JobPlace

LEMMA AnsweredType ==
    ASSUME NEW j \in JobType, j.pc # "idle", JobPlace(j), NEW o \in Outcomes
    PROVE  Answered(j, o) \in JobType /\ JobPlace(Answered(j, o))
PROOF
  BY IdleType DEF Answered, JobType, Idle, JobPlace

LEMMA FinishType ==
    ASSUME WellFormed, NEW w \in Workers, job[w].pc # "idle", NEW o \in Outcomes, Finish(w, o)
    PROVE  WellFormed'
PROOF
  <1>1. job[w] \in JobType /\ JobPlace(job[w])
    BY DEF WellFormed, TypeOK
  <1>2. Answered(job[w], o) \in JobType /\ JobPlace(Answered(job[w], o))
    BY <1>1, AnsweredType
  <1>3. Step(w, Answered(job[w], o))
    BY DEF Finish, Step
  <1> QED
    BY <1>2, <1>3, StepType

\* A transaction whose own row is written starts its path, if there is one.
LEMMA AfterInsertType ==
    ASSUME NEW j, j.row \in Rows, j.next = 1, NEW moving \in BOOLEAN
    PROVE  /\ AfterInsert(j, moving) \in {"move", "commit"}
           /\ AfterInsert(j, moving) = "move" => j.next \in 1..Len(LockPath[j.row])
PROOF
  <1>1. Len(LockPath[j.row]) \in Nat
    BY StockAssumption
  <1> QED
    BY <1>1 DEF AfterInsert

LEMMA ReceiveType ==
    ASSUME WellFormed, NEW w \in Workers, NEW row \in Rows, Receive(w, row)
    PROVE  WellFormed'
PROOF
  <1> DEFINE j == [Idle EXCEPT !.pc = "lookup", !.row = row,
                      !.status = IF row \in Sales THEN till[row] ELSE "COMPLETED",
                      !.printed = IF row \in Sales THEN receipt[row] ELSE FALSE]
  <1>1. row \in Sales => till[row] \in Statuses /\ receipt[row] \in BOOLEAN
    BY DEF WellFormed, TypeOK, Receive, Pending
  <1>2. j \in JobType /\ JobPlace(j)
    BY <1>1, IdleType DEF JobType, JobPlace, Idle, TxSteps, Statuses
  <1>3. Step(w, j)
    BY DEF Receive
  <1> HIDE DEF j
  <1> QED
    BY <1>2, <1>3, StepType

LEMMA LookupSaleType ==
    ASSUME WellFormed, NEW w \in Workers, LookupSale(w)
    PROVE  WellFormed'
PROOF
  <1> DEFINE j == job[w]
             k == [j EXCEPT !.pc = AfterInsert(j, TRUE), !.restoring = TRUE]
  <1>1. j \in JobType /\ JobPlace(j) /\ j.pc = "lookup" /\ j.row \in Rows /\ j.next = 1
    BY DEF WellFormed, TypeOK, LookupSale, JobPlace
  <1>2. [j EXCEPT !.pc = "insert"] \in JobType /\ JobPlace([j EXCEPT !.pc = "insert"])
    BY <1>1 DEF JobType, TxSteps, JobPlace
  <1>3. k \in JobType /\ JobPlace(k)
    BY <1>1, AfterInsertType DEF JobType, TxSteps, JobPlace
  <1>4. \/ Step(w, [j EXCEPT !.pc = "insert"])
        \/ Step(w, k)
        \/ \E o \in Outcomes : Finish(w, o)
    BY DEF LookupSale, Outcomes, Reasons
  <1> HIDE DEF k
  <1> QED
    BY <1>1, <1>2, <1>3, <1>4, StepType, FinishType

LEMMA LookupOtherType ==
    ASSUME WellFormed, NEW w \in Workers, LookupOther(w)
    PROVE  WellFormed'
PROOF
  <1> DEFINE j == job[w]
             k == [j EXCEPT !.pc = IF j.row \in Returns THEN "original" ELSE "insert"]
  <1>1. j \in JobType /\ JobPlace(j) /\ j.pc = "lookup"
    BY DEF WellFormed, TypeOK, LookupOther
  <1>2. k \in JobType /\ JobPlace(k)
    BY <1>1 DEF JobType, TxSteps, JobPlace
  <1>3. Step(w, k) \/ \E o \in Outcomes : Finish(w, o)
    BY DEF LookupOther, Outcomes, Reasons
  <1> HIDE DEF k
  <1> QED
    BY <1>1, <1>2, <1>3, StepType, FinishType

LEMMA CheckOriginalType ==
    ASSUME WellFormed, NEW w \in Workers, CheckOriginal(w)
    PROVE  WellFormed'
PROOF
  <1> DEFINE j == job[w]
             k == [j EXCEPT !.pc = "lockItems"]
  <1>1. j \in JobType /\ JobPlace(j) /\ j.pc = "original"
    BY DEF WellFormed, TypeOK, CheckOriginal
  <1>2. k \in JobType /\ JobPlace(k)
    BY <1>1 DEF JobType, TxSteps, JobPlace
  <1>3. Step(w, k) \/ \E o \in Outcomes : Finish(w, o)
    BY DEF CheckOriginal, Outcomes, Reasons
  <1> HIDE DEF k
  <1> QED
    BY <1>1, <1>2, <1>3, StepType, FinishType

LEMMA LockItemsType ==
    ASSUME WellFormed, NEW w \in Workers, LockItems(w)
    PROVE  WellFormed'
PROOF
  <1> DEFINE j == job[w]
             k == [j EXCEPT !.pc = "insert", !.seen = ReturnsOf(SaleOf[j.row])]
  <1>1. j \in JobType /\ JobPlace(j) /\ j.pc = "lockItems"
    BY DEF WellFormed, TypeOK, LockItems
  <1>2. ReturnsOf(SaleOf[j.row]) \in SUBSET Returns
    BY DEF ReturnsOf
  <1>3. k \in JobType /\ JobPlace(k)
    BY <1>1, <1>2 DEF JobType, TxSteps, JobPlace
  <1>4. Step(w, k) \/ \E o \in Outcomes : Finish(w, o)
    BY DEF LockItems, Outcomes, Reasons
  <1> HIDE DEF k
  <1> QED
    BY <1>1, <1>3, <1>4, StepType, FinishType

LEMMA InsertType ==
    ASSUME WellFormed, NEW w \in Workers, Insert(w)
    PROVE  WellFormed'
PROOF
  <1> DEFINE j == job[w]
             moving == IF j.row \in Returns THEN Restock[j.row] ELSE j.status = "COMPLETED"
             k == [j EXCEPT !.pc = AfterInsert(j, moving), !.inserted = ~Exists(j.row),
                            !.restoring = j.row \in Returns]
  <1>1. j \in JobType /\ JobPlace(j) /\ j.pc = "insert" /\ j.row \in Rows /\ j.next = 1
    BY DEF WellFormed, TypeOK, Insert, JobPlace
  <1>2. /\ AfterInsert(j, moving) \in {"move", "commit"}
        /\ AfterInsert(j, moving) = "move" => j.next \in 1..Len(LockPath[j.row])
    <2>1. Len(LockPath[j.row]) \in Nat
      BY <1>1, StockAssumption
    <2> HIDE DEF moving, j
    <2> QED
      BY <1>1, <2>1 DEF AfterInsert
  <1>3. (~Exists(j.row)) \in BOOLEAN
    BY DEF Exists
  <1>4. (j.row \in Returns) \in BOOLEAN
    OBVIOUS
  <1> HIDE DEF moving
  <1>5. k \in JobType /\ JobPlace(k)
    BY <1>1, <1>2, <1>3, <1>4 DEF JobType, TxSteps, JobPlace
  <1>6. Step(w, k) \/ \E o \in Outcomes : Finish(w, o)
    BY DEF Insert, Outcomes, moving
  <1> HIDE DEF k
  <1> QED
    BY <1>1, <1>5, <1>6, StepType, FinishType

\* Deducting from or restoring to a material leaves a well-typed raw_materials row.
LEMMA MovedType ==
    ASSUME WellFormed, NEW j \in JobType, j.row \in Rows, NEW m \in Materials
    PROVE  Moved(j, m) \in Stock
PROOF
  <1>1. stock[m] \in Stock /\ Need[j.row][m] \in Nat /\ PackSize[m] \in Nat
        /\ AutoUnpack \in BOOLEAN
    BY StockAssumption DEF WellFormed, TypeOK
  <1> QED
    BY <1>1, DeductType, RestoreType DEF Moved

LEMMA MoveType ==
    ASSUME WellFormed, NEW w \in Workers, Move(w)
    PROVE  WellFormed'
PROOF
  <1> DEFINE j == job[w]
             m == LockPath[j.row][j.next]
             last == j.next = Len(LockPath[j.row])
             k == [j EXCEPT !.held = @ \cup {m}, !.buf[m] = Moved(j, m), !.next = @ + 1,
                            !.pc = IF last THEN "commit" ELSE "move"]
  <1>1. /\ j \in JobType /\ j.row \in Rows /\ j.pc = "move"
        /\ j.next \in 1..Len(LockPath[j.row])
    BY DEF WellFormed, TypeOK, Move, JobPlace
  <1>2. LockPath[j.row] \in Seq(Materials)
    BY <1>1, StockAssumption
  <1>3. m \in Materials /\ Len(LockPath[j.row]) \in Nat
    BY <1>1, <1>2
  <1>4. Moved(j, m) \in Stock
    BY <1>1, <1>3, MovedType
  <1>5. Step(w, k)
    BY DEF Move
  <1> HIDE DEF m
  <1>6. k \in JobType
    <2>1. [j.buf EXCEPT ![m] = Moved(j, m)] \in [Materials -> Stock]
      BY <1>1, <1>4 DEF JobType
    <2>2. j.held \cup {m} \in SUBSET Materials /\ j.next + 1 \in Nat
      BY <1>1, <1>3 DEF JobType
    <2> QED
      BY <1>1, <2>1, <2>2 DEF JobType, TxSteps
  <1>7. JobPlace(k)
    BY <1>1, <1>3 DEF JobType, JobPlace
  <1> HIDE DEF k
  <1> QED
    BY <1>5, <1>6, <1>7, StepType

LEMMA CommitType ==
    ASSUME WellFormed, NEW w \in Workers, Commit(w)
    PROVE  WellFormed'
PROOF
  <1> DEFINE j == job[w]
             k == Answered(j, "ok")
  <1>1. j \in JobType /\ JobPlace(j) /\ j.pc = "commit" /\ j.row \in Rows
    BY DEF WellFormed, TypeOK, Commit, JobPlace
  <1>2. k \in JobType /\ JobPlace(k)
    <2>1. "ok" \in Outcomes
      BY DEF Outcomes
    <2> QED
      BY <1>1, <2>1, AnsweredType
  <1>3. stock' \in [Materials -> Stock]
    <2>1. stock' = [m \in Materials |-> IF m \in j.held THEN j.buf[m] ELSE stock[m]]
      BY DEF Commit
    <2>2. j.buf \in [Materials -> Stock] /\ stock \in [Materials -> Stock]
      BY <1>1 DEF WellFormed, TypeOK, JobType
    <2> QED
      BY <2>1, <2>2
  <1>4. trx' \in [Sales -> Statuses \cup {"absent"}]
    <2>1. trx' = trx \/ (j.row \in Sales /\ trx' = [trx EXCEPT ![j.row] = NewStatus(j)])
      BY DEF Commit
    <2>2. j.row \in Sales => NewStatus(j) \in Statuses \cup {"absent"}
      BY <1>1 DEF WellFormed, TypeOK, NewStatus, JobType
    <2> QED
      BY <2>1, <2>2 DEF WellFormed, TypeOK
  <1>5. printedRow' \in [Sales -> BOOLEAN]
    BY <1>1 DEF WellFormed, TypeOK, Commit, JobType
  <1>6. booked' \in SUBSET (Wastes \cup Returns)
    BY <1>1 DEF WellFormed, TypeOK, Commit, Rows
  <1>7. returnState' \in [Sales -> {"NONE", "PARTIAL", "FULL"}]
    BY <1>1 DEF WellFormed, TypeOK, Commit, DeriveState
  <1>8. writeOffs' \in [Returns -> Nat]
    BY <1>1 DEF WellFormed, TypeOK, Commit
  <1>9. job' = [job EXCEPT ![w] = k] /\ UNCHANGED <<tills, acked, refused>>
    BY DEF Commit
  <1>10. job' \in [Workers -> JobType] /\ \A v \in Workers : JobPlace(job'[v])
    BY <1>2, <1>9 DEF WellFormed, TypeOK
  <1>11. TypeOK'
    BY <1>3, <1>4, <1>5, <1>6, <1>7, <1>8, <1>9, <1>10 DEF WellFormed, TypeOK, tills
  <1> QED
    BY <1>10, <1>11 DEF WellFormed, JobPlace

LEMMA AnswerType ==
    ASSUME WellFormed, NEW w \in Workers, Answer(w) \/ AnswerLost(w)
    PROVE  WellFormed'
PROOF
  <1> DEFINE j == job[w]
  <1>1. j \in JobType /\ j.row \in Rows
    BY DEF WellFormed, TypeOK, Answer, AnswerLost, JobPlace
  <1>2. job' \in [Workers -> JobType] /\ \A v \in Workers : JobPlace(job'[v])
    BY IdleType DEF WellFormed, TypeOK, Answer, AnswerLost
  <1>3. acked' \in SUBSET (Rows \X Statuses) /\ refused' \in SUBSET (Rows \X Reasons)
    BY <1>1 DEF WellFormed, TypeOK, Answer, AnswerLost, JobType
  <1>4. TypeOK'
    BY <1>2, <1>3 DEF WellFormed, TypeOK, Answer, AnswerLost, tables, tills
  <1> QED
    BY <1>2, <1>4 DEF WellFormed, JobPlace

LEMMA TillType ==
    ASSUME WellFormed,
           \/ \E s \in Sales : TillSell(s) \/ TillPrint(s) \/ TillOpenVoid(s) \/ TillVoid(s)
           \/ \E x \in Wastes : TillWaste(x)
           \/ \E r \in Returns : TillReturn(r)
    PROVE  WellFormed'
PROOF
  <1>1. UNCHANGED <<tables, job, acked, refused>>
    BY DEF TillSell, TillPrint, TillOpenVoid, TillVoid, TillWaste, TillReturn
  <1>2. /\ till' \in [Sales -> Statuses \cup {"unsold"}]
        /\ receipt' \in [Sales -> BOOLEAN]
        /\ voidPage' \in SUBSET Sales
        /\ filed' \in SUBSET (Wastes \cup Returns)
    BY DEF WellFormed, TypeOK, Statuses, TillSell, TillPrint, TillOpenVoid, TillVoid,
           TillWaste, TillReturn
  <1>3. TypeOK'
    BY <1>1, <1>2 DEF WellFormed, TypeOK, tables
  <1> QED
    BY <1>1, <1>3 DEF WellFormed, JobPlace

\* Every step of every request and till keeps the state well-formed.
LEMMA WellFormedStep == WellFormed /\ [Next]_vars => WellFormed'
PROOF
  <1> SUFFICES ASSUME WellFormed, [Next]_vars PROVE WellFormed'
    OBVIOUS
  <1>1. CASE UNCHANGED vars
    BY <1>1 DEF WellFormed, TypeOK, JobPlace, vars, tables, tills
  <1>2. ASSUME NEW w \in Workers, NEW row \in Rows, Receive(w, row) PROVE WellFormed'
    BY <1>2, ReceiveType
  <1>3. ASSUME NEW w \in Workers, LockStep(w) \/ Advance(w) PROVE WellFormed'
    BY <1>3, LockItemsType, InsertType, MoveType, LookupSaleType, LookupOtherType,
       CheckOriginalType, CommitType, AnswerType DEF LockStep, Advance
  <1>4. ASSUME NEW w \in Workers, Abort(w) \/ DeadlockVictim(w) PROVE WellFormed'
    <2>1. "retry" \in Outcomes /\ job[w].pc # "idle" /\ Finish(w, "retry")
      BY <1>4 DEF Abort, DeadlockVictim, InTx, TxSteps, Outcomes
    <2> QED
      BY <2>1, FinishType
  <1> QED
    BY <1>1, <1>2, <1>3, <1>4, TillType DEF Next

\* The tables, requests and tills are always well-typed, for any number of
\* workers and any rows, recipes and packages.
THEOREM TypeCorrect == Spec => []TypeOK
PROOF
  <1>1. Init => WellFormed
    BY IdleType, StockAssumption DEF Init, WellFormed, TypeOK
  <1>2. WellFormed => TypeOK
    BY DEF WellFormed
  <1> QED
    BY <1>1, <1>2, WellFormedStep, PTL DEF Spec
-----------------------------------------------------------------------------
(* Isolation: what a transaction knows between its statements stays true.   *)

\* A request that is not stepping keeps what it knows while the tables stay put.
LEMMA OthersUnaffected ==
    ASSUME NEW v \in Workers, JobInv(job[v]), job'[v] = job[v], UNCHANGED tables
    PROVE  JobInv(job[v])'
PROOF
  <1>1. JobVoids(job[v])' /\ JobFresh(job[v])'
    BY DEF JobInv, JobVoids, JobFresh
  <1>2. JobLookup(job[v])'
    BY DEF JobInv, JobLookup, Exists, tables
  <1>3. JobOriginal(job[v])'
    BY DEF JobInv, JobOriginal, ReturnsOf, tables
  <1>4. JobPath(job[v])'
    BY DEF JobInv, JobPath, Moved, tables
  <1>5. JobReply(job[v])'
    BY DEF JobInv, JobReply, Recorded, Exists, tables
  <1> QED
    BY <1>1, <1>2, <1>3, <1>4, <1>5 DEF JobInv

\* A step of one request that writes no table keeps the invariant, if the request
\* keeps its own part and takes no row or lock another one holds.
LEMMA LocalStep ==
    ASSUME TransactionsIsolated, WellFormed', NEW w \in Workers,
           UNCHANGED tables,
           AckedIsRecorded',
           \A v \in Workers : v # w => job'[v] = job[v],
           JobInv(job[w])',
           RowMutex' \/ job'[w].row \in {job[w].row, NoRow},
           \A v \in Workers : v # w => job'[w].held \cap job[v].held = {},
           \A v \in Workers : v # w =>
               \A s \in Sales : ~(HoldsItems(w, s)' /\ HoldsItems(v, s))
    PROVE  TransactionsIsolated'
PROOF
  <1>1. RowMutex'
    BY DEF TransactionsIsolated, RowMutex
  <1>2. LockMutex'
    BY DEF TransactionsIsolated, LockMutex, HoldsItems
  <1>3. ReturnsSettled'
    BY DEF TransactionsIsolated, ReturnsSettled, tables
  <1>4. ASSUME NEW v \in Workers PROVE JobInv(job[v])'
    BY OthersUnaffected DEF TransactionsIsolated
  <1> QED
    BY <1>1, <1>2, <1>3, <1>4 DEF TransactionsIsolated

LEMMA AckedUnaffected ==
    ASSUME TransactionsIsolated, UNCHANGED <<tables, acked>>
    PROVE  AckedIsRecorded'
PROOF
  BY DEF TransactionsIsolated, AckedIsRecorded, Recorded, Exists, tables

LEMMA FinishIsolated ==
    ASSUME TransactionsIsolated, WellFormed', NEW w \in Workers, NEW o, Finish(w, o),
           o = "ok" => Recorded(job[w].row, job[w].status)
    PROVE  TransactionsIsolated'
PROOF
  <1> DEFINE j == job[w]
  <1>1. job' = [job EXCEPT ![w] = Answered(j, o)] /\ UNCHANGED <<tables, acked>>
    BY DEF Finish
  <1>2. /\ job'[w].pc = "reply" /\ job'[w].row = j.row /\ job'[w].status = j.status
        /\ job'[w].outcome = o /\ job'[w].held = {}
        /\ \A v \in Workers : v # w => job'[v] = job[v]
    BY <1>1 DEF TransactionsIsolated, WellFormed, TypeOK, Answered, Idle
  <1>3. JobInv(job[w])'
    <2>1. JobVoids(job[w])' /\ JobFresh(job[w])' /\ JobLookup(job[w])' /\ JobOriginal(job[w])'
      BY <1>2 DEF TransactionsIsolated, JobInv, JobVoids, JobFresh, JobLookup, JobOriginal
    <2>2. JobPath(job[w])'
      BY <1>2 DEF JobPath
    <2>3. JobReply(job[w])'
      BY <1>1, <1>2 DEF JobReply, Recorded, Exists, tables
    <2> QED
      BY <2>1, <2>2, <2>3 DEF JobInv
  <1>4. \A v \in Workers : v # w => \A s \in Sales : ~(HoldsItems(w, s)' /\ HoldsItems(v, s))
    BY <1>2 DEF HoldsItems
  <1> QED
    BY <1>1, <1>2, <1>3, <1>4, AckedUnaffected, LocalStep

LEMMA ReceiveIsolated ==
    ASSUME RowMutex', TransactionsIsolated, WellFormed',
           NEW w \in Workers, NEW row \in Rows, Receive(w, row)
    PROVE  TransactionsIsolated'
PROOF
  <1>1. /\ UNCHANGED <<tables, acked>>
        /\ \A v \in Workers : v # w => job'[v] = job[v]
        /\ job'[w].pc = "lookup" /\ job'[w].row = row /\ job'[w].held = {}
        /\ row \notin Sales => job'[w].status = "COMPLETED"
        /\ ~job'[w].inserted /\ ~job'[w].restoring
    BY DEF Receive, Step, TransactionsIsolated, WellFormed, TypeOK, Idle
  <1>2. JobInv(job[w])'
    BY <1>1 DEF JobInv, JobVoids, JobFresh, JobLookup, JobOriginal, JobPath, JobReply
  <1>3. \A v \in Workers : v # w => \A s \in Sales : ~(HoldsItems(w, s)' /\ HoldsItems(v, s))
    BY <1>1 DEF HoldsItems
  <1> QED
    BY <1>1, <1>2, <1>3, AckedUnaffected, LocalStep

LEMMA LookupSaleIsolated ==
    ASSUME TransactionsIsolated, WellFormed', NEW w \in Workers, LookupSale(w)
    PROVE  TransactionsIsolated'
PROOF
  <1> DEFINE j == job[w]
             k == [j EXCEPT !.pc = AfterInsert(j, TRUE), !.restoring = TRUE]
  <1>1. /\ j \in JobType /\ j.pc = "lookup" /\ j.row \in Sales /\ j.row \notin Returns
        /\ JobInv(j) /\ j.held = {} /\ ~j.inserted /\ ~j.restoring /\ j.next = 1
        /\ trx[j.row] \in Statuses \cup {"absent"} /\ j.status \in Statuses
    BY RowsAssumption DEF LookupSale, TransactionsIsolated, WellFormed, TypeOK, JobInv, JobFresh,
       JobPlace, JobType
  <1>2. CASE trx[j.row] = "absent" /\ Step(w, [j EXCEPT !.pc = "insert"])
    <2>1. /\ UNCHANGED <<tables, acked>>
          /\ \A v \in Workers : v # w => job'[v] = job[v]
          /\ job'[w] = [j EXCEPT !.pc = "insert"]
      BY <1>2 DEF Step, TransactionsIsolated, WellFormed, TypeOK
    <2>2. /\ job'[w].pc = "insert" /\ job'[w].row = j.row /\ job'[w].held = {}
          /\ ~job'[w].inserted /\ ~job'[w].restoring
      BY <1>1, <2>1 DEF JobType
    <2>3. JobInv(job[w])'
      BY <1>1, <1>2, <2>1, <2>2 DEF JobInv, JobVoids, JobFresh, JobLookup, JobOriginal, JobPath,
         JobReply, Exists, tables
    <2>4. \A v \in Workers : v # w =>
              \A s \in Sales : ~(HoldsItems(w, s)' /\ HoldsItems(v, s))
      BY <1>1, <2>2 DEF HoldsItems
    <2> QED
      BY <2>1, <2>2, <2>3, <2>4, AckedUnaffected, LocalStep
  <1>3. CASE /\ trx[j.row] = "COMPLETED" /\ j.status = "VOIDED" /\ ~printedRow[j.row]
             /\ Step(w, k)
    <2>1. /\ UNCHANGED <<tables, acked>>
          /\ \A v \in Workers : v # w => job'[v] = job[v]
          /\ job'[w] = k
      BY <1>3 DEF Step, TransactionsIsolated, WellFormed, TypeOK
    <2>2. /\ job'[w].pc \in {"move", "commit"} /\ job'[w].row = j.row /\ job'[w].held = {}
          /\ ~job'[w].inserted /\ job'[w].restoring /\ job'[w].status = "VOIDED"
          /\ job'[w].next = 1
          /\ job'[w].pc = "move" <=> Len(LockPath[j.row]) > 0
      BY <1>1, <1>3, <2>1 DEF JobType, AfterInsert
    <2>3. JobVoids(job[w])' /\ JobFresh(job[w])' /\ JobOriginal(job[w])' /\ JobReply(job[w])'
      BY <1>1, <2>2 DEF JobVoids, JobFresh, JobOriginal, JobReply
    <2>4. JobLookup(job[w])'
      BY <1>1, <1>3, <2>1, <2>2 DEF JobLookup, tables
    <2>5. JobPath(job[w])'
      <3>1. Len(LockPath[j.row]) \in Nat
        BY <1>1, StockAssumption DEF Rows
      <3>2. job'[w].pc = "commit" => PathSet(j.row) = {}
        BY <2>2, <3>1 DEF PathSet
      <3>3. Moves(job'[w])
        BY <1>1, <2>2 DEF Moves
      <3> QED
        BY <2>2, <3>2, <3>3 DEF JobPath
    <2>6. \A v \in Workers : v # w =>
              \A s \in Sales : ~(HoldsItems(w, s)' /\ HoldsItems(v, s))
      BY <1>1, <2>2 DEF HoldsItems
    <2> QED
      BY <2>1, <2>2, <2>3, <2>4, <2>5, <2>6, AckedUnaffected, LocalStep DEF JobInv
  <1>4. CASE \E o : Finish(w, o) /\ (o = "ok" => Recorded(j.row, j.status))
    BY <1>4, FinishIsolated
  <1>5. CASE /\ trx[j.row] # "absent"
             /\ j.status # "VOIDED" \/ trx[j.row] = "VOIDED"
             /\ Finish(w, "ok")
    BY <1>1, <1>4, <1>5 DEF Recorded, Exists, Statuses
  <1> HIDE DEF j, k
  <1> QED
    BY <1>1, <1>2, <1>3, <1>4, <1>5 DEF LookupSale, j, k

LEMMA LookupOtherIsolated ==
    ASSUME TransactionsIsolated, WellFormed', NEW w \in Workers, LookupOther(w)
    PROVE  TransactionsIsolated'
PROOF
  <1> DEFINE j == job[w]
             k == [j EXCEPT !.pc = IF j.row \in Returns THEN "original" ELSE "insert"]
  <1>1. /\ j \in JobType /\ j.pc = "lookup" /\ j.row \notin Sales
        /\ JobInv(j) /\ j.held = {} /\ ~j.inserted /\ ~j.restoring /\ j.status = "COMPLETED"
    BY DEF LookupOther, TransactionsIsolated, WellFormed, TypeOK, JobInv, JobFresh, JobVoids
  <1>2. CASE j.row \in booked /\ Finish(w, "ok")
    BY <1>1, <1>2, FinishIsolated DEF Recorded, Exists
  <1>3. CASE Finish(w, "ORIGINAL_ABSENT")
    BY <1>3, FinishIsolated
  <1>4. CASE j.row \notin booked /\ Step(w, k)
    <2>1. /\ UNCHANGED <<tables, acked>>
          /\ \A v \in Workers : v # w => job'[v] = job[v]
          /\ job'[w] = k
      BY <1>4 DEF Step, TransactionsIsolated, WellFormed, TypeOK
    <2>2. /\ job'[w].pc = IF j.row \in Returns THEN "original" ELSE "insert"
          /\ job'[w].row = j.row /\ job'[w].held = {}
          /\ ~job'[w].inserted /\ ~job'[w].restoring /\ job'[w].status = "COMPLETED"
      BY <1>1, <2>1 DEF JobType
    <2>3. JobInv(job[w])'
      BY <1>1, <1>4, <2>1, <2>2 DEF JobInv, JobVoids, JobFresh, JobLookup, JobOriginal, JobPath,
         JobReply, Exists, tables
    <2>4. \A v \in Workers : v # w =>
              \A s \in Sales : ~(HoldsItems(w, s)' /\ HoldsItems(v, s))
      BY <1>1, <2>2 DEF HoldsItems
    <2> QED
      BY <2>1, <2>2, <2>3, <2>4, AckedUnaffected, LocalStep
  <1> QED
    BY <1>2, <1>3, <1>4 DEF LookupOther

LEMMA CheckOriginalIsolated ==
    ASSUME TransactionsIsolated, WellFormed', NEW w \in Workers, CheckOriginal(w)
    PROVE  TransactionsIsolated'
PROOF
  <1> DEFINE j == job[w]
             k == [j EXCEPT !.pc = "lockItems"]
             s == SaleOf[j.row]
  <1>1. /\ j \in JobType /\ j.pc = "original" /\ j.row \in Returns
        /\ JobInv(j) /\ j.held = {} /\ ~j.inserted /\ ~j.restoring /\ ~Exists(j.row)
    BY DEF CheckOriginal, TransactionsIsolated, WellFormed, TypeOK, JobInv, JobFresh, JobLookup
  <1>2. CASE \E o \in Reasons : Finish(w, o)
    BY <1>2, FinishIsolated DEF Reasons
  <1>3. CASE trx[s] = "COMPLETED" /\ printedRow[s] /\ Step(w, k)
    <2>1. /\ UNCHANGED <<tables, acked>>
          /\ \A v \in Workers : v # w => job'[v] = job[v]
          /\ job'[w] = k
      BY <1>3 DEF Step, TransactionsIsolated, WellFormed, TypeOK
    <2>2. /\ job'[w].pc = "lockItems"
          /\ job'[w].row = j.row /\ job'[w].held = {}
          /\ ~job'[w].inserted /\ ~job'[w].restoring /\ job'[w].status = j.status
      BY <1>1, <2>1 DEF JobType
    <2>3. JobInv(job[w])'
      BY <1>1, <1>3, <2>1, <2>2 DEF JobInv, JobVoids, JobFresh, JobLookup, JobOriginal, JobPath,
         JobReply, Exists, tables
    <2>4. \A v \in Workers : v # w =>
              \A t \in Sales : ~(HoldsItems(w, t)' /\ HoldsItems(v, t))
      BY <1>1, <2>2 DEF HoldsItems
    <2> QED
      BY <2>1, <2>2, <2>3, <2>4, AckedUnaffected, LocalStep
  <1> QED
    BY <1>2, <1>3 DEF CheckOriginal, Reasons

LEMMA LockItemsIsolated ==
    ASSUME TransactionsIsolated, WellFormed', NEW w \in Workers, LockItems(w)
    PROVE  TransactionsIsolated'
PROOF
  <1> DEFINE j == job[w]
             s == SaleOf[j.row]
             k == [j EXCEPT !.pc = "insert", !.seen = ReturnsOf(s)]
  <1>1. /\ j \in JobType /\ j.pc = "lockItems" /\ j.row \in Returns
        /\ JobInv(j) /\ j.held = {} /\ ~j.inserted /\ ~j.restoring /\ ~Exists(j.row)
        /\ trx[s] = "COMPLETED" /\ printedRow[s]
    BY DEF LockItems, TransactionsIsolated, WellFormed, TypeOK, JobInv, JobFresh, JobLookup,
       JobOriginal
  <1>2. CASE Finish(w, "OVER_QUANTITY")
    BY <1>2, FinishIsolated
  <1>3. CASE ReturnQty[j.row] <= Returnable(s, ReturnsOf(s)) /\ Step(w, k)
    <2>1. /\ UNCHANGED <<tables, acked>>
          /\ \A v \in Workers : v # w => job'[v] = job[v]
          /\ job'[w] = k
      BY <1>3 DEF Step, TransactionsIsolated, WellFormed, TypeOK
    <2>2. /\ job'[w].pc = "insert"
          /\ job'[w].row = j.row /\ job'[w].held = {} /\ job'[w].seen = ReturnsOf(s)
          /\ ~job'[w].inserted /\ ~job'[w].restoring /\ job'[w].status = j.status
      BY <1>1, <2>1 DEF JobType
    <2>3. JobVoids(job[w])' /\ JobFresh(job[w])' /\ JobPath(job[w])' /\ JobReply(job[w])'
      BY <1>1, <2>2 DEF JobInv, JobVoids, JobFresh, JobPath, JobReply
    <2>4. JobLookup(job[w])'
      BY <1>1, <2>1, <2>2 DEF JobLookup, Exists, tables
    <2>5. JobOriginal(job[w])'
      BY <1>1, <1>3, <2>1, <2>2 DEF JobOriginal, ReturnsOf, Returnable, tables
    <2>6. \A v \in Workers : v # w =>
              \A t \in Sales : ~(HoldsItems(w, t)' /\ HoldsItems(v, t))
      BY <1>1, <2>2 DEF HoldsItems, LockItems, Blocked, WaitsFor
    <2> QED
      BY <2>1, <2>2, <2>3, <2>4, <2>5, <2>6, AckedUnaffected, LocalStep DEF JobInv
  <1> QED
    BY <1>2, <1>3 DEF LockItems

LEMMA InsertIsolated ==
    ASSUME TransactionsIsolated, WellFormed', NEW w \in Workers, Insert(w)
    PROVE  TransactionsIsolated'
PROOF
  <1> DEFINE j == job[w]
             moving == IF j.row \in Returns THEN Restock[j.row] ELSE j.status = "COMPLETED"
             k == [j EXCEPT !.pc = AfterInsert(j, moving), !.inserted = ~Exists(j.row),
                            !.restoring = j.row \in Returns]
  <1>1. /\ j \in JobType /\ j.pc = "insert" /\ j.row \in Rows /\ j.next = 1
        /\ JobInv(j) /\ j.held = {} /\ ~j.inserted /\ ~j.restoring /\ ~Exists(j.row)
    BY DEF Insert, TransactionsIsolated, WellFormed, TypeOK, JobInv, JobFresh, JobLookup, JobPlace
  <1>2. CASE Finish(w, "retry")
    BY <1>2, FinishIsolated
  <1>3. CASE Step(w, k)
    <2>1. /\ UNCHANGED <<tables, acked>>
          /\ \A v \in Workers : v # w => job'[v] = job[v]
          /\ job'[w] = k
      BY <1>3 DEF Step, TransactionsIsolated, WellFormed, TypeOK
    <2> HIDE DEF moving
    <2>2. /\ job'[w].pc = AfterInsert(j, moving)
          /\ job'[w].row = j.row /\ job'[w].held = {} /\ job'[w].seen = j.seen
          /\ job'[w].inserted /\ job'[w].restoring = (j.row \in Returns)
          /\ job'[w].status = j.status /\ job'[w].next = 1
      BY <1>1, <2>1 DEF JobType
    <2>3. /\ job'[w].pc \in {"move", "commit"}
          /\ job'[w].pc = "move" <=> moving /\ Len(LockPath[j.row]) > 0
      BY <2>2 DEF AfterInsert
    <2>4. JobVoids(job[w])' /\ JobFresh(job[w])' /\ JobReply(job[w])'
      BY <1>1, <2>2, <2>3 DEF JobInv, JobVoids, JobFresh, JobReply
    <2>5. JobLookup(job[w])'
      BY <1>1, <2>1, <2>2, <2>3, RowsAssumption DEF JobLookup, Exists, tables
    <2>6. JobOriginal(job[w])'
      BY <1>1, <2>1, <2>2, <2>3 DEF JobInv, JobOriginal, ReturnsOf, Returnable, tables
    <2>7. JobPath(job[w])'
      <3>1. Len(LockPath[j.row]) \in Nat
        BY <1>1, StockAssumption
      <3>2. Len(LockPath[j.row]) = 0 => PathSet(j.row) = {}
        BY DEF PathSet
      <3>3. Moves(job'[w]) <=> moving
        BY <2>2 DEF Moves, moving
      <3> QED
        BY <2>2, <2>3, <3>1, <3>2, <3>3 DEF JobPath
    <2>8. \A v \in Workers : v # w =>
              \A t \in Sales : ~(HoldsItems(w, t)' /\ HoldsItems(v, t))
      BY <1>1, <2>2 DEF HoldsItems, TransactionsIsolated, LockMutex
    <2> QED
      BY <2>1, <2>2, <2>4, <2>5, <2>6, <2>7, <2>8, AckedUnaffected, LocalStep DEF JobInv
  <1> QED
    BY <1>2, <1>3 DEF Insert

\* A material is locked before it is read and kept until the end.
LEMMA MoveIsolated ==
    ASSUME TransactionsIsolated, WellFormed', NEW w \in Workers, Move(w)
    PROVE  TransactionsIsolated'
PROOF
  <1> DEFINE j == job[w]
             path == LockPath[j.row]
             m == path[j.next]
             last == j.next = Len(path)
             k == [j EXCEPT !.held = @ \cup {m}, !.buf[m] = Moved(j, m), !.next = @ + 1,
                            !.pc = IF last THEN "commit" ELSE "move"]
  <1>1. /\ j \in JobType /\ j.pc = "move" /\ j.row \in Rows /\ JobInv(j)
        /\ j.next \in 1..Len(path)
        /\ Moves(j) /\ j.held = {path[i] : i \in 1..(j.next - 1)}
        /\ \A n \in j.held : j.buf[n] = Moved(j, n)
    BY DEF Move, TransactionsIsolated, WellFormed, TypeOK, JobInv, JobPath, JobPlace
  <1>2. m \in Materials /\ Len(path) \in Nat /\ path \in Seq(Materials)
    BY <1>1, StockAssumption, SMTT(30)
  <1>3. /\ UNCHANGED <<tables, acked>>
        /\ \A v \in Workers : v # w => job'[v] = job[v]
        /\ job'[w] = k
    BY DEF Move, Step, TransactionsIsolated, WellFormed, TypeOK
  <1>4. /\ job'[w].pc = (IF last THEN "commit" ELSE "move")
        /\ job'[w].row = j.row /\ job'[w].held = j.held \cup {m} /\ job'[w].seen = j.seen
        /\ job'[w].inserted = j.inserted /\ job'[w].restoring = j.restoring
        /\ job'[w].status = j.status /\ job'[w].next = j.next + 1
    BY <1>1, <1>3 DEF JobType
  <1>5. /\ job'[w].buf[m] = Moved(j, m)
        /\ \A n \in Materials : n # m => job'[w].buf[n] = j.buf[n]
    BY <1>1, <1>2, <1>3 DEF JobType
  <1>6. \A v \in Workers : v # w => m \notin job[v].held
    BY <1>1 DEF Move, Blocked, WaitsFor
  <1> HIDE DEF k
  <1>7. JobVoids(job[w])' /\ JobFresh(job[w])' /\ JobReply(job[w])'
    BY <1>1, <1>4 DEF JobInv, JobVoids, JobFresh, JobReply
  <1>8. JobLookup(job[w])'
    BY <1>1, <1>3, <1>4 DEF JobInv, JobLookup, tables
  <1>9. JobOriginal(job[w])'
    BY <1>1, <1>3, <1>4 DEF JobInv, JobOriginal, ReturnsOf, Returnable, tables
  <1>10. JobPath(job[w])'
    <2>1. j.held \cup {m} = {path[i] : i \in 1..j.next}
      BY <1>1
    <2>2. Moves(job'[w])
      BY <1>1, <1>4 DEF Moves
    <2>3. \A n \in job'[w].held : job'[w].buf[n] = Moved(job[w], n)'
      <3>1. \A n \in Materials : Moved(j, n) = Moved(job[w], n)'
        BY <1>3, <1>4 DEF Moved, tables
      <3>2. j.held \subseteq Materials
        BY <1>1 DEF JobType
      <3> QED
        BY <1>1, <1>2, <1>4, <1>5, <3>1, <3>2
    <2>4. last => job'[w].held = PathSet(j.row)
      BY <1>4, <2>1 DEF PathSet
    <2>5. ~last => job'[w].held = {path[i] : i \in 1..(job'[w].next - 1)}
      BY <1>1, <1>4, <2>1
    <2> QED
      BY <1>4, <2>2, <2>3, <2>4, <2>5 DEF JobPath
  <1>11. \A v \in Workers : v # w => job'[w].held \cap job[v].held = {}
    BY <1>4, <1>6 DEF TransactionsIsolated, LockMutex
  <1>12. \A v \in Workers : v # w =>
              \A t \in Sales : ~(HoldsItems(w, t)' /\ HoldsItems(v, t))
    BY <1>1, <1>4 DEF HoldsItems, TransactionsIsolated, LockMutex
  <1> QED
    BY <1>3, <1>4, <1>7, <1>8, <1>9, <1>10, <1>11, <1>12, AckedUnaffected, LocalStep DEF JobInv

LEMMA AnswerIsolated ==
    ASSUME TransactionsIsolated, WellFormed', NEW w \in Workers, Answer(w) \/ AnswerLost(w)
    PROVE  TransactionsIsolated'
PROOF
  <1> DEFINE j == job[w]
  <1>1. /\ UNCHANGED tables
        /\ \A v \in Workers : v # w => job'[v] = job[v]
        /\ job'[w] = Idle
        /\ job'[w].pc = "idle" /\ job'[w].row = NoRow /\ job'[w].held = {}
        /\ job'[w].status = "COMPLETED"
    BY DEF Answer, AnswerLost, TransactionsIsolated, WellFormed, TypeOK, Idle
  <1>2. AckedIsRecorded'
    <2>1. acked' = acked \/ (j.pc = "reply" /\ j.outcome = "ok" /\ acked' = acked \cup {<<j.row, j.status>>})
      BY DEF Answer, AnswerLost
    <2>2. j.pc = "reply" /\ j.outcome = "ok" => Recorded(j.row, j.status)
      BY DEF TransactionsIsolated, JobInv, JobReply
    <2> QED
      BY <1>1, <2>1, <2>2 DEF TransactionsIsolated, AckedIsRecorded, Recorded, Exists, tables
  <1>3. JobInv(job[w])'
    BY <1>1 DEF JobInv, JobVoids, JobFresh, JobLookup, JobOriginal, JobPath, JobReply
  <1>4. \A v \in Workers : v # w => \A s \in Sales : ~(HoldsItems(w, s)' /\ HoldsItems(v, s))
    BY <1>1 DEF HoldsItems
  <1> QED
    BY <1>1, <1>2, <1>3, <1>4, LocalStep

\* What the tills do, or nothing at all, leaves requests and tables alone.
LEMMA TillIsolated ==
    ASSUME TransactionsIsolated, WellFormed', UNCHANGED <<tables, job, acked>>
    PROVE  TransactionsIsolated'
PROOF
  <1>1. ASSUME NEW v \in Workers PROVE JobInv(job[v])'
    BY OthersUnaffected DEF TransactionsIsolated
  <1>2. RowMutex' /\ LockMutex' /\ ReturnsSettled'
    BY DEF TransactionsIsolated, RowMutex, LockMutex, HoldsItems, ReturnsSettled, tables
  <1> QED
    BY <1>1, <1>2, AckedUnaffected DEF TransactionsIsolated

\* A commit writes its own row and nothing of another row; a settled, printed
\* sale stays so, and what was recorded stays recorded.
LEMMA CommitTables ==
    ASSUME TransactionsIsolated, NEW w \in Workers, Commit(w)
    PROVE  /\ \A s \in Sales : s # job[w].row =>
                  trx'[s] = trx[s] /\ printedRow'[s] = printedRow[s]
           /\ job[w].row \in Sales => trx'[job[w].row] = job[w].status /\ booked' = booked
           /\ job[w].row \notin Sales => booked' = booked \cup {job[w].row}
           /\ \A s \in Sales : trx[s] = "COMPLETED" /\ printedRow[s] =>
                  trx'[s] = "COMPLETED" /\ printedRow'[s]
           /\ \A row, status : Recorded(row, status) => Recorded(row, status)'
PROOF
  <1> DEFINE j == job[w]
  <1>1. /\ j \in JobType /\ j.pc = "commit" /\ j.row \in Rows /\ JobInv(j)
        /\ trx \in [Sales -> Statuses \cup {"absent"}]
        /\ printedRow \in [Sales -> BOOLEAN]
    BY DEF Commit, TransactionsIsolated, WellFormed, TypeOK, JobPlace
  <1>2. CASE j.row \in Sales
    <2>1. /\ booked' = booked
          /\ trx' = [trx EXCEPT ![j.row] = NewStatus(j)]
          /\ printedRow' = [printedRow EXCEPT ![j.row] = IF j.inserted THEN j.printed ELSE @]
      BY <1>2 DEF Commit
    <2>2. \/ j.inserted /\ ~j.restoring /\ trx[j.row] = "absent"
          \/ /\ ~j.inserted /\ j.restoring /\ j.status = "VOIDED"
             /\ trx[j.row] = "COMPLETED" /\ ~printedRow[j.row]
      BY <1>1, <1>2 DEF JobInv, JobLookup
    <2>3. trx'[j.row] = j.status /\ j.status \in Statuses
      BY <1>1, <1>2, <2>1, <2>2 DEF NewStatus, JobType
    <2>4. \A s \in Sales : s # j.row => trx'[s] = trx[s] /\ printedRow'[s] = printedRow[s]
      BY <1>1, <2>1
    <2>5. \A s \in Sales : trx[s] = "COMPLETED" /\ printedRow[s] =>
              trx'[s] = "COMPLETED" /\ printedRow'[s]
      BY <1>1, <2>2, <2>4
    <2>6. \A row, status : Recorded(row, status) => Recorded(row, status)'
      BY <1>1, <2>1, <2>2, <2>3, <2>4 DEF Recorded, Exists, Statuses
    <2> QED
      BY <1>2, <2>1, <2>3, <2>4, <2>5, <2>6
  <1>3. CASE j.row \notin Sales
    <2>1. booked' = booked \cup {j.row} /\ trx' = trx /\ printedRow' = printedRow
      BY <1>3 DEF Commit
    <2> QED
      BY <1>3, <2>1 DEF Recorded, Exists
  <1> QED
    BY <1>2, <1>3

\* Another request's transaction keeps what it knows when w commits.
LEMMA CommitOthers ==
    ASSUME TransactionsIsolated, NEW w \in Workers, Commit(w),
           NEW v \in Workers, v # w
    PROVE  JobInv(job[v])'
PROOF
  <1> DEFINE i == job[v]
             j == job[w]
  <1>1. /\ job'[v] = i /\ i \in JobType /\ JobInv(i) /\ JobPlace(i)
        /\ j \in JobType /\ j.pc = "commit" /\ j.row \in Rows /\ JobInv(j)
    BY DEF Commit, TransactionsIsolated, WellFormed, TypeOK, JobPlace
  <1>2. i.row # j.row
    BY <1>1, RowsAssumption DEF TransactionsIsolated, RowMutex
  <1>3. JobVoids(job[v])' /\ JobFresh(job[v])'
    BY <1>1 DEF JobInv, JobVoids, JobFresh
  <1>4. JobLookup(job[v])'
    <2>1. i.row \in Sales => trx'[i.row] = trx[i.row] /\ printedRow'[i.row] = printedRow[i.row]
      BY <1>2, CommitTables
    <2>2. i.row \in booked' <=> i.row \in booked
      BY <1>2, CommitTables
    <2> QED
      BY <1>1, <2>1, <2>2 DEF JobInv, JobLookup, Exists
  <1>5. JobOriginal(job[v])'
    <2> SUFFICES ASSUME i.row \in Returns PROVE JobOriginal(job[v])'
      BY <1>1 DEF JobOriginal
    <2>1. SaleOf[i.row] \in Sales
      BY RowsAssumption
    <2>2. trx[SaleOf[i.row]] = "COMPLETED" /\ printedRow[SaleOf[i.row]] =>
              trx'[SaleOf[i.row]] = "COMPLETED" /\ printedRow'[SaleOf[i.row]]
      BY <2>1, CommitTables
    <2>3. i.pc \in {"insert", "move", "commit"} =>
              ReturnsOf(SaleOf[i.row])' = ReturnsOf(SaleOf[i.row])
      <3> SUFFICES ASSUME i.pc \in {"insert", "move", "commit"}
                   PROVE  ReturnsOf(SaleOf[i.row])' = ReturnsOf(SaleOf[i.row])
        OBVIOUS
      <3>1. HoldsItems(v, SaleOf[i.row])
        BY DEF HoldsItems
      <3>2. ~HoldsItems(w, SaleOf[i.row])
        BY <2>1, <3>1 DEF TransactionsIsolated, LockMutex
      <3>3. j.row \in Returns => SaleOf[j.row] # SaleOf[i.row]
        BY <1>1, <3>2 DEF HoldsItems
      <3>4. booked' = booked \/ booked' = booked \cup {j.row}
        BY CommitTables
      <3>5. \A r \in Returns : SaleOf[r] = SaleOf[i.row] => (r \in booked' <=> r \in booked)
        BY <3>3, <3>4
      <3> QED
        BY <1>1, <3>5 DEF ReturnsOf
    <2> QED
      BY <1>1, <2>2, <2>3 DEF JobInv, JobOriginal, Returnable
  <1>6. JobPath(job[v])'
    <2>1. \A m \in i.held : stock'[m] = stock[m]
      <3>1. i.held \subseteq Materials /\ i.held \cap j.held = {}
        BY <1>1 DEF JobType, TransactionsIsolated, LockMutex
      <3>2. stock' = [m \in Materials |-> IF m \in j.held THEN j.buf[m] ELSE stock[m]]
        BY DEF Commit
      <3> QED
        BY <3>1, <3>2
    <2>2. \A m \in i.held : Moved(i, m) = Moved(job[v], m)'
      BY <1>1, <2>1 DEF Moved
    <2> QED
      BY <1>1, <2>2 DEF JobInv, JobPath
  <1>7. JobReply(job[v])'
    BY <1>1, CommitTables DEF JobInv, JobReply
  <1> QED
    BY <1>3, <1>4, <1>5, <1>6, <1>7 DEF JobInv

LEMMA CommitIsolated ==
    ASSUME TransactionsIsolated, WellFormed', NEW w \in Workers, Commit(w)
    PROVE  TransactionsIsolated'
PROOF
  <1> DEFINE j == job[w]
  <1>1. /\ j \in JobType /\ j.pc = "commit" /\ j.row \in Rows /\ JobInv(j)
    BY DEF Commit, TransactionsIsolated, WellFormed, TypeOK, JobPlace
  <1>2. /\ \A v \in Workers : v # w => job'[v] = job[v]
        /\ job'[w].pc = "reply" /\ job'[w].row = j.row /\ job'[w].status = j.status
        /\ job'[w].outcome = "ok" /\ job'[w].held = {}
        /\ UNCHANGED acked
    BY DEF Commit, TransactionsIsolated, WellFormed, TypeOK, Answered, Idle
  <1>3. JobInv(job[w])'
    <2>1. JobVoids(job[w])' /\ JobFresh(job[w])' /\ JobLookup(job[w])' /\ JobOriginal(job[w])'
          /\ JobPath(job[w])'
      BY <1>1, <1>2 DEF JobInv, JobVoids, JobFresh, JobLookup, JobOriginal, JobPath
    <2>2. Recorded(j.row, j.status)'
      <3>1. j.status \in Statuses /\ (j.row \notin Sales => j.status = "COMPLETED")
        BY <1>1 DEF JobType, JobInv, JobVoids
      <3> QED
        BY <1>1, <1>2, <3>1, CommitTables DEF Recorded, Exists, Statuses
    <2>3. JobReply(job[w])'
      BY <1>2, <2>2 DEF JobReply, Recorded, Exists
    <2> QED
      BY <2>1, <2>3 DEF JobInv
  <1>4. RowMutex' /\ LockMutex'
    BY <1>1, <1>2 DEF TransactionsIsolated, RowMutex, LockMutex, HoldsItems
  <1>5. ReturnsSettled'
    <2> SUFFICES ASSUME NEW r \in Returns, r \in booked'
                 PROVE  (trx[SaleOf[r]] = "COMPLETED" /\ printedRow[SaleOf[r]])'
      BY DEF ReturnsSettled
    <2>1. r \in booked \/ (r = j.row /\ j.row \in Returns)
      BY CommitTables
    <2>2. trx[SaleOf[r]] = "COMPLETED" /\ printedRow[SaleOf[r]]
      BY <1>1, <2>1 DEF TransactionsIsolated, ReturnsSettled, JobInv, JobOriginal
    <2>3. SaleOf[r] \in Sales
      BY RowsAssumption
    <2> QED
      BY <2>2, <2>3, CommitTables
  <1>6. AckedIsRecorded'
    BY <1>2, CommitTables DEF TransactionsIsolated, AckedIsRecorded
  <1>7. ASSUME NEW v \in Workers PROVE JobInv(job[v])'
    BY <1>3, CommitOthers
  <1> QED
    BY <1>4, <1>5, <1>6, <1>7 DEF TransactionsIsolated

\* RowMutex' is what no handler sees to; it is needed where a row is received.
LEMMA IsolatedStep ==
    ASSUME TransactionsIsolated, RowMutex', [Next]_vars
    PROVE  TransactionsIsolated'
PROOF
  <1>1. WellFormed'
    BY WellFormedStep DEF TransactionsIsolated
  <1>2. CASE UNCHANGED vars
    BY <1>1, <1>2, TillIsolated DEF vars
  <1>3. ASSUME \/ \E s \in Sales : TillSell(s) \/ TillPrint(s) \/ TillOpenVoid(s) \/ TillVoid(s)
               \/ \E x \in Wastes : TillWaste(x)
               \/ \E r \in Returns : TillReturn(r)
        PROVE  TransactionsIsolated'
    <2>1. UNCHANGED <<tables, job, acked>>
      BY <1>3 DEF TillSell, TillPrint, TillOpenVoid, TillVoid, TillWaste, TillReturn
    <2> QED
      BY <1>1, <2>1, TillIsolated
  <1>4. ASSUME NEW w \in Workers, NEW row \in Rows, Receive(w, row) PROVE TransactionsIsolated'
    BY <1>1, <1>4, ReceiveIsolated
  <1>5. ASSUME NEW w \in Workers, LockStep(w) \/ Advance(w) PROVE TransactionsIsolated'
    BY <1>1, <1>5, LockItemsIsolated, InsertIsolated, MoveIsolated, LookupSaleIsolated,
       LookupOtherIsolated, CheckOriginalIsolated, CommitIsolated, AnswerIsolated
       DEF LockStep, Advance
  <1>6. ASSUME NEW w \in Workers, Abort(w) \/ DeadlockVictim(w) PROVE TransactionsIsolated'
    BY <1>1, <1>6, FinishIsolated DEF Abort, DeadlockVictim
  <1> QED
    BY <1>2, <1>3, <1>4, <1>5, <1>6 DEF Next

LEMMA IsolatedInit == Init => TransactionsIsolated
PROOF
  <1> SUFFICES ASSUME Init PROVE TransactionsIsolated
    OBVIOUS
  <1>1. WellFormed
    BY IdleType, StockAssumption DEF Init, WellFormed, TypeOK
  <1>2. ASSUME NEW w \in Workers PROVE JobInv(job[w])
    BY DEF Init, Idle, JobInv, JobVoids, JobFresh, JobLookup, JobOriginal, JobPath, JobReply
  <1>3. RowMutex /\ LockMutex /\ ReturnsSettled /\ AckedIsRecorded
    BY DEF Init, Idle, RowMutex, LockMutex, HoldsItems, ReturnsSettled, AckedIsRecorded
  <1> QED
    BY <1>1, <1>2, <1>3 DEF TransactionsIsolated

\* As long as no two requests carry the same row at once - which the server does not
\* see to, and the till only while it waits for its answers - what a transaction found
\* about its row, the original sale and the stock it locked stays true until it commits.
THEOREM Isolation == Spec /\ []RowMutex => []TransactionsIsolated
PROOF
  <1>1. TransactionsIsolated /\ RowMutex' /\ [Next]_vars => TransactionsIsolated'
    BY IsolatedStep
  <1> QED
    BY <1>1, IsolatedInit, PTL DEF Spec

\* As long as no two requests carry the same row at once, a row acknowledged to a till
\* is on the server's books in the form it was sent.  (AckedBooked is what is left of
\* this when they do; OverlappingResend shows that the form may then be another.)
THEOREM AckedCorrect == Spec /\ []RowMutex => []AckedIsRecorded
PROOF
  <1>1. TransactionsIsolated => AckedIsRecorded
    BY DEF TransactionsIsolated
  <1> QED
    BY <1>1, Isolation, PTL

\* A request that keeps its row, drops it or takes one nobody has.
LEMMA RowKept ==
    ASSUME WellFormed, RowMutex, NEW w \in Workers, NEW k, job' = [job EXCEPT ![w] = k],
           k.row \in {job[w].row, NoRow} \/ \A v \in Workers : job[v].row # k.row
    PROVE  RowMutex'
PROOF
  <1>1. job'[w] = k /\ \A v \in Workers : v # w => job'[v] = job[v]
    BY DEF WellFormed, TypeOK
  <1> QED
    BY <1>1 DEF RowMutex

\* No statement of a transaction changes the row the request carries.
LEMMA StepKeepsRow ==
    ASSUME WellFormed, RowMutex, NEW w \in Workers, NEW k, k.row = job[w].row, Step(w, k)
    PROVE  RowMutex'
PROOF
  BY RowKept DEF Step

LEMMA FinishKeepsRow ==
    ASSUME WellFormed, RowMutex, NEW w \in Workers, NEW o, Finish(w, o)
    PROVE  RowMutex'
PROOF
  <1>1. Answered(job[w], o).row = job[w].row
    BY DEF Answered, Idle
  <1> QED
    BY <1>1, RowKept DEF Finish

LEMMA TransactionKeepsRow ==
    ASSUME WellFormed, RowMutex, NEW w \in Workers,
           \/ LookupSale(w) \/ LookupOther(w) \/ CheckOriginal(w) \/ LockItems(w)
           \/ Insert(w) \/ Move(w) \/ Commit(w)
    PROVE  RowMutex'
PROOF
  <1> DEFINE j == job[w]
  <1>1. j \in JobType
    BY DEF WellFormed, TypeOK
  <1>2. CASE LookupSale(w)
    <2> DEFINE k1 == [j EXCEPT !.pc = "insert"]
               k2 == [j EXCEPT !.pc = AfterInsert(j, TRUE), !.restoring = TRUE]
    <2>1. k1.row = j.row /\ k2.row = j.row
      BY <1>1 DEF JobType
    <2>2. Step(w, k1) \/ Step(w, k2) \/ \E o \in Outcomes : Finish(w, o)
      BY <1>2 DEF LookupSale, Outcomes, Reasons
    <2> HIDE DEF k1, k2
    <2> QED
      BY <2>1, <2>2, StepKeepsRow, FinishKeepsRow
  <1>3. CASE LookupOther(w)
    <2> DEFINE k == [j EXCEPT !.pc = IF j.row \in Returns THEN "original" ELSE "insert"]
    <2>1. k.row = j.row
      BY <1>1 DEF JobType
    <2>2. Step(w, k) \/ \E o \in Outcomes : Finish(w, o)
      BY <1>3 DEF LookupOther, Outcomes, Reasons
    <2> HIDE DEF k
    <2> QED
      BY <2>1, <2>2, StepKeepsRow, FinishKeepsRow
  <1>4. CASE CheckOriginal(w)
    <2> DEFINE k == [j EXCEPT !.pc = "lockItems"]
    <2>1. k.row = j.row
      BY <1>1 DEF JobType
    <2>2. Step(w, k) \/ \E o \in Outcomes : Finish(w, o)
      BY <1>4 DEF CheckOriginal, Outcomes, Reasons
    <2> HIDE DEF k
    <2> QED
      BY <2>1, <2>2, StepKeepsRow, FinishKeepsRow
  <1>5. CASE LockItems(w)
    <2> DEFINE k == [j EXCEPT !.pc = "insert", !.seen = ReturnsOf(SaleOf[j.row])]
    <2>1. k.row = j.row
      BY <1>1 DEF JobType
    <2>2. Step(w, k) \/ \E o \in Outcomes : Finish(w, o)
      BY <1>5 DEF LockItems, Outcomes, Reasons
    <2> HIDE DEF k
    <2> QED
      BY <2>1, <2>2, StepKeepsRow, FinishKeepsRow
  <1>6. CASE Insert(w)
    <2> DEFINE moving == IF j.row \in Returns THEN Restock[j.row] ELSE j.status = "COMPLETED"
               k == [j EXCEPT !.pc = AfterInsert(j, moving), !.inserted = ~Exists(j.row),
                              !.restoring = j.row \in Returns]
    <2>1. k.row = j.row
      BY <1>1 DEF JobType
    <2>2. Step(w, k) \/ \E o \in Outcomes : Finish(w, o)
      BY <1>6 DEF Insert, Outcomes, Reasons
    <2> HIDE DEF k
    <2> QED
      BY <2>1, <2>2, StepKeepsRow, FinishKeepsRow
  <1>7. CASE Move(w)
    <2> DEFINE m == LockPath[j.row][j.next]
               k == [j EXCEPT !.held = @ \cup {m}, !.buf[m] = Moved(j, m), !.next = @ + 1,
                       !.pc = IF j.next = Len(LockPath[j.row]) THEN "commit" ELSE "move"]
    <2>1. k.row = j.row
      BY <1>1 DEF JobType
    <2>2. Step(w, k)
      BY <1>7 DEF Move
    <2> HIDE DEF k
    <2> QED
      BY <2>1, <2>2, StepKeepsRow, FinishKeepsRow
  <1>8. CASE Commit(w)
    <2>1. Answered(j, "ok").row = j.row
      BY DEF Answered, Idle
    <2> QED
      BY <1>8, <2>1, RowKept DEF Commit
  <1> QED
    BY <1>2, <1>3, <1>4, <1>5, <1>6, <1>7, <1>8

\* Tills that wait for every answer before they send a row again meet the hypothesis
\* of these theorems: the specification the runs check is one of its instances.
THEOREM WaitingTills == OneInFlightPerRow => (Spec => []RowMutex)
PROOF
  <1> SUFFICES ASSUME OneInFlightPerRow PROVE Spec => []RowMutex
    OBVIOUS
  <1>1. Init => WellFormed /\ RowMutex
    BY IsolatedInit DEF TransactionsIsolated
  <1>2. ASSUME WellFormed, RowMutex, [Next]_vars PROVE RowMutex'
    <2>1. CASE UNCHANGED job
      BY <1>2, <2>1 DEF RowMutex
    <2>2. ASSUME NEW w \in Workers, NEW row \in Rows, Receive(w, row) PROVE RowMutex'
      <3> DEFINE k == [Idle EXCEPT !.pc = "lookup", !.row = row,
                          !.status = IF row \in Sales THEN till[row] ELSE "COMPLETED",
                          !.printed = IF row \in Sales THEN receipt[row] ELSE FALSE]
      <3>1. k.row = row /\ job' = [job EXCEPT ![w] = k]
        BY <2>2 DEF Receive, Step, Idle
      <3>2. \A v \in Workers : job[v].row # row
        BY <2>2 DEF Receive
      <3> HIDE DEF k
      <3> QED
        BY <1>2, <3>1, <3>2, RowKept
    <2>3. ASSUME NEW w \in Workers, Answer(w) \/ AnswerLost(w) PROVE RowMutex'
      <3>1. job' = [job EXCEPT ![w] = Idle] /\ Idle.row = NoRow
        BY <2>3 DEF Answer, AnswerLost, Idle
      <3> QED
        BY <1>2, <3>1, RowKept
    <2>4. ASSUME NEW w \in Workers, LockStep(w) \/ Advance(w) PROVE RowMutex'
      BY <1>2, <2>3, <2>4, TransactionKeepsRow DEF LockStep, Advance
    <2>5. ASSUME NEW w \in Workers, Abort(w) \/ DeadlockVictim(w) PROVE RowMutex'
      BY <1>2, <2>5, FinishKeepsRow DEF Abort, DeadlockVictim
    <2>6. ASSUME \/ \E s \in Sales : TillSell(s) \/ TillPrint(s) \/ TillOpenVoid(s) \/ TillVoid(s)
                 \/ \E x \in Wastes : TillWaste(x)
                 \/ \E r \in Returns : TillReturn(r)
          PROVE  UNCHANGED job
      BY <2>6 DEF TillSell, TillPrint, TillOpenVoid, TillVoid, TillWaste, TillReturn
    <2> QED
      BY <1>2, <2>1, <2>2, <2>3, <2>4, <2>5, <2>6 DEF Next, vars
  <1>3. WellFormed /\ RowMutex /\ [Next]_vars => (WellFormed /\ RowMutex)'
    BY <1>2, WellFormedStep
  <1> QED
    BY <1>1, <1>3, PTL DEF Spec
-----------------------------------------------------------------------------
(* The handlers implement SaleLedger. *)

LEMMA LedgerReturnable ==
    ASSUME NEW s \in Sales
    PROVE  /\ Ledger!ReturnsOf(s) = ReturnsOf(s)
           /\ Ledger!Returnable(s) = Returnable(s, ReturnsOf(s))
PROOF
  <1>1. Ledger!ReturnsOf(s) = ReturnsOf(s)
    BY DEF Ledger!ReturnsOf, ReturnsOf
  <1> QED
    BY <1>1 DEF Ledger!Returnable, Returnable

\* What a committing transaction writes to the stock is what its row moves.
LEMMA CommitUnits ==
    ASSUME TransactionsIsolated, NEW w \in Workers, Commit(w), NEW m \in Materials
    PROVE  Units(stock'[m], PackSize[m]) =
               IF ~Moves(job[w]) THEN Units(stock[m], PackSize[m])
               ELSE IF job[w].restoring
               THEN Units(stock[m], PackSize[m]) + Need[job[w].row][m]
               ELSE Units(stock[m], PackSize[m]) - Need[job[w].row][m]
PROOF
  <1> DEFINE j == job[w]
             size == PackSize[m]
             qty == Need[j.row][m]
  <1>1. /\ j \in JobType /\ j.row \in Rows
        /\ j.held = IF Moves(j) THEN PathSet(j.row) ELSE {}
        /\ \A n \in j.held : j.buf[n] = Moved(j, n)
    BY DEF Commit, TransactionsIsolated, WellFormed, TypeOK, JobPlace, JobInv, JobPath
  <1>2. stock'[m] = IF m \in j.held THEN Moved(j, m) ELSE stock[m]
    BY <1>1 DEF Commit
  <1>3. stock[m] \in Stock /\ size \in Nat /\ qty \in Nat /\ AutoUnpack \in BOOLEAN
    BY <1>1, StockAssumption DEF TransactionsIsolated, WellFormed, TypeOK
  <1>4. Units(stock[m], size) \in Int
    <2>1. stock[m].pkg * size \in Int
      BY <1>3 DEF Stock
    <2> QED
      BY <1>3, <2>1 DEF Units, Stock
  <1>5. CASE m \in j.held
    <2>1. Moves(j) /\ stock'[m] = Moved(j, m)
      BY <1>1, <1>2, <1>5
    <2>2. CASE j.restoring
      BY <1>3, <2>1, <2>2, RestoreUnits DEF Moved
    <2>3. CASE ~j.restoring
      BY <1>3, <2>1, <2>3, DeductUnits DEF Moved
    <2> QED
      BY <2>1, <2>2, <2>3
  <1>6. CASE m \notin j.held
    <2>1. Moves(j) => qty = 0
      <3>1. Moves(j) => ~(qty > 0)
        BY <1>1, <1>6, PathAssumption DEF PathSet
      <3> QED
        BY <1>3, <3>1
    <2> QED
      BY <1>2, <1>4, <1>6, <2>1
  <1> QED
    BY <1>5, <1>6

\* Committing is what the ledger sees of a request, as one of its actions.
LEMMA CommitRefines ==
    ASSUME TransactionsIsolated, NEW w \in Workers, Commit(w)
    PROVE  Ledger!Next
PROOF
  <1> DEFINE j == job[w]
             r == j.row
             s == SaleOf[r]
  <1>1. /\ j \in JobType /\ j.pc = "commit" /\ r \in Rows /\ JobInv(j)
        /\ trx \in [Sales -> Statuses \cup {"absent"}]
    BY DEF Commit, TransactionsIsolated, WellFormed, TypeOK, JobPlace
  <1>2. \A m \in Materials :
          Units(stock'[m], PackSize[m]) =
               IF ~Moves(j) THEN Units(stock[m], PackSize[m])
               ELSE IF j.restoring
               THEN Units(stock[m], PackSize[m]) + Need[r][m]
               ELSE Units(stock[m], PackSize[m]) - Need[r][m]
    BY CommitUnits
  <1>3. /\ ~Moves(j) => UNCHANGED [m \in Materials |-> Units(stock[m], PackSize[m])]
        /\ Moves(j) /\ j.restoring => Ledger!Put(r)
        /\ Moves(j) /\ ~j.restoring => Ledger!Take(r)
    BY <1>2 DEF Ledger!Put, Ledger!Take
  <1>4. CASE r \in Sales
    <2>1. r \notin Returns
      BY <1>4, RowsAssumption
    <2>2. booked' = booked /\ trx' = [trx EXCEPT ![r] = j.status]
      BY <1>1, <1>4, CommitTables, ZenonT(60) DEF Commit
    <2>3. CASE j.inserted /\ ~j.restoring /\ trx[r] = "absent"
      <3>1. CASE j.status = "COMPLETED"
        <4>1. Ledger!RecordSale(r)
          BY <1>3, <2>1, <2>2, <2>3, <3>1 DEF Ledger!RecordSale, Moves
        <4> QED
          BY <1>4, <4>1 DEF Ledger!Next
      <3>2. CASE j.status = "VOIDED"
        <4>1. Ledger!RecordVoided(r)
          BY <1>3, <2>1, <2>2, <2>3, <3>2 DEF Ledger!RecordVoided, Moves
        <4> QED
          BY <1>4, <4>1 DEF Ledger!Next
      <3> QED
        BY <1>1, <3>1, <3>2 DEF JobType, Statuses
    <2>4. CASE j.restoring /\ j.status = "VOIDED" /\ trx[r] = "COMPLETED" /\ ~printedRow[r]
      <3>1. ReturnsOf(r) = {}
        BY <2>4 DEF ReturnsOf, TransactionsIsolated, ReturnsSettled
      <3>2. Ledger!CancelSale(r)
        BY <1>3, <1>4, <2>1, <2>2, <2>4, <3>1, LedgerReturnable DEF Ledger!CancelSale, Moves
      <3> QED
        BY <1>4, <3>2 DEF Ledger!Next
    <2> QED
      BY <1>1, <1>4, <2>3, <2>4 DEF JobInv, JobLookup
  <1>5. CASE r \in Wastes
    <2>1. r \notin Sales /\ r \notin Returns
      BY <1>5, RowsAssumption
    <2>2. booked' = booked \cup {r} /\ trx' = trx
      BY <2>1 DEF Commit
    <2>3. r \notin booked /\ ~j.restoring /\ Moves(j)
      BY <1>1, <2>1 DEF JobInv, JobLookup, JobVoids, Moves
    <2>4. Ledger!RecordWaste(r)
      BY <1>3, <1>5, <2>2, <2>3 DEF Ledger!RecordWaste
    <2> QED
      BY <1>5, <2>4 DEF Ledger!Next
  <1>6. CASE r \in Returns
    <2>1. r \notin Sales /\ s \in Sales
      BY <1>6, RowsAssumption
    <2>2. booked' = booked \cup {r} /\ trx' = trx
      BY <2>1 DEF Commit
    <2>3. r \notin booked /\ j.restoring /\ (Moves(j) <=> Restock[r])
      BY <1>1, <1>6, <2>1 DEF JobInv, JobLookup, Moves
    <2>4. trx[s] = "COMPLETED" /\ ReturnQty[r] <= Ledger!Returnable(s)
      BY <1>1, <1>6, <2>1, LedgerReturnable DEF JobInv, JobOriginal
    <2>5. Ledger!RecordReturn(r)
      BY <1>3, <1>6, <2>2, <2>3, <2>4 DEF Ledger!RecordReturn
    <2> QED
      BY <1>6, <2>5 DEF Ledger!Next
  <1> QED
    BY <1>1, <1>4, <1>5, <1>6 DEF Rows

\* A step that writes no table, or a commit.
LEMMA TablesOrCommit ==
    ASSUME [Next]_vars
    PROVE  UNCHANGED tables \/ \E w \in Workers : Commit(w)
BY DEF Next, vars, TillSell, TillPrint, TillOpenVoid, TillVoid, TillWaste, TillReturn,
   Receive, LockStep, Advance, LookupSale, LookupOther, CheckOriginal, LockItems, Insert,
   Move, Abort, DeadlockVictim, Answer, AnswerLost, Finish, Step

LEMMA StepRefines ==
    ASSUME TransactionsIsolated, [Next]_vars
    PROVE  [Ledger!Next]_(Ledger!ledgerVars)
PROOF
  <1>1. ASSUME UNCHANGED tables PROVE UNCHANGED Ledger!ledgerVars
    BY <1>1 DEF tables, Ledger!ledgerVars
  <1> QED
    BY <1>1, CommitRefines, TablesOrCommit

\* As long as no two requests carry the same row at once, whatever the interleaving of
\* the rows and however often one is sent again, aborted or lost, the backend is a
\* ledger that books each row at most once and moves the stock exactly with it.
THEOREM LedgerRefinement == Spec /\ []RowMutex => LedgerSpec
PROOF
  <1>1. Init => Ledger!Init
    BY DEF Init, Ledger!Init
  <1>2. TransactionsIsolated /\ [Next]_vars => [Ledger!Next]_(Ledger!ledgerVars)
    BY StepRefines
  <1>3. Spec /\ []RowMutex => []TransactionsIsolated
    BY Isolation
  <1> QED
    BY <1>1, <1>2, <1>3, PTL DEF Spec, LedgerSpec, Ledger!Spec
-----------------------------------------------------------------------------
(* What the tables add up to. *)

\* The tables are finite: every row in them was committed by one request.
FiniteTables == IsFiniteSet(booked) /\ IsFiniteSet({s \in Sales : trx[s] # "absent"})

LEMMA ReturnsFinite ==
    ASSUME FiniteTables, NEW s \in Sales
    PROVE  IsFiniteSet(ReturnsOf(s)) /\ ReturnsOf(s) \subseteq Returns
<1>1. ReturnsOf(s) \subseteq booked /\ ReturnsOf(s) \subseteq Returns
  BY DEF ReturnsOf
<1> QED
  BY <1>1, FS_Subset DEF FiniteTables

\* The quantity of a set of returns is a number, and grows with each of them.
LEMMA QuantityIsNat ==
    ASSUME NEW rs \in SUBSET Returns, IsFiniteSet(rs)
    PROVE  Quantity[rs] \in Nat
<1>1. \A r \in rs : ReturnQty[r] \in Nat
  BY RowsAssumption
<1> QED
  BY <1>1, SumIsNat DEF Quantity

LEMMA QuantityGrows ==
    ASSUME NEW rs \in SUBSET Returns, IsFiniteSet(rs), NEW r \in Returns \ rs
    PROVE  Quantity[rs \cup {r}] = Quantity[rs] + ReturnQty[r]
<1>1. \A x \in rs \cup {r} : ReturnQty[x] \in Int
  BY RowsAssumption
<1>2. SumOver(ReturnQty, rs \cup {r}) = SumOver(ReturnQty, rs) + ReturnQty[r]
  BY <1>1, SumMore
<1> QED
  BY <1>2 DEF Quantity

LEMMA FiniteTablesStep ==
    ASSUME TransactionsIsolated, FiniteTables, [Next]_vars
    PROVE  FiniteTables'
<1>1. CASE UNCHANGED tables
  BY <1>1 DEF FiniteTables, tables
<1>2. ASSUME NEW w \in Workers, Commit(w) PROVE FiniteTables'
  <2> DEFINE row == job[w].row
             there == {s \in Sales : trx[s] # "absent"}
  <2>1. booked' \in {booked, booked \cup {row}}
    BY <1>2, CommitTables
  <2>2. \A s \in Sales : s # row => trx'[s] = trx[s]
    BY <1>2, CommitTables
  <2>3. there' \subseteq there \cup {row}
    BY <2>2
  <2>4. IsFiniteSet(there \cup {row}) /\ IsFiniteSet(booked \cup {row})
    BY FS_AddElement DEF FiniteTables
  <2>5. IsFiniteSet(there')
    BY <2>3, <2>4, FS_Subset
  <2> QED
    BY <2>1, <2>4, <2>5 DEF FiniteTables
<1> QED
  BY <1>1, <1>2, TablesOrCommit

\* The returns table, the state of each sale and the write-offs agree.
ReturnsInv ==
    /\ TransactionsIsolated
    /\ FiniteTables
    /\ ReturnsWithinSale
    /\ \A r \in Returns \ booked : writeOffs[r] = 0

LEMMA ReturnsStep ==
    ASSUME ReturnsInv, RowMutex', [Next]_vars
    PROVE  ReturnsInv'
<1>0. TransactionsIsolated' /\ FiniteTables'
  BY IsolatedStep, FiniteTablesStep DEF ReturnsInv
<1>1. CASE UNCHANGED tables
  BY <1>0, <1>1 DEF ReturnsInv, ReturnsWithinSale, ReturnsOf, tables
<1>2. ASSUME NEW w \in Workers, Commit(w), job[w].row \notin Returns PROVE ReturnsInv'
  <2>1. \A r \in Returns : r \in booked' <=> r \in booked
    BY <1>2, CommitTables DEF ReturnsInv
  <2>2. UNCHANGED <<returnState, writeOffs>>
    BY <1>2 DEF Commit
  <2>3. \A s \in Sales : ReturnsOf(s)' = ReturnsOf(s)
    BY <2>1 DEF ReturnsOf
  <2> QED
    BY <1>0, <2>1, <2>2, <2>3 DEF ReturnsInv, ReturnsWithinSale
<1>3. ASSUME NEW w \in Workers, Commit(w), NEW r \in Returns, job[w].row = r PROVE ReturnsInv'
  <2> DEFINE s == SaleOf[r]
             before == ReturnsOf(s)
  <2>1. s \in Sales /\ r \notin Sales /\ ReturnQty[r] \in Nat \ {0} /\ SoldQty[s] \in Nat
    BY <1>3, RowsAssumption
  <2>2. booked' = booked \cup {r} /\ r \notin booked
    BY <1>3, <2>1, CommitTables DEF ReturnsInv, TransactionsIsolated, JobInv, JobLookup, Commit
  <2>3. job[w].seen = before /\ ReturnQty[r] <= Returnable(s, before)
    BY <1>3 DEF ReturnsInv, TransactionsIsolated, JobInv, JobOriginal, Commit
  <2>4. before \in SUBSET Returns /\ IsFiniteSet(before) /\ r \notin before
    BY <2>1, <2>2, ReturnsFinite DEF ReturnsInv, ReturnsOf
  <2>5. ReturnsOf(SaleOf[r])' = before \cup {r} /\ \A t \in Sales : t # s => ReturnsOf(t)' = ReturnsOf(t)
    BY <1>3, <2>2, RowsAssumption DEF ReturnsOf
  <2>6. Quantity[before] \in Nat /\ Quantity[before \cup {r}] = Quantity[before] + ReturnQty[r]
    BY <1>3, <2>4, QuantityIsNat, QuantityGrows
  <2>7. Quantity[before \cup {r}] <= SoldQty[s]
    BY <2>1, <2>3, <2>6 DEF Returnable
  <2>8. /\ returnState' = [returnState EXCEPT ![s] = DeriveState(s, Quantity[before \cup {r}])]
        /\ writeOffs' = [writeOffs EXCEPT ![r] = IF Restock[r] THEN @ ELSE @ + 1]
    BY <1>3, <2>3, <2>6 DEF Commit
  <2>9. returnState \in [Sales -> {"NONE", "PARTIAL", "FULL"}] /\ writeOffs \in [Returns -> Nat]
    BY DEF ReturnsInv, TransactionsIsolated, WellFormed, TypeOK
  <2>10. writeOffs[r] = 0
    BY <1>3, <2>2 DEF ReturnsInv
  <2>11. writeOffs'[r] = IF Restock[r] THEN 0 ELSE 1
    BY <1>3, <2>8, <2>9, <2>10
  <2>12. \A q \in Returns : q # r => writeOffs'[q] = writeOffs[q]
    BY <2>8, <2>9
  <2> HIDE DEF s, before
  <2>13. ASSUME NEW t \in Sales
         PROVE  /\ Quantity[ReturnsOf(t)'] <= SoldQty[t]
                /\ returnState'[t] = DeriveState(t, Quantity[ReturnsOf(t)'])
                /\ \A q \in ReturnsOf(t)' : writeOffs'[q] = IF Restock[q] THEN 0 ELSE 1
    <3>1. CASE t = s
      <4>1. \A q \in before : writeOffs[q] = IF Restock[q] THEN 0 ELSE 1
        BY <2>1 DEF ReturnsInv, ReturnsWithinSale, before
      <4>2. \A q \in before \cup {r} : writeOffs'[q] = IF Restock[q] THEN 0 ELSE 1
        BY <2>4, <2>11, <2>12, <4>1
      <4> QED
        BY <2>1, <2>5, <2>7, <2>8, <2>9, <3>1, <4>2 DEF s
    <3>2. CASE t # s
      <4>1. ReturnsOf(t)' = ReturnsOf(t) /\ returnState'[t] = returnState[t]
        BY <2>5, <2>8, <2>9, <3>2
      <4>2. \A q \in ReturnsOf(t) : q \in booked /\ q \in Returns
        BY DEF ReturnsOf
      <4>3. \A q \in ReturnsOf(t) : writeOffs'[q] = writeOffs[q]
        BY <2>2, <2>12, <4>2
      <4> QED
        BY <4>1, <4>3 DEF ReturnsInv, ReturnsWithinSale
    <3> QED
      BY <3>1, <3>2
  <2>14. \A q \in Returns : q \notin booked' => writeOffs'[q] = 0
    BY <2>2, <2>12 DEF ReturnsInv
  <2>15. ReturnsWithinSale'
    BY <2>13 DEF ReturnsWithinSale
  <2> QED
    BY <1>0, <2>14, <2>15 DEF ReturnsInv
<1> QED
  BY <1>1, <1>2, <1>3, TablesOrCommit

\* Nothing is booked at first.
LEMMA EmptyTables ==
    ASSUME Init
    PROVE  FiniteTables /\ (\A s \in Sales : ReturnsOf(s) = {})
<1>1. booked = {} /\ {s \in Sales : trx[s] # "absent"} = {}
  BY DEF Init
<1> QED
  BY <1>1, FS_EmptySet DEF FiniteTables, ReturnsOf

\* However different returns of a sale interleave, as long as no two requests carry the
\* same one at once, no more of the sale comes back than was sold, its return state says
\* how much, and goods not restocked are written off exactly once (SnapshotForReturn,
\* validateAgainstSnapshot, deriveReturnState).
THEOREM ReturnsAddUp == Spec /\ []RowMutex => []ReturnsWithinSale
<1>1. Init => FiniteTables /\ ReturnsWithinSale /\ \A r \in Returns \ booked : writeOffs[r] = 0
  <2> SUFFICES ASSUME Init PROVE <1>1!2
    OBVIOUS
  <2>1. FiniteTables /\ \A s \in Sales : ReturnsOf(s) = {}
    BY EmptyTables
  <2>2. Quantity[{}] = 0
    BY SumOfNone DEF Quantity
  <2>3. \A s \in Sales : returnState[s] = "NONE" /\ SoldQty[s] \in Nat /\ SoldQty[s] >= 0
    BY RowsAssumption DEF Init
  <2>4. ReturnsWithinSale
    BY <2>1, <2>2, <2>3 DEF ReturnsWithinSale, DeriveState
  <2>5. \A r \in Returns : writeOffs[r] = 0
    BY DEF Init
  <2> QED
    BY <2>1, <2>4, <2>5
<1>2. Init => TransactionsIsolated
  BY IsolatedInit
<1>3. ReturnsInv /\ RowMutex' /\ [Next]_vars => ReturnsInv'
  BY ReturnsStep
<1>4. ReturnsInv => ReturnsWithinSale
  BY DEF ReturnsInv
<1>5. Init => ReturnsInv
  BY <1>1, <1>2 DEF ReturnsInv
<1> QED
  BY <1>3, <1>4, <1>5, PTL DEF Spec

\* What is on the shelf, as the ledger sees it.
OnShelf(m) == Units(stock[m], PackSize[m])

StockInv ==
    /\ TransactionsIsolated
    /\ FiniteTables
    /\ StockMatchesTables

\* The sets of rows whose needs have left the shelf, or come back to it.
Sold     == {s \in Sales : trx[s] = "COMPLETED"}
Wasted   == Wastes \cap booked
Restored == {r \in Returns \cap booked : Restock[r]}

LEMMA TakenFinite ==
    ASSUME FiniteTables
    PROVE  /\ Sold \in SUBSET Rows /\ IsFiniteSet(Sold)
           /\ Wasted \in SUBSET Rows /\ IsFiniteSet(Wasted)
           /\ Restored \in SUBSET Rows /\ IsFiniteSet(Restored)
<1>1. Sold \subseteq {s \in Sales : trx[s] # "absent"} /\ Wasted \subseteq booked
      /\ Restored \subseteq booked
  BY DEF Sold, Wasted, Restored
<1>2. Sold \in SUBSET Rows /\ Wasted \in SUBSET Rows /\ Restored \in SUBSET Rows
  BY DEF Sold, Wasted, Restored, Rows
<1> QED
  BY <1>1, <1>2, FS_Subset DEF FiniteTables

LEMMA NeedIsInt ==
    ASSUME NEW rows \in SUBSET Rows, IsFiniteSet(rows), NEW m \in Materials
    PROVE  NeedOf(rows, m) \in Int
<1> DEFINE need == [x \in Rows |-> Need[x][m]]
<1>1. \A x \in rows : need[x] \in Int
  BY StockAssumption
<1> HIDE DEF need
<1> QED
  BY <1>1, SumIsInt DEF NeedOf, need

LEMMA NeedMore ==
    ASSUME NEW rows \in SUBSET Rows, IsFiniteSet(rows), NEW row \in Rows \ rows,
           NEW m \in Materials
    PROVE  NeedOf(rows \cup {row}, m) = NeedOf(rows, m) + Need[row][m]
<1> DEFINE need == [x \in Rows |-> Need[x][m]]
<1>1. \A x \in Rows : need[x] \in Int /\ need[x] = Need[x][m]
  BY StockAssumption
<1> HIDE DEF need
<1>2. \A x \in rows \cup {row} : need[x] \in Int
  BY <1>1
<1>3. SumOver(need, rows \cup {row}) = SumOver(need, rows) + need[row]
  BY <1>2, SumMore
<1> QED
  BY <1>1, <1>3 DEF NeedOf, need

\* What is on the shelf at a balance of the tables.
Balance(m) ==
    Units(OpeningStock[m], PackSize[m])
        - NeedOf(Sold, m) - NeedOf(Wasted, m) + NeedOf(Restored, m)

LEMMA BalanceTerms ==
    ASSUME StockInv, NEW m \in Materials
    PROVE  /\ NeedOf(Sold, m) \in Int /\ NeedOf(Wasted, m) \in Int /\ NeedOf(Restored, m) \in Int
           /\ Units(OpeningStock[m], PackSize[m]) \in Int
           /\ OnShelf(m) = Balance(m)
<1>1. OpeningStock[m] \in Stock /\ PackSize[m] \in Nat
  BY StockAssumption
<1>2. OpeningStock[m].pkg * PackSize[m] \in Int
  BY <1>1 DEF Stock
<1>3. Units(OpeningStock[m], PackSize[m]) \in Int
  BY <1>1, <1>2 DEF Units, Stock
<1> QED
  BY <1>3, TakenFinite, NeedIsInt
  DEF StockInv, StockMatchesTables, OnShelf, Balance, Sold, Wasted, Restored

\* A step of the ledger moves the shelf and the tables together.
LEMMA LedgerKeepsBalance ==
    ASSUME StockInv, FiniteTables', Ledger!Next, NEW m \in Materials
    PROVE  OnShelf(m)' = Balance(m)'
<1> DEFINE sold == NeedOf(Sold, m)
           wasted == NeedOf(Wasted, m)
           restored == NeedOf(Restored, m)
           opening == Units(OpeningStock[m], PackSize[m])
<1>1. /\ sold \in Int /\ wasted \in Int /\ restored \in Int /\ opening \in Int
      /\ OnShelf(m) = opening - sold - wasted + restored
  BY BalanceTerms DEF Balance
<1>2. /\ Sold \in SUBSET Rows /\ IsFiniteSet(Sold)
      /\ Wasted \in SUBSET Rows /\ IsFiniteSet(Wasted)
      /\ Restored \in SUBSET Rows /\ IsFiniteSet(Restored)
      /\ Sold' \in SUBSET Rows /\ IsFiniteSet(Sold')
      /\ trx \in [Sales -> Statuses \cup {"absent"}]
  <2>1. Sold' \subseteq {s \in Sales : trx'[s] # "absent"}
    BY DEF Sold
  <2>2. Sold' \in SUBSET Rows /\ IsFiniteSet(Sold')
    BY <2>1, FS_Subset DEF FiniteTables, Sold, Rows
  <2> QED
    BY <2>2, TakenFinite DEF StockInv, TransactionsIsolated, WellFormed, TypeOK
<1>3. \A row \in Rows : Need[row][m] \in Int
  BY StockAssumption
<1>4. /\ \A row : Ledger!Take(row) => OnShelf(m)' = OnShelf(m) - Need[row][m]
      /\ \A row : Ledger!Put(row) => OnShelf(m)' = OnShelf(m) + Need[row][m]
  BY DEF Ledger!Take, Ledger!Put, OnShelf
<1>5. UNCHANGED [n \in Materials |-> Units(stock[n], PackSize[n])] => OnShelf(m)' = OnShelf(m)
  BY DEF OnShelf
<1>6. booked' = booked => Wasted' = Wasted /\ Restored' = Restored
  BY DEF Wasted, Restored
<1>7. trx' = trx => Sold' = Sold
  BY DEF Sold
<1>8. Balance(m)' = opening - NeedOf(Sold', m) - NeedOf(Wasted', m) + NeedOf(Restored', m)
  BY DEF Balance, NeedOf
<1> HIDE DEF sold, wasted, restored, opening
<1>9. ASSUME NEW s \in Sales, Ledger!RecordSale(s) PROVE OnShelf(m)' = Balance(m)'
  <2>1. trx[s] = "absent" /\ trx' = [trx EXCEPT ![s] = "COMPLETED"] /\ booked' = booked
        /\ Ledger!Take(s)
    BY <1>9 DEF Ledger!RecordSale
  <2>2. Sold' = Sold \cup {s} /\ s \in Rows \ Sold
    BY <1>2, <2>1 DEF Sold, Rows
  <2>3. NeedOf(Sold', m) = sold + Need[s][m]
    BY <1>2, <2>2, NeedMore DEF sold
  <2> QED
    BY <1>1, <1>3, <1>4, <1>6, <1>8, <2>1, <2>2, <2>3 DEF wasted, restored
<1>10. ASSUME NEW s \in Sales, Ledger!RecordVoided(s) PROVE OnShelf(m)' = Balance(m)'
  <2>1. trx[s] = "absent" /\ trx' = [trx EXCEPT ![s] = "VOIDED"] /\ booked' = booked
        /\ OnShelf(m)' = OnShelf(m)
    BY <1>5, <1>10 DEF Ledger!RecordVoided
  <2>2. Sold' = Sold
    BY <1>2, <2>1 DEF Sold
  <2> QED
    BY <1>1, <1>6, <1>8, <2>1, <2>2 DEF sold, wasted, restored
<1>11. ASSUME NEW s \in Sales, Ledger!CancelSale(s) PROVE OnShelf(m)' = Balance(m)'
  <2>1. trx[s] = "COMPLETED" /\ trx' = [trx EXCEPT ![s] = "VOIDED"] /\ booked' = booked
        /\ Ledger!Put(s)
    BY <1>11 DEF Ledger!CancelSale
  <2>2. Sold = Sold' \cup {s} /\ s \in Rows \ Sold'
    BY <1>2, <2>1 DEF Sold, Rows
  <2>3. sold = NeedOf(Sold', m) + Need[s][m]
    BY <1>2, <2>2, NeedMore DEF sold
  <2>4. NeedOf(Sold', m) \in Int
    BY <1>2, NeedIsInt
  <2> QED
    BY <1>1, <1>3, <1>4, <1>6, <1>8, <2>1, <2>2, <2>3, <2>4 DEF wasted, restored
<1>12. ASSUME NEW x \in Wastes, Ledger!RecordWaste(x) PROVE OnShelf(m)' = Balance(m)'
  <2>1. x \notin booked /\ booked' = booked \cup {x} /\ trx' = trx /\ Ledger!Take(x)
    BY <1>12 DEF Ledger!RecordWaste
  <2>2. Wasted' = Wasted \cup {x} /\ x \in Rows \ Wasted /\ Restored' = Restored
    BY <2>1, RowsAssumption DEF Wasted, Restored, Rows
  <2>3. NeedOf(Wasted', m) = wasted + Need[x][m]
    BY <1>2, <2>2, NeedMore DEF wasted
  <2> QED
    BY <1>1, <1>3, <1>4, <1>7, <1>8, <2>1, <2>2, <2>3 DEF sold, restored
<1>13. ASSUME NEW r \in Returns, Ledger!RecordReturn(r) PROVE OnShelf(m)' = Balance(m)'
  <2>1. r \notin booked /\ booked' = booked \cup {r} /\ trx' = trx
        /\ IF Restock[r] THEN Ledger!Put(r)
           ELSE UNCHANGED [n \in Materials |-> Units(stock[n], PackSize[n])]
    BY <1>13 DEF Ledger!RecordReturn
  <2>2. Wasted' = Wasted /\ r \in Rows \ Restored
    BY <2>1, RowsAssumption DEF Wasted, Restored, Rows
  <2>3. CASE Restock[r]
    <3>1. Restored' = Restored \cup {r}
      BY <2>1, <2>3 DEF Restored
    <3>2. NeedOf(Restored', m) = restored + Need[r][m]
      BY <1>2, <2>2, <3>1, NeedMore DEF restored
    <3> QED
      BY <1>1, <1>3, <1>4, <1>7, <1>8, <2>1, <2>2, <2>3, <3>2 DEF sold, wasted
  <2>4. CASE ~Restock[r]
    <3>1. Restored' = Restored
      BY <2>1, <2>4 DEF Restored
    <3> QED
      BY <1>1, <1>5, <1>7, <1>8, <2>1, <2>2, <2>4, <3>1 DEF sold, wasted, restored
  <2> QED
    BY <2>3, <2>4
<1> QED
  BY <1>9, <1>10, <1>11, <1>12, <1>13 DEF Ledger!Next

LEMMA StockStep ==
    ASSUME StockInv, RowMutex', [Next]_vars
    PROVE  StockInv'
<1>1. TransactionsIsolated' /\ FiniteTables'
  BY IsolatedStep, FiniteTablesStep DEF StockInv
<1>2. ASSUME NEW m \in Materials PROVE OnShelf(m)' = Balance(m)'
  <2>1. CASE UNCHANGED tables
    <3>1. OnShelf(m)' = OnShelf(m) /\ Sold' = Sold /\ Wasted' = Wasted /\ Restored' = Restored
      BY <2>1 DEF tables, OnShelf, Sold, Wasted, Restored
    <3>2. Balance(m)' = Balance(m)
      BY <3>1 DEF Balance, NeedOf
    <3> QED
      BY <3>1, <3>2, BalanceTerms
  <2>2. ASSUME NEW w \in Workers, Commit(w) PROVE OnShelf(m)' = Balance(m)'
    BY <1>1, <2>2, CommitRefines, LedgerKeepsBalance DEF StockInv
  <2> QED
    BY <2>1, <2>2, TablesOrCommit
<1>3. StockMatchesTables'
  BY <1>2 DEF StockMatchesTables, OnShelf, Balance, Sold, Wasted, Restored
<1> QED
  BY <1>1, <1>3 DEF StockInv

\* For any recipes, packages and lock orders, and any interleaving in which no two
\* requests carry the same row at once, the stock of each raw material is what the
\* committed sales, wastes and restocked returns leave of it (stock_movement.go,
\* pos_sync_service.go, return_service.go).
THEOREM StockIsBalanced == Spec /\ []RowMutex => []StockMatchesTables
<1>1. Init => StockMatchesTables
  <2> SUFFICES ASSUME Init, NEW m \in Materials PROVE OnShelf(m) = Balance(m)
    BY DEF StockMatchesTables, OnShelf, Balance, Sold, Wasted, Restored
  <2>1. Sold = {} /\ Wasted = {} /\ Restored = {} /\ stock = OpeningStock
    BY DEF Init, Sold, Wasted, Restored
  <2>2. NeedOf({}, m) = 0
    BY SumOfNone DEF NeedOf
  <2>3. Units(OpeningStock[m], PackSize[m]) \in Int
    <3>1. OpeningStock[m] \in Stock /\ PackSize[m] \in Nat
      BY StockAssumption
    <3>2. OpeningStock[m].pkg * PackSize[m] \in Int
      BY <3>1 DEF Stock
    <3> QED
      BY <3>1, <3>2 DEF Units, Stock
  <2> QED
    BY <2>1, <2>2, <2>3 DEF OnShelf, Balance
<1>2. Init => StockInv
  BY <1>1, IsolatedInit, EmptyTables DEF StockInv
<1>3. StockInv /\ RowMutex' /\ [Next]_vars => StockInv'
  BY StockStep
<1>4. StockInv => StockMatchesTables
  BY DEF StockInv
<1> QED
  BY <1>2, <1>3, <1>4, PTL DEF Spec
-----------------------------------------------------------------------------
(* What no overlap of requests can break: the same row in any number of them. *)

LEMMA OverlapOther ==
    ASSUME NEW v \in Workers, OverlapJob(job[v]), job'[v] = job[v], UNCHANGED tables
    PROVE  OverlapJob(job[v])'
PROOF
  BY DEF OverlapJob, JobOriginal, ReturnsOf, Returnable, Exists, tables

\* A step of one request that writes no table and takes no insert or lock of another.
LEMMA OverlapLocal ==
    ASSUME OverlapSafe, WellFormed', NEW w \in Workers,
           UNCHANGED tables,
           AckedIsBooked',
           \A v \in Workers : v # w => job'[v] = job[v],
           OverlapJob(job[w])',
           job'[w].inserted =>
               \A v \in Workers : v # w => ~(job[v].inserted /\ job[v].row = job'[w].row),
           \A v \in Workers : v # w =>
               \A s \in Sales : ~(HoldsItems(w, s)' /\ HoldsItems(v, s))
    PROVE  OverlapSafe'
PROOF
  <1>1. OneWriter'
    BY DEF OverlapSafe, OneWriter
  <1>2. ItemsMutex'
    BY DEF OverlapSafe, ItemsMutex, HoldsItems
  <1>3. ReturnsSettled'
    BY DEF OverlapSafe, ReturnsSettled, tables
  <1>4. ASSUME NEW v \in Workers PROVE OverlapJob(job[v])'
    BY OverlapOther DEF OverlapSafe
  <1> QED
    BY <1>1, <1>2, <1>3, <1>4 DEF OverlapSafe

LEMMA OverlapAcked ==
    ASSUME OverlapSafe, UNCHANGED <<tables, acked>>
    PROVE  AckedIsBooked'
PROOF
  BY DEF OverlapSafe, AckedIsBooked, Exists, tables

\* A request that comes out of a step without a transaction.
LEMMA OverlapEnds ==
    ASSUME OverlapSafe, WellFormed', NEW w \in Workers, UNCHANGED <<tables>>, AckedIsBooked',
           \A v \in Workers : v # w => job'[v] = job[v],
           job'[w].pc \in {"idle", "lookup", "reply"}, ~job'[w].inserted, ~job'[w].restoring,
           job'[w].pc = "reply" /\ job'[w].outcome = "ok" => Exists(job'[w].row)
    PROVE  OverlapSafe'
PROOF
  <1>1. OverlapJob(job[w])'
    BY DEF OverlapJob, JobOriginal, Exists, tables
  <1>2. \A v \in Workers : v # w => \A s \in Sales : ~(HoldsItems(w, s)' /\ HoldsItems(v, s))
    BY DEF HoldsItems
  <1> QED
    BY <1>1, <1>2, OverlapLocal

LEMMA OverlapFinish ==
    ASSUME OverlapSafe, WellFormed', NEW w \in Workers, NEW o, Finish(w, o),
           o = "ok" => Exists(job[w].row)
    PROVE  OverlapSafe'
PROOF
  <1>1. /\ UNCHANGED <<tables, acked>>
        /\ \A v \in Workers : v # w => job'[v] = job[v]
        /\ job'[w].pc = "reply" /\ job'[w].row = job[w].row /\ job'[w].outcome = o
        /\ ~job'[w].inserted /\ ~job'[w].restoring
    BY DEF Finish, OverlapSafe, WellFormed, TypeOK, Answered, Idle
  <1> QED
    BY <1>1, OverlapAcked, OverlapEnds

LEMMA OverlapReceive ==
    ASSUME OverlapSafe, WellFormed', NEW w \in Workers, NEW row \in Rows, Receive(w, row)
    PROVE  OverlapSafe'
PROOF
  <1>1. /\ UNCHANGED <<tables, acked>>
        /\ \A v \in Workers : v # w => job'[v] = job[v]
        /\ job'[w].pc = "lookup" /\ ~job'[w].inserted /\ ~job'[w].restoring
    BY DEF Receive, Step, OverlapSafe, WellFormed, TypeOK, Idle
  <1> QED
    BY <1>1, OverlapAcked, OverlapEnds

LEMMA OverlapAnswer ==
    ASSUME OverlapSafe, WellFormed', NEW w \in Workers, Answer(w) \/ AnswerLost(w)
    PROVE  OverlapSafe'
PROOF
  <1>1. /\ UNCHANGED tables
        /\ \A v \in Workers : v # w => job'[v] = job[v]
        /\ job'[w].pc = "idle" /\ ~job'[w].inserted /\ ~job'[w].restoring
    BY DEF Answer, AnswerLost, OverlapSafe, WellFormed, TypeOK, Idle
  <1>2. AckedIsBooked'
    <2>1. \/ acked' = acked
          \/ /\ job[w].pc = "reply" /\ job[w].outcome = "ok"
             /\ acked' = acked \cup {<<job[w].row, job[w].status>>}
      BY DEF Answer, AnswerLost
    <2>2. job[w].pc = "reply" /\ job[w].outcome = "ok" => Exists(job[w].row)
      BY DEF OverlapSafe, OverlapJob
    <2> QED
      BY <1>1, <2>1, <2>2 DEF OverlapSafe, AckedIsBooked, Exists, tables
  <1> QED
    BY <1>1, <1>2, OverlapEnds

LEMMA OverlapLookupSale ==
    ASSUME OverlapSafe, WellFormed', NEW w \in Workers, LookupSale(w)
    PROVE  OverlapSafe'
PROOF
  <1> DEFINE j == job[w]
             k == [j EXCEPT !.pc = AfterInsert(j, TRUE), !.restoring = TRUE]
  <1>1. /\ j \in JobType /\ j.pc = "lookup" /\ j.row \in Sales /\ j.row \notin Returns
        /\ ~j.inserted /\ ~j.restoring
    BY RowsAssumption DEF LookupSale, OverlapSafe, WellFormed, TypeOK, OverlapJob
  <1>2. CASE Step(w, [j EXCEPT !.pc = "insert"])
    <2>1. /\ UNCHANGED <<tables, acked>>
          /\ \A v \in Workers : v # w => job'[v] = job[v]
          /\ job'[w].pc = "insert" /\ job'[w].row = j.row
          /\ ~job'[w].inserted /\ ~job'[w].restoring
      BY <1>1, <1>2 DEF Step, OverlapSafe, WellFormed, TypeOK, JobType
    <2>2. OverlapJob(job[w])'
      BY <1>1, <2>1 DEF OverlapJob, JobOriginal
    <2>3. \A v \in Workers : v # w => \A s \in Sales : ~(HoldsItems(w, s)' /\ HoldsItems(v, s))
      BY <1>1, <2>1 DEF HoldsItems
    <2> QED
      BY <2>1, <2>2, <2>3, OverlapAcked, OverlapLocal
  <1>3. CASE trx[j.row] = "COMPLETED" /\ ~printedRow[j.row] /\ Step(w, k)
    <2>1. /\ UNCHANGED <<tables, acked>>
          /\ \A v \in Workers : v # w => job'[v] = job[v]
          /\ job'[w].pc \in {"move", "commit"} /\ job'[w].row = j.row
          /\ ~job'[w].inserted /\ job'[w].restoring
      BY <1>1, <1>3 DEF Step, OverlapSafe, WellFormed, TypeOK, JobType, AfterInsert
    <2>2. OverlapJob(job[w])'
      BY <1>1, <1>3, <2>1 DEF OverlapJob, JobOriginal, tables
    <2>3. \A v \in Workers : v # w => \A s \in Sales : ~(HoldsItems(w, s)' /\ HoldsItems(v, s))
      BY <1>1, <2>1 DEF HoldsItems
    <2> QED
      BY <2>1, <2>2, <2>3, OverlapAcked, OverlapLocal
  <1>4. CASE \E o : Finish(w, o) /\ trx[j.row] # "absent"
    BY <1>1, <1>4, OverlapFinish DEF Exists
  <1> HIDE DEF j, k
  <1> QED
    BY <1>1, <1>2, <1>3, <1>4 DEF LookupSale, j, k

LEMMA OverlapLookupOther ==
    ASSUME OverlapSafe, WellFormed', NEW w \in Workers, LookupOther(w)
    PROVE  OverlapSafe'
PROOF
  <1> DEFINE j == job[w]
             k == [j EXCEPT !.pc = IF j.row \in Returns THEN "original" ELSE "insert"]
  <1>1. /\ j \in JobType /\ j.pc = "lookup" /\ j.row \notin Sales /\ JobPlace(j)
        /\ ~j.inserted /\ ~j.restoring
    BY DEF LookupOther, OverlapSafe, WellFormed, TypeOK, OverlapJob
  <1>2. CASE j.row \in booked /\ Finish(w, "ok")
    BY <1>1, <1>2, OverlapFinish DEF Exists
  <1>3. CASE Finish(w, "ORIGINAL_ABSENT")
    BY <1>3, OverlapFinish
  <1>4. CASE Step(w, k)
    <2>1. /\ UNCHANGED <<tables, acked>>
          /\ \A v \in Workers : v # w => job'[v] = job[v]
          /\ job'[w].pc = (IF j.row \in Returns THEN "original" ELSE "insert")
          /\ job'[w].row = j.row /\ ~job'[w].inserted /\ ~job'[w].restoring
      BY <1>1, <1>4 DEF Step, OverlapSafe, WellFormed, TypeOK, JobType
    <2>2. OverlapJob(job[w])'
      BY <1>1, <2>1 DEF OverlapJob, JobOriginal
    <2>3. \A v \in Workers : v # w => \A s \in Sales : ~(HoldsItems(w, s)' /\ HoldsItems(v, s))
      BY <1>1, <2>1 DEF HoldsItems
    <2> QED
      BY <2>1, <2>2, <2>3, OverlapAcked, OverlapLocal
  <1> QED
    BY <1>2, <1>3, <1>4 DEF LookupOther

LEMMA OverlapCheckOriginal ==
    ASSUME OverlapSafe, WellFormed', NEW w \in Workers, CheckOriginal(w)
    PROVE  OverlapSafe'
PROOF
  <1> DEFINE j == job[w]
             k == [j EXCEPT !.pc = "lockItems"]
             s == SaleOf[j.row]
  <1>1. /\ j \in JobType /\ j.pc = "original" /\ j.row \in Returns
        /\ ~j.inserted /\ ~j.restoring
    BY DEF CheckOriginal, OverlapSafe, WellFormed, TypeOK, OverlapJob
  <1>2. CASE \E o \in Reasons : Finish(w, o)
    BY <1>2, OverlapFinish DEF Reasons
  <1>3. CASE trx[s] = "COMPLETED" /\ printedRow[s] /\ Step(w, k)
    <2>1. /\ UNCHANGED <<tables, acked>>
          /\ \A v \in Workers : v # w => job'[v] = job[v]
          /\ job'[w].pc = "lockItems"
          /\ job'[w].row = j.row /\ ~job'[w].inserted /\ ~job'[w].restoring
      BY <1>1, <1>3 DEF Step, OverlapSafe, WellFormed, TypeOK, JobType
    <2>2. OverlapJob(job[w])'
      BY <1>1, <1>3, <2>1 DEF OverlapJob, JobOriginal, tables
    <2>3. \A v \in Workers : v # w => \A t \in Sales : ~(HoldsItems(w, t)' /\ HoldsItems(v, t))
      BY <1>1, <2>1 DEF HoldsItems
    <2> QED
      BY <2>1, <2>2, <2>3, OverlapAcked, OverlapLocal
  <1> QED
    BY <1>2, <1>3 DEF CheckOriginal, Reasons

LEMMA OverlapLockItems ==
    ASSUME OverlapSafe, WellFormed', NEW w \in Workers, LockItems(w)
    PROVE  OverlapSafe'
PROOF
  <1> DEFINE j == job[w]
             s == SaleOf[j.row]
             k == [j EXCEPT !.pc = "insert", !.seen = ReturnsOf(s)]
  <1>1. /\ j \in JobType /\ j.pc = "lockItems" /\ j.row \in Returns
        /\ ~j.inserted /\ ~j.restoring /\ trx[s] = "COMPLETED" /\ printedRow[s]
    BY DEF LockItems, OverlapSafe, WellFormed, TypeOK, OverlapJob, JobOriginal
  <1>2. CASE Finish(w, "OVER_QUANTITY")
    BY <1>2, OverlapFinish
  <1>3. CASE ReturnQty[j.row] <= Returnable(s, ReturnsOf(s)) /\ Step(w, k)
    <2>1. /\ UNCHANGED <<tables, acked>>
          /\ \A v \in Workers : v # w => job'[v] = job[v]
          /\ job'[w].pc = "insert" /\ job'[w].row = j.row /\ job'[w].seen = ReturnsOf(s)
          /\ ~job'[w].inserted /\ ~job'[w].restoring
      BY <1>1, <1>3 DEF Step, OverlapSafe, WellFormed, TypeOK, JobType
    <2>2. JobOriginal(job[w])'
      BY <1>1, <1>3, <2>1 DEF JobOriginal, ReturnsOf, Returnable, tables
    <2>3. OverlapJob(job[w])'
      BY <2>1, <2>2 DEF OverlapJob
    <2>4. \A v \in Workers : v # w => \A t \in Sales : ~(HoldsItems(w, t)' /\ HoldsItems(v, t))
      BY <1>1, <2>1 DEF HoldsItems, LockItems, Blocked, WaitsFor
    <2> QED
      BY <2>1, <2>3, <2>4, OverlapAcked, OverlapLocal
  <1> QED
    BY <1>2, <1>3 DEF LockItems

LEMMA OverlapInsert ==
    ASSUME OverlapSafe, WellFormed', NEW w \in Workers, Insert(w)
    PROVE  OverlapSafe'
PROOF
  <1> DEFINE j == job[w]
             moving == IF j.row \in Returns THEN Restock[j.row] ELSE j.status = "COMPLETED"
             k == [j EXCEPT !.pc = AfterInsert(j, moving), !.inserted = ~Exists(j.row),
                            !.restoring = j.row \in Returns]
  <1>1. /\ j \in JobType /\ j.pc = "insert" /\ j.row \in Rows
        /\ OverlapJob(j) /\ ~j.inserted /\ ~j.restoring
    BY DEF Insert, OverlapSafe, WellFormed, TypeOK, OverlapJob, JobPlace
  <1>2. CASE Finish(w, "retry")
    BY <1>2, OverlapFinish
  <1>3. CASE ~Blocked(w) /\ Step(w, k)
    <2>1. /\ UNCHANGED <<tables, acked>>
          /\ \A v \in Workers : v # w => job'[v] = job[v]
          /\ job'[w] = k
      BY <1>3 DEF Step, OverlapSafe, WellFormed, TypeOK
    <2> HIDE DEF moving
    <2>2. /\ job'[w].pc \in {"move", "commit"}
          /\ job'[w].row = j.row /\ job'[w].seen = j.seen
          /\ job'[w].inserted = ~Exists(j.row) /\ job'[w].restoring = (j.row \in Returns)
      BY <1>1, <2>1 DEF JobType, AfterInsert
    <2>3. JobOriginal(job[w])'
      BY <1>1, <2>1, <2>2 DEF OverlapJob, JobOriginal, ReturnsOf, Returnable, tables
    <2>4. OverlapJob(job[w])'
      <3>1. j.row \in Sales => (job'[w].inserted <=> trx'[j.row] = "absent") /\ ~job'[w].restoring
        BY <2>1, <2>2, RowsAssumption DEF Exists, tables
      <3> QED
        BY <2>2, <2>3, <3>1 DEF OverlapJob
    <2>5. \A v \in Workers : v # w => ~(job[v].inserted /\ job[v].row = j.row)
      BY <1>1, <1>3 DEF Blocked, WaitsFor
    <2>6. \A v \in Workers : v # w => \A t \in Sales : ~(HoldsItems(w, t)' /\ HoldsItems(v, t))
      BY <1>1, <2>2 DEF HoldsItems, OverlapSafe, ItemsMutex
    <2>7. \A v \in Workers : v # w => ~(job[v].inserted /\ job[v].row = job'[w].row)
      BY <2>2, <2>5
    <2> HIDE DEF k
    <2> QED
      BY <2>1, <2>4, <2>6, <2>7, OverlapAcked, OverlapLocal
  <1> QED
    BY <1>2, <1>3 DEF Insert

LEMMA OverlapMove ==
    ASSUME OverlapSafe, WellFormed', NEW w \in Workers, Move(w)
    PROVE  OverlapSafe'
PROOF
  <1> DEFINE j == job[w]
             m == LockPath[j.row][j.next]
             k == [j EXCEPT !.held = @ \cup {m}, !.buf[m] = Moved(j, m), !.next = @ + 1,
                            !.pc = IF j.next = Len(LockPath[j.row]) THEN "commit" ELSE "move"]
  <1>1. j \in JobType /\ j.pc = "move" /\ OverlapJob(j)
    BY DEF Move, OverlapSafe, WellFormed, TypeOK
  <1>2. /\ UNCHANGED <<tables, acked>>
        /\ \A v \in Workers : v # w => job'[v] = job[v]
        /\ job'[w] = k
    BY DEF Move, Step, OverlapSafe, WellFormed, TypeOK
  <1>3. /\ job'[w].pc \in {"move", "commit"} /\ job'[w].row = j.row /\ job'[w].seen = j.seen
        /\ job'[w].inserted = j.inserted /\ job'[w].restoring = j.restoring
    BY <1>1, <1>2 DEF JobType
  <1> HIDE DEF k
  <1>4. JobOriginal(job[w])'
    BY <1>1, <1>2, <1>3 DEF OverlapJob, JobOriginal, ReturnsOf, Returnable, tables
  <1>5. OverlapJob(job[w])'
    BY <1>1, <1>2, <1>3, <1>4 DEF OverlapJob, tables
  <1>6. job'[w].inserted =>
            \A v \in Workers : v # w => ~(job[v].inserted /\ job[v].row = job'[w].row)
    BY <1>3 DEF OverlapSafe, OneWriter
  <1>7. \A v \in Workers : v # w => \A t \in Sales : ~(HoldsItems(w, t)' /\ HoldsItems(v, t))
    BY <1>1, <1>3 DEF HoldsItems, OverlapSafe, ItemsMutex
  <1> QED
    BY <1>2, <1>5, <1>6, <1>7, OverlapAcked, OverlapLocal

\* A commit writes its own row only, a row once there stays, with the print it came
\* with, and a settled, printed sale stays settled.
LEMMA OverlapCommitTables ==
    ASSUME OverlapSafe, NEW w \in Workers, Commit(w)
    PROVE  /\ \A s \in Sales : s # job[w].row =>
                  trx'[s] = trx[s] /\ printedRow'[s] = printedRow[s]
           /\ \A s \in Sales : trx[s] # "absent" =>
                  trx'[s] # "absent" /\ printedRow'[s] = printedRow[s]
           /\ job[w].row \in Sales => booked' = booked /\ trx'[job[w].row] # "absent"
           /\ job[w].row \notin Sales => booked' = booked \cup {job[w].row}
           /\ \A s \in Sales : trx[s] = "COMPLETED" /\ printedRow[s] =>
                  trx'[s] = "COMPLETED" /\ printedRow'[s]
           /\ \A row : Exists(row) => Exists(row)'
PROOF
  <1> DEFINE j == job[w]
  <1>1. /\ j \in JobType /\ j.pc = "commit" /\ j.row \in Rows /\ OverlapJob(j)
        /\ trx \in [Sales -> Statuses \cup {"absent"}]
        /\ printedRow \in [Sales -> BOOLEAN]
    BY DEF Commit, OverlapSafe, WellFormed, TypeOK, JobPlace
  <1>2. CASE j.row \in Sales
    <2>1. /\ booked' = booked
          /\ trx' = [trx EXCEPT ![j.row] = NewStatus(j)]
          /\ printedRow' = [printedRow EXCEPT ![j.row] = IF j.inserted THEN j.printed ELSE @]
      BY <1>2 DEF Commit
    <2>2. /\ j.inserted <=> trx[j.row] = "absent"
          /\ j.restoring => ~j.inserted /\ ~printedRow[j.row]
      BY <1>1, <1>2 DEF OverlapJob
    <2>3. trx'[j.row] = NewStatus(j) /\ (trx[j.row] # "absent" => printedRow'[j.row] = printedRow[j.row])
      BY <1>1, <1>2, <2>1, <2>2
    <2>4. NewStatus(j) # "absent"
      BY <1>1, <2>2 DEF NewStatus, JobType, Statuses
    <2>5. trx[j.row] = "COMPLETED" /\ printedRow[j.row] => NewStatus(j) = "COMPLETED"
      BY <2>2 DEF NewStatus
    <2>6. \A s \in Sales : s # j.row => trx'[s] = trx[s] /\ printedRow'[s] = printedRow[s]
      BY <1>1, <2>1
    <2>7. \A row : Exists(row) => Exists(row)'
      BY <2>1, <2>3, <2>4, <2>6 DEF Exists
    <2>8. \A s \in Sales : trx[s] = "COMPLETED" /\ printedRow[s] =>
              trx'[s] = "COMPLETED" /\ printedRow'[s]
      BY <2>3, <2>5, <2>6
    <2> HIDE DEF j
    <2> QED
      BY <1>2, <2>1, <2>3, <2>4, <2>6, <2>7, <2>8 DEF j
  <1>3. CASE j.row \notin Sales
    <2>1. booked' = booked \cup {j.row} /\ trx' = trx /\ printedRow' = printedRow
      BY <1>3 DEF Commit
    <2> QED
      BY <1>3, <2>1 DEF Exists
  <1> QED
    BY <1>2, <1>3

LEMMA OverlapCommitOthers ==
    ASSUME OverlapSafe, NEW w \in Workers, Commit(w), NEW v \in Workers, v # w
    PROVE  OverlapJob(job[v])'
PROOF
  <1> DEFINE i == job[v]
             j == job[w]
  <1>1. /\ job'[v] = i /\ i \in JobType /\ OverlapJob(i)
        /\ j \in JobType /\ j.pc = "commit" /\ j.row \in Rows /\ OverlapJob(j)
    BY DEF Commit, OverlapSafe, WellFormed, TypeOK, JobPlace
  <1>2. i.pc \in {"move", "commit"} /\ i.row \in Sales =>
            /\ i.inserted <=> trx'[i.row] = "absent"
            /\ i.restoring => ~i.inserted /\ ~printedRow'[i.row]
    <2> SUFFICES ASSUME i.pc \in {"move", "commit"}, i.row \in Sales
                 PROVE  /\ i.inserted <=> trx'[i.row] = "absent"
                        /\ i.restoring => ~i.inserted /\ ~printedRow'[i.row]
      OBVIOUS
    <2>1. /\ i.inserted <=> trx[i.row] = "absent"
          /\ i.restoring => ~i.inserted /\ ~printedRow[i.row]
      BY <1>1 DEF OverlapJob
    <2>2. CASE i.row # j.row
      BY <2>1, <2>2, OverlapCommitTables
    <2>3. CASE i.row = j.row
      <3>1. j.inserted <=> trx[i.row] = "absent"
        BY <1>1, <2>3 DEF OverlapJob
      <3>2. ~(i.inserted /\ j.inserted)
        BY <2>3 DEF OverlapSafe, OneWriter
      <3> QED
        BY <2>1, <3>1, <3>2, OverlapCommitTables
    <2> QED
      BY <2>2, <2>3
  <1>3. JobOriginal(job[v])'
    <2> SUFFICES ASSUME i.row \in Returns PROVE JobOriginal(job[v])'
      BY <1>1 DEF JobOriginal
    <2>1. SaleOf[i.row] \in Sales
      BY RowsAssumption
    <2>2. trx[SaleOf[i.row]] = "COMPLETED" /\ printedRow[SaleOf[i.row]] =>
              trx'[SaleOf[i.row]] = "COMPLETED" /\ printedRow'[SaleOf[i.row]]
      BY <2>1, OverlapCommitTables
    <2>3. i.pc \in {"insert", "move", "commit"} =>
              ReturnsOf(SaleOf[i.row])' = ReturnsOf(SaleOf[i.row])
      <3> SUFFICES ASSUME i.pc \in {"insert", "move", "commit"}
                   PROVE  ReturnsOf(SaleOf[i.row])' = ReturnsOf(SaleOf[i.row])
        OBVIOUS
      <3>1. HoldsItems(v, SaleOf[i.row])
        BY DEF HoldsItems
      <3>2. ~HoldsItems(w, SaleOf[i.row])
        BY <2>1, <3>1 DEF OverlapSafe, ItemsMutex
      <3>3. j.row \in Returns => SaleOf[j.row] # SaleOf[i.row]
        BY <1>1, <3>2 DEF HoldsItems
      <3>4. booked' = booked \/ booked' = booked \cup {j.row}
        BY OverlapCommitTables
      <3>5. \A r \in Returns : SaleOf[r] = SaleOf[i.row] => (r \in booked' <=> r \in booked)
        BY <3>3, <3>4
      <3> QED
        BY <1>1, <3>5 DEF ReturnsOf
    <2> QED
      BY <1>1, <2>2, <2>3 DEF OverlapJob, JobOriginal, Returnable
  <1>4. i.pc = "reply" /\ i.outcome = "ok" => Exists(i.row)'
    BY <1>1, OverlapCommitTables DEF OverlapJob
  <1>5. Exists(job[v].row)' <=> Exists(i.row)'
    BY <1>1 DEF Exists
  <1> QED
    BY <1>1, <1>2, <1>3, <1>4, <1>5 DEF OverlapJob

LEMMA OverlapCommit ==
    ASSUME OverlapSafe, WellFormed', NEW w \in Workers, Commit(w)
    PROVE  OverlapSafe'
PROOF
  <1> DEFINE j == job[w]
  <1>1. j \in JobType /\ j.pc = "commit" /\ j.row \in Rows /\ OverlapJob(j)
    BY DEF Commit, OverlapSafe, WellFormed, TypeOK, JobPlace
  <1>2. /\ \A v \in Workers : v # w => job'[v] = job[v]
        /\ job'[w].pc = "reply" /\ job'[w].row = j.row
        /\ ~job'[w].inserted /\ ~job'[w].restoring
        /\ UNCHANGED acked
    BY DEF Commit, OverlapSafe, WellFormed, TypeOK, Answered, Idle
  <1>3. OverlapJob(job[w])'
    <2>1. Exists(job[w].row)'
      BY <1>1, <1>2, OverlapCommitTables DEF Exists
    <2> QED
      BY <1>2, <2>1 DEF OverlapJob, JobOriginal
  <1>4. OneWriter' /\ ItemsMutex'
    BY <1>2 DEF OverlapSafe, OneWriter, ItemsMutex, HoldsItems
  <1>5. ReturnsSettled'
    <2> SUFFICES ASSUME NEW r \in Returns, r \in booked'
                 PROVE  (trx[SaleOf[r]] = "COMPLETED" /\ printedRow[SaleOf[r]])'
      BY DEF ReturnsSettled
    <2>1. r \in booked \/ (r = j.row /\ j.row \in Returns)
      BY OverlapCommitTables
    <2>2. trx[SaleOf[r]] = "COMPLETED" /\ printedRow[SaleOf[r]]
      BY <1>1, <2>1 DEF OverlapSafe, ReturnsSettled, OverlapJob, JobOriginal
    <2>3. SaleOf[r] \in Sales
      BY RowsAssumption
    <2> QED
      BY <2>2, <2>3, OverlapCommitTables
  <1>6. AckedIsBooked'
    BY <1>2, OverlapCommitTables DEF OverlapSafe, AckedIsBooked
  <1>7. ASSUME NEW v \in Workers PROVE OverlapJob(job[v])'
    BY <1>3, OverlapCommitOthers
  <1> QED
    BY <1>4, <1>5, <1>6, <1>7 DEF OverlapSafe

LEMMA OverlapStep ==
    ASSUME OverlapSafe, [Next]_vars
    PROVE  OverlapSafe'
PROOF
  <1>1. WellFormed'
    BY WellFormedStep DEF OverlapSafe
  <1>2. ASSUME UNCHANGED <<tables, job, acked>> PROVE OverlapSafe'
    <2>1. ASSUME NEW v \in Workers PROVE OverlapJob(job[v])'
      BY <1>2, OverlapOther DEF OverlapSafe
    <2>2. OneWriter' /\ ItemsMutex' /\ ReturnsSettled'
      BY <1>2 DEF OverlapSafe, OneWriter, ItemsMutex, HoldsItems, ReturnsSettled, tables
    <2> QED
      BY <1>1, <1>2, <2>1, <2>2, OverlapAcked DEF OverlapSafe
  <1>3. CASE UNCHANGED vars
    BY <1>2, <1>3 DEF vars
  <1>4. ASSUME \/ \E s \in Sales : TillSell(s) \/ TillPrint(s) \/ TillOpenVoid(s) \/ TillVoid(s)
               \/ \E x \in Wastes : TillWaste(x)
               \/ \E r \in Returns : TillReturn(r)
        PROVE  OverlapSafe'
    <2>1. UNCHANGED <<tables, job, acked>>
      BY <1>4 DEF TillSell, TillPrint, TillOpenVoid, TillVoid, TillWaste, TillReturn
    <2> QED
      BY <1>2, <2>1
  <1>5. ASSUME NEW w \in Workers, NEW row \in Rows, Receive(w, row) PROVE OverlapSafe'
    BY <1>1, <1>5, OverlapReceive
  <1>6. ASSUME NEW w \in Workers, LockStep(w) \/ Advance(w) PROVE OverlapSafe'
    BY <1>1, <1>6, OverlapLockItems, OverlapInsert, OverlapMove, OverlapLookupSale,
       OverlapLookupOther, OverlapCheckOriginal, OverlapCommit, OverlapAnswer
       DEF LockStep, Advance
  <1>7. ASSUME NEW w \in Workers, Abort(w) \/ DeadlockVictim(w) PROVE OverlapSafe'
    BY <1>1, <1>7, OverlapFinish DEF Abort, DeadlockVictim
  <1> QED
    BY <1>3, <1>4, <1>5, <1>6, <1>7 DEF Next

\* Whatever rows the requests carry, the same one in several of them included: a row is
\* inserted by one transaction at a time and only where there is none, and what a return
\* found about its sale, and about the returns before it, holds until it commits.
THEOREM OverlapIsolation == Spec => []OverlapSafe
PROOF
  <1>1. ASSUME Init PROVE OverlapSafe
    <2>1. \A w \in Workers : OverlapJob(job[w])
      BY <1>1 DEF Init, Idle, OverlapJob, JobOriginal
    <2>2. OneWriter /\ ItemsMutex /\ ReturnsSettled /\ AckedIsBooked
      BY <1>1 DEF Init, Idle, OneWriter, ItemsMutex, HoldsItems, ReturnsSettled, AckedIsBooked
    <2> QED
      BY <1>1, <2>1, <2>2, IsolatedInit DEF OverlapSafe, TransactionsIsolated
  <1>2. OverlapSafe /\ [Next]_vars => OverlapSafe'
    BY OverlapStep
  <1> QED
    BY <1>1, <1>2, PTL DEF Spec

\* Whatever overlaps, what a till was told is synced is on the books in some form.
THEOREM AckedBooked == Spec => []AckedIsBooked
PROOF
  <1>1. OverlapSafe => AckedIsBooked
    BY DEF OverlapSafe
  <1> QED
    BY <1>1, OverlapIsolation, PTL

\* Whatever overlaps, a sale with a booked return is never voided, by any path.
THEOREM ReturnedSalesStand == Spec => []ReturnedNeverVoided
PROOF
  <1>1. OverlapSafe => ReturnedNeverVoided
    BY DEF OverlapSafe, ReturnsSettled, ReturnedNeverVoided, ReturnsOf
  <1> QED
    BY <1>1, OverlapIsolation, PTL

OverReturnInv ==
    /\ OverlapSafe
    /\ IsFiniteSet(booked)
    /\ NeverOverReturned

LEMMA OverReturnStep ==
    ASSUME OverReturnInv, [Next]_vars
    PROVE  OverReturnInv'
PROOF
  <1>1. OverlapSafe'
    BY OverlapStep DEF OverReturnInv
  <1>2. CASE UNCHANGED tables
    BY <1>1, <1>2 DEF OverReturnInv, NeverOverReturned, ReturnsOf, tables
  <1>3. ASSUME NEW w \in Workers, Commit(w) PROVE OverReturnInv'
    <2> DEFINE r == job[w].row
    <2>1. booked' \in {booked, booked \cup {r}} /\ (r \in Sales => booked' = booked)
      BY <1>3, OverlapCommitTables DEF OverReturnInv
    <2>2. IsFiniteSet(booked')
      BY <2>1, FS_AddElement DEF OverReturnInv
    <2>3. ASSUME NEW t \in Sales PROVE Quantity[ReturnsOf(t)'] <= SoldQty[t]
      <3>1. CASE ReturnsOf(t)' = ReturnsOf(t)
        BY <3>1 DEF OverReturnInv, NeverOverReturned
      <3>2. CASE ReturnsOf(t)' # ReturnsOf(t)
        <4>1. /\ r \in Returns /\ SaleOf[r] = t /\ r \notin booked
              /\ ReturnsOf(t)' = ReturnsOf(t) \cup {r}
          BY <2>1, <3>2 DEF ReturnsOf
        <4>2. ReturnQty[r] <= Returnable(t, ReturnsOf(t))
          BY <1>3, <4>1 DEF OverReturnInv, OverlapSafe, OverlapJob, JobOriginal, Commit
        <4>3. /\ ReturnsOf(t) \in SUBSET Returns /\ IsFiniteSet(ReturnsOf(t))
              /\ r \notin ReturnsOf(t)
          <5>1. ReturnsOf(t) \subseteq booked /\ ReturnsOf(t) \subseteq Returns
            BY DEF ReturnsOf
          <5> QED
            BY <4>1, <5>1, FS_Subset DEF OverReturnInv
        <4>4. /\ Quantity[ReturnsOf(t)] \in Nat
              /\ Quantity[ReturnsOf(t) \cup {r}] = Quantity[ReturnsOf(t)] + ReturnQty[r]
          BY <4>1, <4>3, QuantityIsNat, QuantityGrows
        <4>5. ReturnQty[r] \in Nat \ {0} /\ SoldQty[t] \in Nat
          BY <4>1, RowsAssumption
        <4> QED
          BY <4>1, <4>2, <4>4, <4>5 DEF Returnable
      <3> QED
        BY <3>1, <3>2
    <2> QED
      BY <1>1, <2>2, <2>3 DEF OverReturnInv, NeverOverReturned
  <1> QED
    BY <1>2, <1>3, TablesOrCommit

\* Whatever overlaps, the same return in several requests included, no more of a sale
\* comes back than was sold (SnapshotForReturn, validateAgainstSnapshot).
THEOREM OverReturnImpossible == Spec => []NeverOverReturned
PROOF
  <1>1. ASSUME Init PROVE IsFiniteSet(booked) /\ NeverOverReturned
    <2>1. IsFiniteSet(booked) /\ \A s \in Sales : ReturnsOf(s) = {}
      BY <1>1, EmptyTables DEF FiniteTables
    <2>2. Quantity[{}] = 0
      BY SumOfNone DEF Quantity
    <2>3. \A s \in Sales : SoldQty[s] \in Nat /\ SoldQty[s] >= 0
      BY RowsAssumption
    <2> QED
      BY <2>1, <2>2, <2>3 DEF NeverOverReturned
  <1>2. OverReturnInv /\ [Next]_vars => OverReturnInv'
    BY OverReturnStep
  <1>3. OverReturnInv => OverlapSafe /\ IsFiniteSet(booked) /\ NeverOverReturned
    BY DEF OverReturnInv
  <1>4. Spec => []OverlapSafe
    BY OverlapIsolation
  <1>5. Init /\ OverlapSafe => OverReturnInv
    BY <1>1 DEF OverReturnInv
  <1> QED
    BY <1>2, <1>3, <1>4, <1>5, PTL DEF Spec
=============================================================================
