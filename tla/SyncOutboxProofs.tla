---------------------------- MODULE SyncOutboxProofs ----------------------------
(***************************************************************************)
(* The safety properties of the outbox, for any number of shifts, sales,   *)
(* engines and abandoned requests.                                         *)
(*                                                                         *)
(* What makes them inductive: no copy is ahead of the till's row, whether  *)
(* it is in a request or on the server (Behind), and the server only moves *)
(* on (ServerMovesOn), so that a row once confirmed as it is stays so.     *)
(* When the cashier changes no row during a request, what a request        *)
(* carries is what the till has (Fresh); and the totals of a shift, on the *)
(* server or in the hand of a request that has read them, are right about  *)
(* every sale that some answer or flag vouches for, unless two requests    *)
(* had them in hand at once (TotalsTrue, HandsTrue).                       *)
(***************************************************************************)
EXTENDS SyncOutbox, FiniteSetTheorems, TLAPS

\* A request carries rows the till has, each sale with its shift, and no newer copy.
RowsBehind(b, shifts, sales) ==
    /\ \A h \in DOMAIN b.shifts : /\ shifts[h] # "none"
                                  /\ b.shifts[h] = "CLOSED" => shifts[h] = "CLOSED"
    /\ \A s \in DOMAIN b.sales : /\ sales[s] # "none"
                                 /\ ShiftOf[s] \in DOMAIN b.shifts
                                 /\ b.sales[s] = "VOIDED" => sales[s] = "VOIDED"

RequestsBehind ==
    \A r \in Requests : request[r].pc # "idle" => RowsBehind(request[r].batch, shift, sale)

\* Totals count sales of their shift.
OfShift(counted, h) == \A s \in counted : ShiftOf[s] = h /\ sale[s] # "none"

ServerBehind ==
    /\ \A h \in Shifts : /\ srvShift[h] = "CLOSED" => shift[h] = "CLOSED"
                         /\ OfShift(totals[h], h)
    /\ \A s \in Sales : /\ srvSale[s] = "VOIDED" => sale[s] = "VOIDED"
                        /\ srvSale[s] # "none" => sale[s] # "none"

\* What the server still has to settle for a request are shifts the request closes.
DueWhole ==
    \A r \in Requests :
        /\ request[r].due # {} => request[r].pc = "settling"
        /\ request[r].due \subseteq ClosedIn(request[r].batch)
        /\ \A t \in request[r].hand : OfShift(t.counted, t.shift)

\* Sales are made in shifts, and flags are set on rows that are there.
TillWhole ==
    /\ \A s \in Sales : sale[s] # "none" => shift[ShiftOf[s]] # "none"
    /\ \A h \in syncedShifts : shift[h] # "none"

\* No copy of a row is ahead of the till's.
Behind == RequestsBehind /\ ServerBehind /\ DueWhole /\ TillWhole

\* The server has stored the request's rows.
Past(j) == j.pc \in {"settling", "answered"}

Accepted(j) == DOMAIN j.batch.sales \ j.answer.failed

\* What an answer accepts is on the server in some form, and it counts only shifts of
\* its request.
AnswersWhole ==
    \A e \in Engines : Past(request[e]) =>
        /\ \A s \in Accepted(request[e]) : srvSale[s] # "none"
        /\ request[e].answer.shiftsSynced \subseteq DOMAIN request[e].batch.shifts

\* A request under way carries the rows as they are.
RequestFresh(j) ==
    /\ \A h \in DOMAIN j.batch.shifts : j.batch.shifts[h] = shift[h]
    /\ \A s \in DOMAIN j.batch.sales : j.batch.sales[s] = sale[s]

\* An answer tells what is on the server.
AnswerFresh(j) ==
    /\ \A s \in Accepted(j) : srvSale[s] = sale[s]
    /\ \A h \in DOMAIN j.batch.shifts \ j.answer.fatalShifts : srvShift[h] = shift[h]

EngineFresh(e) ==
    /\ request[e].pc # "idle" => RequestFresh(request[e])
    /\ Past(request[e]) => AnswerFresh(request[e])

\* A request of the till's counts the shift as synced.
Settled(e, h) == Past(request[e]) /\ h \in request[e].answer.shiftsSynced

Claimed(h) == h \in syncedShifts \/ \E e \in Engines : Settled(e, h)

\* The sales that the totals of h should be right about.
Vouched(h) ==
    {s \in Sales : /\ ShiftOf[s] = h
                   /\ \/ s \in syncedSales
                      \/ \E e \in Engines : Settled(e, h) /\ s \in Accepted(request[e])}

RightAbout(counted, s) == s \in counted <=> sale[s] = "COMPLETED"

TotalsTrue ==
    \A h \in Shifts \ raced : shift[h] = "CLOSED" /\ Claimed(h) =>
        \A s \in Vouched(h) : RightAbout(totals[h], s)

\* The sales that a request in which h is being settled will vouch for.
Own(r, h) == IF r \in Engines THEN {s \in Accepted(request[r]) : ShiftOf[s] = h} ELSE {}

HandTrue(r, t) ==
    t.shift \notin raced =>
        \A s \in Vouched(t.shift) \cup Own(r, t.shift) : RightAbout(t.counted, s)

HandsTrue == \A r \in Requests : \A t \in request[r].hand : HandTrue(r, t)

Fresh ==
    /\ \A e \in Engines : EngineFresh(e)
    /\ SyncedSaleIsRecorded
    /\ SyncedShiftIsRecorded
    /\ TotalsTrue
    /\ HandsTrue

Inv ==
    /\ TypeOK
    /\ Behind
    /\ AnswersWhole
    /\ NoSaleVanishes
    /\ ~ChangesInFlight => Fresh

-----------------------------------------------------------------------------
(* Types *)

LEMMA BatchTyped ==
    ASSUME NEW b \in Batches
    PROVE  /\ DOMAIN b.shifts \subseteq Shifts
           /\ DOMAIN b.sales \subseteq Sales
           /\ \A h \in DOMAIN b.shifts : b.shifts[h] \in {"OPEN", "CLOSED"}
           /\ \A s \in DOMAIN b.sales : b.sales[s] \in Statuses
BY DEF Batches

LEMMA BatchMade ==
    ASSUME NEW H \in SUBSET Shifts, NEW S \in SUBSET Sales, NEW B \in SUBSET (Shifts \X Shifts),
           NEW f \in [H -> {"OPEN", "CLOSED"}], NEW g \in [S -> Statuses]
    PROVE  [shifts |-> f, before |-> B, sales |-> g] \in Batches
BY DEF Batches

LEMMA RestingTyped ==
    /\ Resting \in Jobs /\ NoAnswer \in Answers
    /\ Resting.pc = "idle" /\ Resting.due = {} /\ Resting.hand = {}
<1>1. <<>> \in [{} -> {"OPEN", "CLOSED"}] /\ <<>> \in [{} -> Statuses]
  OBVIOUS
<1>2. NoRows \in Batches
  BY <1>1, BatchMade DEF NoRows
<1>3. NoAnswer \in Answers
  BY DEF NoAnswer, Answers
<1> QED
  BY <1>2, <1>3 DEF Resting, Jobs

\* The rows of a request are rows of the till's.
LEMMA RowsOf ==
    ASSUME TypeOK, NEW r \in Requests
    PROVE  /\ request[r] \in Jobs /\ request[r].batch \in Batches
           /\ DOMAIN request[r].batch.shifts \subseteq Shifts
           /\ DOMAIN request[r].batch.sales \subseteq Sales
           /\ Accepted(request[r]) \subseteq DOMAIN request[r].batch.sales
<1>1. request[r] \in Jobs
  BY DEF TypeOK
<1>2. request[r].batch \in Batches
  BY <1>1 DEF Jobs
<1> QED
  BY <1>1, <1>2, BatchTyped DEF Accepted

-----------------------------------------------------------------------------
(* What a step does to the requests *)

Only(r) == \A q \in Requests \ {r} : request'[q] = request[q]

LEMMA Replaced ==
    ASSUME TypeOK, NEW r \in Requests, NEW j \in Jobs, request' = [request EXCEPT ![r] = j]
    PROVE  request' \in [Requests -> Jobs] /\ request'[r] = j /\ Only(r)
BY DEF TypeOK, Only

LEMMA GoesOn ==
    ASSUME TypeOK, NEW r \in Requests, NEW j \in Jobs, Goes(r, j)
    PROVE  /\ request' \in [Requests -> Jobs] /\ Only(r)
           /\ \/ r \in Abandoned /\ request'[r] = Resting
              \/ /\ Past(request'[r])
                 /\ j.due # {} => request'[r].pc = "settling"
                 /\ request'[r].batch = j.batch /\ request'[r].answer = j.answer
                 /\ request'[r].due = j.due /\ request'[r].hand = j.hand
<1>1. CASE j.due # {}
  <2>1. request' = [request EXCEPT ![r] = [j EXCEPT !.pc = "settling"]]
    BY <1>1 DEF Goes
  <2>2. PICK k : k = [j EXCEPT !.pc = "settling"]
    OBVIOUS
  <2>3. /\ k \in Jobs /\ k.pc = "settling" /\ k.batch = j.batch /\ k.answer = j.answer
        /\ k.due = j.due /\ k.hand = j.hand
    BY <2>2 DEF Jobs
  <2>4. request' \in [Requests -> Jobs] /\ request'[r] = k /\ Only(r)
    BY <2>1, <2>2, <2>3, Replaced
  <2> QED
    BY <2>3, <2>4 DEF Past
<1>2. CASE j.due = {} /\ r \in Abandoned
  <2>1. request' = [request EXCEPT ![r] = Resting]
    BY <1>2 DEF Goes
  <2> QED
    BY <1>2, <2>1, RestingTyped, Replaced
<1>3. CASE j.due = {} /\ r \notin Abandoned
  <2>1. request' = [request EXCEPT ![r] = [j EXCEPT !.pc = "answered"]]
    BY <1>3 DEF Goes
  <2>2. PICK k : k = [j EXCEPT !.pc = "answered"]
    OBVIOUS
  <2>3. /\ k \in Jobs /\ k.pc = "answered" /\ k.batch = j.batch /\ k.answer = j.answer
        /\ k.due = j.due /\ k.hand = j.hand
    BY <2>2 DEF Jobs
  <2>4. request' \in [Requests -> Jobs] /\ request'[r] = k /\ Only(r)
    BY <2>1, <2>2, <2>3, Replaced
  <2> QED
    BY <1>3, <2>3, <2>4 DEF Past
<1> QED
  BY <1>1, <1>2, <1>3

LEMMA SendMakes ==
    ASSUME TypeOK, Behind
    PROVE  /\ BatchShifts \subseteq Shifts /\ BatchSales \subseteq Sales
           /\ \A h \in BatchShifts : shift[h] # "none"
           /\ \A s \in BatchSales : sale[s] # "none" /\ ShiftOf[s] \in BatchShifts
           /\ Batch \in Batches
           /\ Batch.shifts = [h \in BatchShifts |-> shift[h]]
           /\ Batch.sales = [s \in BatchSales |-> sale[s]]
<1>1. \A s \in BatchSales : s \in Sales /\ sale[s] # "none" /\ ShiftOf[s] \in BatchShifts
  BY DEF BatchSales, CollectedSales, QueuedSales, BatchShifts
<1>2. \A h \in BatchShifts : h \in Shifts /\ shift[h] # "none"
  BY <1>1, OutboxAssumption DEF BatchShifts, QueuedShifts, Behind, TillWhole
<1>3. /\ [h \in BatchShifts |-> shift[h]] \in [BatchShifts -> {"OPEN", "CLOSED"}]
      /\ [s \in BatchSales |-> sale[s]] \in [BatchSales -> Statuses]
  BY <1>1, <1>2 DEF TypeOK
<1>4. /\ BatchShifts \in SUBSET Shifts
      /\ BatchSales \in SUBSET Sales
  BY <1>1, <1>2
<1>5. {p \in BatchShifts \X BatchShifts : Precedes(p[1], p[2])} \in SUBSET (Shifts \X Shifts)
  BY <1>4
<1>6. Batch \in Batches
  BY <1>3, <1>4, <1>5, BatchMade DEF Batch
<1>7. /\ Batch.shifts = [h \in BatchShifts |-> shift[h]]
      /\ Batch.sales = [s \in BatchSales |-> sale[s]]
  BY DEF Batch
<1> QED
  BY <1>1, <1>2, <1>6, <1>7

\* Sales that do not add up are held; a request goes out if there is something else.
LEMMA SendDoes ==
    ASSUME TypeOK, Behind, NEW e \in Engines, Send(e)
    PROVE  /\ request' \in [Requests -> Jobs] /\ Only(e) /\ request[e].pc = "idle"
           /\ \/ request' = request
              \/ /\ request'[e].pc = "waiting" /\ request'[e].batch = Batch
                 /\ request'[e].due = {} /\ request'[e].hand = {}
           /\ UNCHANGED <<till, syncedShifts, syncedSales, heldShifts, outage, server>>
           /\ heldSales' \subseteq Sales
<1>1. /\ request[e].pc = "idle"
      /\ UNCHANGED <<till, syncedShifts, syncedSales, heldShifts, outage, server>>
      /\ \/ request' = request
         \/ request' = [request EXCEPT ![e] = [Resting EXCEPT !.pc = "waiting", !.batch = Batch]]
  BY DEF Send
<1>2. heldSales' \subseteq Sales
  BY DEF Send, TypeOK, CollectedSales, QueuedSales
<1>3. PICK k : k = [Resting EXCEPT !.pc = "waiting", !.batch = Batch]
  OBVIOUS
<1>4. k = [pc |-> "waiting", batch |-> Batch, answer |-> NoAnswer, due |-> {}, hand |-> {}]
  BY <1>3 DEF Resting
<1>5. k \in Jobs
  BY <1>4, SendMakes, RestingTyped DEF Jobs
<1>6. k.pc = "waiting" /\ k.due = {} /\ k.hand = {} /\ k.batch = Batch
  BY <1>4
<1>7. CASE request' = request
  BY <1>1, <1>2, <1>7 DEF TypeOK, Only
<1>8. CASE request' # request
  <2>1. request' \in [Requests -> Jobs] /\ request'[e] = k /\ Only(e)
    BY <1>1, <1>3, <1>5, <1>8, Replaced DEF Requests
  <2> QED
    BY <1>1, <1>2, <1>6, <2>1, Zenon
<1> QED
  BY <1>7, <1>8

LEMMA GiveUpDoes ==
    ASSUME TypeOK, NEW e \in Engines, GiveUp(e)
    PROVE  /\ request' \in [Requests -> Jobs] /\ request'[e] = Resting
           /\ \A q \in Requests \ {e} :
                 \/ request'[q] = request[q]
                 \/ q \in Abandoned /\ request[e].pc # "idle" /\ request'[q] = request[e]
<1>1. e \in Requests /\ e \notin Abandoned /\ request \in [Requests -> Jobs]
  BY OutboxAssumption DEF Requests, TypeOK
<1>2. CASE request' = [request EXCEPT ![e] = Resting]
  BY <1>1, <1>2, RestingTyped
<1>3. CASE \E r \in Abandoned :
              /\ request[e].pc # "answered" /\ request[r].pc = "idle"
              /\ request' = [request EXCEPT ![e] = Resting, ![r] = request[e]]
  <2>1. PICK r \in Abandoned : request' = [request EXCEPT ![e] = Resting, ![r] = request[e]]
    BY <1>3
  <2>2. request[e].pc # "idle"
    BY DEF GiveUp
  <2> QED
    BY <1>1, <2>1, <2>2, RestingTyped
<1> QED
  BY <1>2, <1>3 DEF GiveUp

LEMMA RestDoes ==
    ASSUME TypeOK, NEW r \in Requests, request' = [request EXCEPT ![r] = Resting]
    PROVE  request' \in [Requests -> Jobs] /\ request'[r] = Resting /\ Only(r)
BY RestingTyped, Replaced

LEMMA StoreTyped ==
    ASSUME TypeOK, NEW b \in Batches, NEW lostShifts, NEW lostSales
    PROVE  /\ AnswerTo(b, lostShifts, lostSales) \in Answers
           /\ Saved(b, lostShifts) \subseteq DOMAIN b.shifts
           /\ Stored(b, lostShifts, lostSales) \subseteq DOMAIN b.sales
           /\ ClosedIn(b) \subseteq Shifts
<1>1. /\ Saved(b, lostShifts) \subseteq DOMAIN b.shifts
      /\ Stored(b, lostShifts, lostSales) \subseteq DOMAIN b.sales
      /\ ClosedIn(b) \subseteq DOMAIN b.shifts
  BY DEF Saved, Stored, ClosedIn
<1>2. DOMAIN b.shifts \subseteq Shifts /\ DOMAIN b.sales \subseteq Sales
  BY BatchTyped
<1>3. /\ (DOMAIN b.sales \cap Refused)
            \cup {s \in VoidedLate(b) \ lostSales : srvSale[s] # "none"} \subseteq Sales
      /\ DOMAIN b.sales \ Stored(b, lostShifts, lostSales) \subseteq Sales
      /\ DOMAIN b.shifts \ Saved(b, lostShifts) \subseteq Shifts
      /\ Saved(b, lostShifts) \ ClosedIn(b) \subseteq Shifts
  BY <1>1, <1>2 DEF VoidedLate
<1>4. AnswerTo(b, lostShifts, lostSales) \in Answers
  BY <1>3 DEF AnswerTo, Answers
<1> QED
  BY <1>1, <1>2, <1>4

\* What a request becomes when its rows are stored.
LEMMA StoreDoes ==
    ASSUME TypeOK, Behind, NEW r \in Requests, NEW lostShifts, NEW lostSales,
           Store(r, lostShifts, lostSales)
    PROVE  /\ request' \in [Requests -> Jobs] /\ Only(r)
           /\ \/ r \in Abandoned /\ request'[r] = Resting
              \/ /\ Past(request'[r])
                 /\ request'[r].due # {} => request'[r].pc = "settling"
                 /\ request'[r].batch = request[r].batch
                 /\ request'[r].answer = AnswerTo(request[r].batch, lostShifts, lostSales)
                 /\ request'[r].due =
                       Saved(request[r].batch, lostShifts) \cap ClosedIn(request[r].batch)
                 /\ request'[r].hand = {}
<1>1. PICK b, a, due, j :
         /\ b = request[r].batch
         /\ a = AnswerTo(b, lostShifts, lostSales)
         /\ due = Saved(b, lostShifts) \cap ClosedIn(b)
         /\ j = [request[r] EXCEPT !.due = due, !.answer = a]
  OBVIOUS
<1>2. request[r] \in Jobs /\ b \in Batches
  BY <1>1, RowsOf
<1>3. a \in Answers /\ due \subseteq Shifts
  BY <1>1, <1>2, StoreTyped
<1>4. j = [pc |-> request[r].pc, batch |-> b, answer |-> a, due |-> due,
           hand |-> request[r].hand]
  BY <1>1, <1>2 DEF Jobs
<1>5. j \in Jobs
  BY <1>2, <1>3, <1>4 DEF Jobs
<1>6. Goes(r, j)
  BY <1>1 DEF Store
<1>7. request[r].hand = {}
  <2>1. request[r].due = {}
    BY DEF Store, Behind, DueWhole
  <2> QED
    BY <2>1 DEF TypeOK, IsNext
<1>8. j.batch = b /\ j.answer = a /\ j.due = due /\ j.hand = {}
  BY <1>4, <1>7
<1> QED
  BY <1>1, <1>5, <1>6, <1>8, GoesOn

\* What a request becomes when it is done with a shift's totals.
LEMMA OnwardDoes ==
    ASSUME TypeOK, NEW r \in Requests, NEW h \in Shifts, NEW done \in SUBSET {h},
           Goes(r, Onward(request[r], h, done))
    PROVE  /\ request' \in [Requests -> Jobs] /\ Only(r)
           /\ \/ r \in Abandoned /\ request'[r] = Resting
              \/ /\ Past(request'[r])
                 /\ request'[r].due # {} => request'[r].pc = "settling"
                 /\ request'[r].batch = request[r].batch
                 /\ request'[r].due = request[r].due \ {h}
                 /\ request'[r].hand = {}
                 /\ request'[r].answer.shiftsSynced = request[r].answer.shiftsSynced \cup done
                 /\ request'[r].answer.failed = request[r].answer.failed
                 /\ request'[r].answer.fatalShifts = request[r].answer.fatalShifts
<1>1. PICK j, k, a : /\ j = request[r] /\ k = Onward(j, h, done)
                     /\ a = [j.answer EXCEPT !.shiftsSynced = @ \cup done]
  OBVIOUS
<1>2. j \in Jobs /\ j.answer \in Answers
  BY <1>1, RowsOf DEF Jobs
<1>3. /\ a \in Answers /\ a.shiftsSynced = j.answer.shiftsSynced \cup done
      /\ a.failed = j.answer.failed /\ a.fatalShifts = j.answer.fatalShifts
  BY <1>1, <1>2 DEF Answers
<1>4. k = [pc |-> j.pc, batch |-> j.batch, answer |-> a, due |-> j.due \ {h}, hand |-> {}]
  BY <1>1, <1>2 DEF Onward, Jobs
<1>5. k \in Jobs
  BY <1>2, <1>3, <1>4 DEF Jobs
<1>6. k.batch = j.batch /\ k.due = j.due \ {h} /\ k.hand = {} /\ k.answer = a
  BY <1>4
<1>7. Goes(r, k)
  BY <1>1
<1>8. /\ request' \in [Requests -> Jobs] /\ Only(r)
      /\ \/ r \in Abandoned /\ request'[r] = Resting
         \/ /\ Past(request'[r])
            /\ k.due # {} => request'[r].pc = "settling"
            /\ request'[r].batch = k.batch /\ request'[r].answer = k.answer
            /\ request'[r].due = k.due /\ request'[r].hand = k.hand
  BY <1>5, <1>7, GoesOn
<1>9. CASE r \in Abandoned /\ request'[r] = Resting
  BY <1>8, <1>9
<1>10. CASE ~(r \in Abandoned /\ request'[r] = Resting)
  <2>1. /\ Past(request'[r])
        /\ request'[r].due # {} => request'[r].pc = "settling"
        /\ request'[r].due = request[r].due \ {h} /\ request'[r].hand = {}
        /\ request'[r].batch = request[r].batch /\ request'[r].answer = a
    BY <1>1, <1>6, <1>8, <1>10
  <2> QED
    BY <1>1, <1>3, <1>8, <2>1
<1> QED
  BY <1>9, <1>10

LEMMA ReadDoes ==
    ASSUME TypeOK, NEW r \in Requests, ReadTotals(r)
    PROVE  /\ request' \in [Requests -> Jobs] /\ Only(r)
           /\ \E h \in Shifts :
                 /\ IsNext(r, h)
                 /\ request'[r].hand = {[shift |-> h, counted |-> TenderTotals(h)]}
           /\ request'[r].pc = request[r].pc /\ request'[r].batch = request[r].batch
           /\ request'[r].answer = request[r].answer /\ request'[r].due = request[r].due
<1>1. request[r] \in Jobs
  BY RowsOf
<1>2. PICK h \in request[r].due :
         /\ IsNext(r, h)
         /\ request' = [request EXCEPT ![r].hand =
                            {[shift |-> h, counted |-> TenderTotals(h)]}]
  BY DEF ReadTotals
<1>3. h \in Shifts /\ TenderTotals(h) \subseteq Sales
  BY <1>1 DEF Jobs, TenderTotals
<1>4. PICK n, k : /\ n = {[shift |-> h, counted |-> TenderTotals(h)]}
                  /\ k = [request[r] EXCEPT !.hand = n]
  OBVIOUS
<1>5. n \subseteq [shift : Shifts, counted : SUBSET Sales]
  BY <1>3, <1>4
<1>6. k = [pc |-> request[r].pc, batch |-> request[r].batch, answer |-> request[r].answer,
           due |-> request[r].due, hand |-> n]
  BY <1>1, <1>4 DEF Jobs
<1>7. k \in Jobs
  BY <1>1, <1>5, <1>6 DEF Jobs
<1>8. request' = [request EXCEPT ![r] = k]
  BY <1>2, <1>4 DEF TypeOK
<1>9. request' \in [Requests -> Jobs] /\ request'[r] = k /\ Only(r)
  BY <1>7, <1>8, Replaced
<1>10. /\ k.pc = request[r].pc /\ k.batch = request[r].batch
       /\ k.answer = request[r].answer /\ k.due = request[r].due /\ k.hand = n
  BY <1>6
<1> QED
  BY <1>2, <1>3, <1>4, <1>9, <1>10

\* Totals in hand are of a closed shift of the request.
LEMMA HandIs ==
    ASSUME TypeOK, Behind, NEW r \in Requests, NEW t \in request[r].hand
    PROVE  /\ t.shift \in Shifts /\ t.counted \subseteq Sales
           /\ t.shift \in request[r].due /\ IsNext(r, t.shift)
           /\ request[r].pc = "settling" /\ Past(request[r])
           /\ t.shift \in DOMAIN request[r].batch.shifts
           /\ shift[t.shift] = "CLOSED"
<1>1. t \in [shift : Shifts, counted : SUBSET Sales]
  BY RowsOf DEF Jobs
<1>2. IsNext(r, t.shift) /\ t.shift \in request[r].due
  BY DEF TypeOK, IsNext
<1>3. request[r].pc = "settling" /\ t.shift \in ClosedIn(request[r].batch)
  BY <1>2 DEF Behind, DueWhole
<1>4. shift[t.shift] = "CLOSED"
  BY <1>3 DEF Behind, RequestsBehind, RowsBehind, ClosedIn
<1> QED
  BY <1>1, <1>2, <1>3, <1>4 DEF Past, ClosedIn

LEMMA WriteDoes ==
    ASSUME TypeOK, Behind, NEW r \in Requests, WriteTotals(r)
    PROVE  \E t \in request[r].hand :
              /\ totals' = [totals EXCEPT ![t.shift] = t.counted]
              /\ raced' = raced \cup {h \in {t.shift} : Overlapped(r, h)}
              /\ Goes(r, Onward(request[r], t.shift, {t.shift}))
              /\ UNCHANGED <<till, flags, outage, srvShift, srvSale>>
              /\ t.shift \in Shifts /\ t.counted \subseteq Sales
BY HandIs DEF WriteTotals

LEMMA FailDoes ==
    ASSUME TypeOK, NEW r \in Requests, TotalsFail(r)
    PROVE  \E h \in Shifts : /\ h \in request[r].due
                             /\ Goes(r, Onward(request[r], h, {}))
                             /\ UNCHANGED <<till, flags, outage, server>>
<1>1. request[r].due \subseteq Shifts
  BY RowsOf DEF Jobs
<1> QED
  BY <1>1 DEF TotalsFail

-----------------------------------------------------------------------------
(* What storing a request's rows does to the server *)

LEMMA ServerStores ==
    ASSUME TypeOK, NEW b \in Batches, NEW lostShifts, NEW lostSales,
           srvShift' = ShiftsAfter(b, lostShifts),
           srvSale' = SalesAfter(b, lostShifts, lostSales)
    PROVE  /\ srvShift' \in [Shifts -> {"none", "OPEN", "CLOSED"}]
           /\ srvSale' \in [Sales -> Statuses \cup {"none"}]
           /\ \A h \in Shifts :
                 /\ srvShift[h] = "CLOSED" => srvShift'[h] = "CLOSED"
                 /\ srvShift'[h] = srvShift[h]
                       \/ (h \in DOMAIN b.shifts /\ srvShift'[h] = b.shifts[h])
           /\ \A s \in Sales :
                 /\ srvSale[s] = "VOIDED" => srvSale'[s] = "VOIDED"
                 /\ srvSale[s] # "none" => srvSale'[s] # "none"
                 /\ srvSale'[s] = srvSale[s]
                       \/ (s \in DOMAIN b.sales /\ srvSale'[s] = b.sales[s])
<1>1. /\ Saved(b, lostShifts) \subseteq DOMAIN b.shifts
      /\ Stored(b, lostShifts, lostSales) \subseteq DOMAIN b.sales
      /\ \A h \in Saved(b, lostShifts) : b.shifts[h] = "OPEN" => srvShift[h] # "CLOSED"
  BY DEF Saved, Stored
<1>2. /\ srvShift' \in [Shifts -> {"none", "OPEN", "CLOSED"}]
      /\ srvSale' \in [Sales -> Statuses \cup {"none"}]
  BY <1>1, BatchTyped DEF TypeOK, ShiftsAfter, SalesAfter, Statuses
<1>3. ASSUME NEW h \in Shifts
      PROVE  /\ srvShift[h] = "CLOSED" => srvShift'[h] = "CLOSED"
             /\ srvShift'[h] = srvShift[h]
                   \/ (h \in DOMAIN b.shifts /\ srvShift'[h] = b.shifts[h])
  BY <1>1, BatchTyped DEF ShiftsAfter
<1>4. ASSUME NEW s \in Sales
      PROVE  /\ srvSale[s] = "VOIDED" => srvSale'[s] = "VOIDED"
             /\ srvSale[s] # "none" => srvSale'[s] # "none"
             /\ srvSale'[s] = srvSale[s]
                   \/ (s \in DOMAIN b.sales /\ srvSale'[s] = b.sales[s])
  BY <1>1, BatchTyped DEF TypeOK, SalesAfter, Statuses
<1> QED
  BY <1>2, <1>3, <1>4

\* What an answer says of the rows it confirms.
Told(b, a) ==
    /\ \A s \in DOMAIN b.sales \ a.failed :
          srvSale'[s] # "none" /\ (srvSale'[s] = b.sales[s] \/ srvSale'[s] = "VOIDED")
    /\ \A h \in DOMAIN b.shifts \ a.fatalShifts : srvShift'[h] = b.shifts[h]
    /\ \A h \in a.shiftsSynced : h \in DOMAIN b.shifts /\ b.shifts[h] # "CLOSED"

LEMMA AnswerTells ==
    ASSUME TypeOK, NEW b \in Batches, NEW lostShifts, NEW lostSales,
           srvShift' = ShiftsAfter(b, lostShifts),
           srvSale' = SalesAfter(b, lostShifts, lostSales)
    PROVE  Told(b, AnswerTo(b, lostShifts, lostSales))
<1>1. PICK a, saved, stored : /\ a = AnswerTo(b, lostShifts, lostSales)
                              /\ saved = Saved(b, lostShifts)
                              /\ stored = Stored(b, lostShifts, lostSales)
  OBVIOUS
<1>2. saved \subseteq DOMAIN b.shifts /\ stored \subseteq DOMAIN b.sales
  BY <1>1 DEF Saved, Stored
<1>3. /\ a.failed = DOMAIN b.sales \ stored
      /\ a.fatalShifts = DOMAIN b.shifts \ saved
      /\ a.shiftsSynced = saved \ ClosedIn(b)
  BY <1>1 DEF AnswerTo
<1>4. ASSUME NEW s \in DOMAIN b.sales \ a.failed
      PROVE  srvSale'[s] # "none" /\ (srvSale'[s] = b.sales[s] \/ srvSale'[s] = "VOIDED")
  BY <1>1, <1>2, <1>3, BatchTyped DEF SalesAfter, Statuses
<1>5. ASSUME NEW h \in DOMAIN b.shifts \ a.fatalShifts
      PROVE  srvShift'[h] = b.shifts[h]
  BY <1>1, <1>2, <1>3, BatchTyped DEF ShiftsAfter
<1>6. \A h \in a.shiftsSynced : h \in DOMAIN b.shifts /\ b.shifts[h] # "CLOSED"
  BY <1>2, <1>3 DEF ClosedIn
<1>7. Told(b, a)
  BY <1>4, <1>5, <1>6 DEF Told
<1> QED
  BY <1>1, <1>7

LEMMA StoreTells ==
    ASSUME TypeOK, Behind, NEW r \in Requests, NEW lostShifts, NEW lostSales,
           Store(r, lostShifts, lostSales)
    PROVE  /\ request[r].pc = "waiting" /\ UNCHANGED <<till, flags, outage, totals, raced>>
           /\ request[r].batch \in Batches /\ RowsBehind(request[r].batch, shift, sale)
           /\ srvShift' = ShiftsAfter(request[r].batch, lostShifts)
           /\ srvSale' = SalesAfter(request[r].batch, lostShifts, lostSales)
           /\ r \in Engines =>
                 /\ Past(request'[r]) /\ request'[r].batch = request[r].batch
                 /\ request'[r].hand = {}
                 /\ Told(request[r].batch, request'[r].answer)
<1>1. /\ request[r].pc = "waiting" /\ UNCHANGED <<till, flags, outage, totals, raced>>
      /\ srvShift' = ShiftsAfter(request[r].batch, lostShifts)
      /\ srvSale' = SalesAfter(request[r].batch, lostShifts, lostSales)
  BY DEF Store
<1>2. request[r].batch \in Batches /\ RowsBehind(request[r].batch, shift, sale)
  BY <1>1, RowsOf DEF Behind, RequestsBehind
<1>3. ASSUME r \in Engines
      PROVE  /\ Past(request'[r]) /\ request'[r].batch = request[r].batch
             /\ request'[r].hand = {}
             /\ request'[r].answer = AnswerTo(request[r].batch, lostShifts, lostSales)
  BY <1>3, StoreDoes, OutboxAssumption
<1>4. Told(request[r].batch, AnswerTo(request[r].batch, lostShifts, lostSales))
  BY <1>1, <1>2, AnswerTells
<1> QED
  BY <1>1, <1>2, <1>3, <1>4

-----------------------------------------------------------------------------
(* Type correctness *)

HandsDue == \A r \in Requests : \A t \in request[r].hand : IsNext(r, t.shift)

LEMMA HandsStayDue ==
    ASSUME TypeOK,
           \A q \in Requests : \/ request'[q] = request[q]
                               \/ request'[q].hand = {}
                               \/ \E r \in Requests : request'[q] = request[r]
    PROVE  HandsDue'
<1>1. ASSUME NEW q \in Requests, NEW r \in Requests, request'[q] = request[r],
             NEW t \in request'[q].hand
      PROVE  IsNext(q, t.shift)'
  BY <1>1 DEF TypeOK, IsNext
<1> QED
  BY <1>1 DEF HandsDue

LEMMA TypeStep ==
    ASSUME TypeOK, Behind, [Next]_vars
    PROVE  TypeOK'
<1> USE DEF till, flags, server, vars
<1>0. ASSUME request' \in [Requests -> Jobs], HandsDue',
             UNCHANGED <<till, flags, outage, server>>
      PROVE  TypeOK'
  BY <1>0 DEF TypeOK, HandsDue
<1>1. ASSUME NEW h \in Shifts, OpenShift(h) \/ CloseShift(h)
      PROVE  TypeOK'
  BY <1>1 DEF OpenShift, CloseShift, TypeOK, IsNext
<1>2. ASSUME NEW s \in Sales, Sell(s) \/ VoidSale(s)
      PROVE  TypeOK'
  BY <1>2 DEF Sell, VoidSale, Statuses, TypeOK, IsNext
<1>3. ASSUME NEW e \in Engines, Send(e)
      PROVE  TypeOK'
  <2>1. /\ e \in Requests /\ request' \in [Requests -> Jobs] /\ Only(e)
        /\ request' = request \/ request'[e].hand = {}
        /\ UNCHANGED <<till, syncedShifts, syncedSales, heldShifts, outage, server>>
        /\ heldSales' \subseteq Sales
    BY <1>3, SendDoes DEF Requests
  <2>2. HandsDue'
    BY <2>1, HandsStayDue DEF Only
  <2> QED
    BY <2>1, <2>2 DEF TypeOK, HandsDue
<1>4. ASSUME NEW e \in Engines, GiveUp(e)
      PROVE  TypeOK'
  <2>1. /\ e \in Requests /\ request' \in [Requests -> Jobs] /\ request'[e] = Resting
        /\ \A q \in Requests \ {e} : request'[q] = request[q] \/ request'[q] = request[e]
    BY <1>4, GiveUpDoes DEF Requests
  <2>2. HandsDue'
    BY <2>1, RestingTyped, HandsStayDue
  <2> QED
    BY <1>0, <1>4, <2>1, <2>2 DEF GiveUp
<1>5. ASSUME NEW r \in Requests, request' = [request EXCEPT ![r] = Resting]
      PROVE  request' \in [Requests -> Jobs] /\ HandsDue'
  <2>1. request' \in [Requests -> Jobs] /\ request'[r].hand = {} /\ Only(r)
    BY <1>5, RestDoes, RestingTyped
  <2> QED
    BY <2>1, HandsStayDue DEF Only
<1>6. ASSUME NEW e \in Engines, Reconcile(e)
      PROVE  TypeOK'
  <2>1. e \in Requests /\ request' \in [Requests -> Jobs] /\ HandsDue'
    BY <1>5, <1>6 DEF Reconcile, Requests
  <2>2. /\ request[e].answer.fatalShifts \subseteq Shifts
        /\ request[e].answer.fatalSales \subseteq Sales
    BY <2>1, RowsOf DEF Jobs, Answers
  <2>3. /\ GoodShifts(request[e]) \subseteq Shifts
        /\ GoodSales(request[e]) \subseteq Sales
    BY <2>1, RowsOf DEF GoodShifts, GoodSales
  <2>4. /\ syncedShifts' \subseteq Shifts /\ syncedSales' \subseteq Sales
        /\ heldShifts' \subseteq Shifts /\ heldSales' \subseteq Sales
    BY <1>6, <2>2, <2>3 DEF Reconcile, TypeOK
  <2> QED
    BY <1>6, <2>1, <2>4 DEF Reconcile, TypeOK, HandsDue
<1>7. ASSUME NEW r \in Requests, NEW lostShifts, NEW lostSales,
             Store(r, lostShifts, lostSales)
      PROVE  TypeOK'
  <2>1. request' \in [Requests -> Jobs] /\ Only(r) /\ request'[r].hand = {}
    BY <1>7, StoreDoes, RestingTyped
  <2>2. HandsDue'
    BY <2>1, HandsStayDue DEF Only
  <2>3. /\ srvShift' \in [Shifts -> {"none", "OPEN", "CLOSED"}]
        /\ srvSale' \in [Sales -> Statuses \cup {"none"}]
        /\ UNCHANGED <<till, flags, outage, totals, raced>>
    BY <1>7, StoreTells, ServerStores
  <2> QED
    BY <2>1, <2>2, <2>3 DEF TypeOK, HandsDue
<1>8. ASSUME NEW r \in Requests, ReadTotals(r)
      PROVE  TypeOK'
  <2>1. /\ request' \in [Requests -> Jobs] /\ Only(r)
        /\ request'[r].due = request[r].due /\ request'[r].batch = request[r].batch
    BY <1>8, ReadDoes
  <2>2. PICK h \in Shifts : /\ IsNext(r, h)
                            /\ request'[r].hand = {[shift |-> h, counted |-> TenderTotals(h)]}
    BY <1>8, ReadDoes
  <2>3. ASSUME NEW q \in Requests, NEW t \in request'[q].hand
        PROVE  IsNext(q, t.shift)'
    BY <2>1, <2>2, <2>3 DEF TypeOK, IsNext, Only
  <2>4. HandsDue'
    BY <2>3 DEF HandsDue
  <2> QED
    BY <1>0, <1>8, <2>1, <2>4 DEF ReadTotals
<1>9. ASSUME NEW r \in Requests, NEW h \in Shifts, NEW done \in SUBSET {h},
             Goes(r, Onward(request[r], h, done))
      PROVE  request' \in [Requests -> Jobs] /\ HandsDue'
  <2>1. request' \in [Requests -> Jobs] /\ Only(r) /\ request'[r].hand = {}
    BY <1>9, OnwardDoes, RestingTyped
  <2> QED
    BY <2>1, HandsStayDue DEF Only
<1>10. ASSUME NEW r \in Requests, WriteTotals(r)
       PROVE  TypeOK'
  <2>1. PICK t \in request[r].hand :
           /\ totals' = [totals EXCEPT ![t.shift] = t.counted]
           /\ raced' = raced \cup {h \in {t.shift} : Overlapped(r, h)}
           /\ Goes(r, Onward(request[r], t.shift, {t.shift}))
           /\ UNCHANGED <<till, flags, outage, srvShift, srvSale>>
           /\ t.shift \in Shifts /\ t.counted \subseteq Sales
    BY <1>10, WriteDoes
  <2>2. request' \in [Requests -> Jobs] /\ HandsDue'
    BY <1>9, <2>1
  <2>3. totals' \in [Shifts -> SUBSET Sales] /\ raced' \subseteq Shifts
    BY <2>1 DEF TypeOK
  <2> QED
    BY <2>1, <2>2, <2>3 DEF TypeOK, HandsDue
<1>11. ASSUME NEW r \in Requests, TotalsFail(r)
       PROVE  TypeOK'
  <2>1. PICK h \in Shifts : /\ Goes(r, Onward(request[r], h, {}))
                            /\ UNCHANGED <<till, flags, outage, server>>
    BY <1>11, FailDoes
  <2>2. request' \in [Requests -> Jobs] /\ HandsDue'
    BY <1>9, <2>1
  <2> QED
    BY <1>0, <2>1, <2>2
<1>12. ASSUME NEW r \in Abandoned, Lose(r)
       PROVE  TypeOK'
  BY <1>0, <1>5, <1>12 DEF Lose, Requests
<1>13. CASE OutageEnds \/ UNCHANGED vars
  BY <1>13 DEF OutageEnds, TypeOK, IsNext
<1> QED
  BY <1>1, <1>2, <1>3, <1>4, <1>6, <1>7, <1>8, <1>10, <1>11, <1>12, <1>13 DEF Next

-----------------------------------------------------------------------------
(* The till's rows only move on, and no copy is ahead of them *)

TillOnward ==
    /\ \A h \in Shifts : /\ shift[h] # "none" => shift'[h] # "none"
                         /\ shift[h] = "CLOSED" => shift'[h] = "CLOSED"
    /\ \A s \in Sales : /\ sale[s] # "none" => sale'[s] # "none"
                        /\ sale[s] = "VOIDED" => sale'[s] = "VOIDED"

CashierStep ==
    \/ \E h \in Shifts : OpenShift(h) \/ CloseShift(h)
    \/ \E s \in Sales : Sell(s) \/ VoidSale(s)

LEMMA CashierMovesOn ==
    ASSUME TypeOK, CashierStep
    PROVE  TillOnward
<1>1. ASSUME NEW h \in Shifts, OpenShift(h) \/ CloseShift(h)
      PROVE  TillOnward
  BY <1>1 DEF OpenShift, CloseShift, TillOnward, TypeOK
<1>2. ASSUME NEW s \in Sales, Sell(s) \/ VoidSale(s)
      PROVE  TillOnward
  BY <1>2 DEF Sell, VoidSale, TillOnward, TypeOK
<1> QED
  BY <1>1, <1>2 DEF CashierStep

LEMMA RowsStayBehind ==
    ASSUME TillOnward, NEW b \in Batches, RowsBehind(b, shift, sale)
    PROVE  RowsBehind(b, shift', sale')
BY BatchTyped DEF TillOnward, RowsBehind

LEMMA CashierBehind ==
    ASSUME TypeOK, Behind, CashierStep
    PROVE  Behind'
<1>1. TillOnward /\ UNCHANGED <<request, server>>
  BY CashierMovesOn DEF CashierStep, OpenShift, CloseShift, Sell, VoidSale
<1>2. RequestsBehind'
  <2>1. ASSUME NEW r \in Requests, request[r].pc # "idle"
        PROVE  RowsBehind(request[r].batch, shift', sale')
    <3>1. request[r].batch \in Batches /\ RowsBehind(request[r].batch, shift, sale)
      BY <2>1, RowsOf DEF Behind, RequestsBehind
    <3> QED
      BY <1>1, <3>1, RowsStayBehind
  <2> QED
    BY <1>1, <2>1 DEF RequestsBehind
<1>3. ASSUME NEW counted \in SUBSET Sales, NEW h, OfShift(counted, h)
      PROVE  \A s \in counted : ShiftOf[s] = h /\ sale'[s] # "none"
  BY <1>1, <1>3 DEF OfShift, TillOnward
<1>4. ServerBehind'
  <2>1. ASSUME NEW h \in Shifts
        PROVE  \A s \in totals[h] : ShiftOf[s] = h /\ sale'[s] # "none"
    BY <1>3 DEF Behind, ServerBehind, TypeOK
  <2> QED
    BY <1>1, <2>1 DEF Behind, ServerBehind, TillOnward, server, OfShift
<1>5. DueWhole'
  <2>1. ASSUME NEW r \in Requests, NEW t \in request[r].hand
        PROVE  \A s \in t.counted : ShiftOf[s] = t.shift /\ sale'[s] # "none"
    <3>1. t.counted \subseteq Sales /\ OfShift(t.counted, t.shift)
      BY HandIs DEF Behind, DueWhole
    <3> QED
      BY <1>3, <3>1
  <2> QED
    BY <1>1, <2>1 DEF Behind, DueWhole, OfShift
<1>6. TillWhole'
  <2>1. ASSUME NEW h \in Shifts, OpenShift(h) \/ CloseShift(h)
        PROVE  TillWhole'
    <3>1. sale' = sale /\ syncedShifts' \subseteq syncedShifts
      BY <2>1 DEF OpenShift, CloseShift, flags
    <3>2. syncedShifts \subseteq Shifts /\ \A s \in Sales : ShiftOf[s] \in Shifts
      BY OutboxAssumption DEF TypeOK
    <3> QED
      BY <1>1, <3>1, <3>2 DEF Behind, TillWhole, TillOnward
  <2>2. ASSUME NEW s \in Sales, Sell(s) \/ VoidSale(s)
        PROVE  TillWhole'
    BY <2>2, OutboxAssumption DEF Sell, VoidSale, flags, Behind, TillWhole, TypeOK
  <2> QED
    BY <2>1, <2>2 DEF CashierStep
<1> QED
  BY <1>2, <1>4, <1>5, <1>6 DEF Behind

\* Requests that are copied or at rest stay behind the till.
LEMMA RequestsStayBehind ==
    ASSUME Behind, UNCHANGED till,
           \A q \in Requests : \/ request'[q] = Resting
                               \/ \E r \in Requests : request'[q] = request[r]
    PROVE  RequestsBehind' /\ DueWhole'
<1>1. ASSUME NEW q \in Requests, request'[q] = Resting
      PROVE  /\ request'[q].pc = "idle" /\ request'[q].due = {} /\ request'[q].hand = {}
  BY <1>1, RestingTyped
<1>2. RequestsBehind'
  BY <1>1 DEF Behind, RequestsBehind, till
<1>3. DueWhole'
  BY <1>1 DEF Behind, DueWhole, OfShift, till
<1> QED
  BY <1>2, <1>3

\* One request goes on with the rows it was sent with.
LEMMA OneGoesOn ==
    ASSUME Behind, UNCHANGED till, NEW r \in Requests, Only(r),
           request[r].pc # "idle", request'[r].batch = request[r].batch,
           request'[r].due # {} => request'[r].pc = "settling",
           request'[r].due \subseteq ClosedIn(request[r].batch),
           \A t \in request'[r].hand : OfShift(t.counted, t.shift)
    PROVE  RequestsBehind' /\ DueWhole'
<1>1. RequestsBehind'
  BY DEF Behind, RequestsBehind, Only, till
<1>2. DueWhole'
  BY DEF Behind, DueWhole, OfShift, Only, till, ClosedIn
<1> QED
  BY <1>1, <1>2

LEMMA OnwardBehind ==
    ASSUME TypeOK, Behind, UNCHANGED till, NEW r \in Requests, NEW h \in request[r].due,
           NEW done \in SUBSET {h}, Goes(r, Onward(request[r], h, done))
    PROVE  RequestsBehind' /\ DueWhole'
<1>1. h \in Shifts
  BY RowsOf DEF Jobs
<1>2. CASE request'[r] = Resting
  <2>1. Only(r)
    BY <1>1, OnwardDoes
  <2> QED
    BY <1>2, <2>1, RequestsStayBehind DEF Only
<1>3. CASE request'[r] # Resting
  <2>1. /\ Only(r) /\ request'[r].batch = request[r].batch
        /\ request'[r].due # {} => request'[r].pc = "settling"
        /\ request'[r].due = request[r].due \ {h} /\ request'[r].hand = {}
    BY <1>1, <1>3, OnwardDoes
  <2>2. request[r].pc # "idle" /\ request[r].due \subseteq ClosedIn(request[r].batch)
    BY DEF Behind, DueWhole
  <2> QED
    BY <2>1, <2>2, OneGoesOn
<1> QED
  BY <1>2, <1>3

LEMMA BehindStep ==
    ASSUME TypeOK, Behind, [Next]_vars
    PROVE  Behind'
<1>0. ASSUME RequestsBehind', DueWhole', UNCHANGED <<till, flags, server>>
      PROVE  Behind'
  BY <1>0 DEF Behind, ServerBehind, TillWhole, till, flags, server, OfShift
<1>1. CASE CashierStep
  BY <1>1, CashierBehind
<1>2. ASSUME NEW e \in Engines, Send(e)
      PROVE  Behind'
  <2>1. /\ Only(e)
        /\ \/ request' = request
           \/ request'[e].batch = Batch /\ request'[e].due = {} /\ request'[e].hand = {}
        /\ UNCHANGED <<till, syncedShifts, syncedSales, server>>
    BY <1>2, SendDoes
  <2>2. RowsBehind(Batch, shift, sale)
    BY SendMakes DEF RowsBehind
  <2>3. RequestsBehind'
    BY <2>1, <2>2 DEF Behind, RequestsBehind, Only, till
  <2>4. DueWhole'
    BY <2>1 DEF Behind, DueWhole, OfShift, Only, till
  <2>5. ServerBehind' /\ TillWhole'
    BY <2>1 DEF Behind, ServerBehind, TillWhole, till, server, OfShift
  <2> QED
    BY <2>3, <2>4, <2>5 DEF Behind
<1>3. ASSUME NEW e \in Engines, GiveUp(e)
      PROVE  Behind'
  <2>1. \A q \in Requests : request'[q] = Resting \/ \E r \in Requests : request'[q] = request[r]
    BY <1>3, GiveUpDoes DEF Requests
  <2>2. UNCHANGED <<till, flags, server>>
    BY <1>3 DEF GiveUp
  <2>3. RequestsBehind' /\ DueWhole'
    BY <2>1, <2>2, RequestsStayBehind
  <2> QED
    BY <1>0, <2>2, <2>3
<1>4. ASSUME NEW r \in Requests, request' = [request EXCEPT ![r] = Resting], UNCHANGED till
      PROVE  RequestsBehind' /\ DueWhole'
  <2>1. request'[r] = Resting /\ Only(r)
    BY <1>4, RestDoes
  <2> QED
    BY <1>4, <2>1, RequestsStayBehind DEF Only
<1>5. ASSUME NEW e \in Engines, Reconcile(e)
      PROVE  Behind'
  <2>1. e \in Requests /\ UNCHANGED <<till, server>>
    BY <1>5 DEF Reconcile, Requests
  <2>2. RequestsBehind' /\ DueWhole'
    BY <1>4, <1>5, <2>1 DEF Reconcile
  <2>3. ServerBehind'
    BY <2>1 DEF Behind, ServerBehind, OfShift, till, server
  <2>4. syncedShifts' \subseteq syncedShifts \cup DOMAIN request[e].batch.shifts
    BY <1>5 DEF Reconcile, GoodShifts
  <2>5. \A h \in DOMAIN request[e].batch.shifts : shift[h] # "none"
    BY <1>5, <2>1 DEF Reconcile, Behind, RequestsBehind, RowsBehind
  <2>6. TillWhole'
    BY <2>1, <2>4, <2>5 DEF Behind, TillWhole, till
  <2> QED
    BY <2>2, <2>3, <2>6 DEF Behind
<1>6. ASSUME NEW r \in Requests, NEW lostShifts, NEW lostSales,
             Store(r, lostShifts, lostSales)
      PROVE  Behind'
  <2>1. PICK b : b = request[r].batch
    OBVIOUS
  <2>2. /\ request[r].pc = "waiting" /\ UNCHANGED <<till, flags, totals>>
        /\ b \in Batches /\ RowsBehind(b, shift, sale)
        /\ srvShift' = ShiftsAfter(b, lostShifts)
        /\ srvSale' = SalesAfter(b, lostShifts, lostSales)
    BY <1>6, <2>1, StoreTells
  <2>3. ServerBehind'
    <3>1. ASSUME NEW h \in Shifts
          PROVE  /\ srvShift'[h] = "CLOSED" => shift'[h] = "CLOSED"
                 /\ OfShift(totals[h], h)'
      BY <2>2, ServerStores DEF Behind, ServerBehind, RowsBehind, till, OfShift
    <3>2. ASSUME NEW s \in Sales
          PROVE  /\ srvSale'[s] = "VOIDED" => sale'[s] = "VOIDED"
                 /\ srvSale'[s] # "none" => sale'[s] # "none"
      BY <2>2, ServerStores DEF Behind, ServerBehind, RowsBehind, till
    <3> QED
      BY <2>2, <3>1, <3>2 DEF ServerBehind, OfShift
  <2>4. RequestsBehind' /\ DueWhole'
    <3>1. CASE request'[r] = Resting
      <4>1. Only(r)
        BY <1>6, StoreDoes
      <4> QED
        BY <2>2, <3>1, <4>1, RequestsStayBehind DEF Only
    <3>2. CASE request'[r] # Resting
      <4>1. /\ Only(r) /\ request'[r].batch = request[r].batch
            /\ request'[r].due # {} => request'[r].pc = "settling"
            /\ request'[r].due \subseteq ClosedIn(request[r].batch)
            /\ request'[r].hand = {}
        BY <1>6, <3>2, StoreDoes
      <4> QED
        BY <2>2, <4>1, OneGoesOn
    <3> QED
      BY <3>1, <3>2
  <2>5. TillWhole'
    BY <2>2 DEF Behind, TillWhole, till, flags
  <2> QED
    BY <2>3, <2>4, <2>5 DEF Behind
<1>7. ASSUME NEW r \in Requests, ReadTotals(r)
      PROVE  Behind'
  <2>1. PICK h \in Shifts : /\ IsNext(r, h)
                            /\ request'[r].hand = {[shift |-> h, counted |-> TenderTotals(h)]}
    BY <1>7, ReadDoes
  <2>2. /\ Only(r) /\ request'[r].pc = request[r].pc
        /\ request'[r].batch = request[r].batch /\ request'[r].due = request[r].due
    BY <1>7, ReadDoes
  <2>3. /\ request[r].pc = "settling" /\ request[r].due \subseteq ClosedIn(request[r].batch)
        /\ UNCHANGED <<till, flags, server>>
    BY <1>7, <2>1 DEF Behind, DueWhole, IsNext, ReadTotals
  <2>4. OfShift(TenderTotals(h), h)
    BY DEF OfShift, TenderTotals, Behind, ServerBehind
  <2>5. \A t \in request'[r].hand : OfShift(t.counted, t.shift)
    BY <2>1, <2>4
  <2>6. RequestsBehind' /\ DueWhole'
    BY <2>2, <2>3, <2>5, OneGoesOn
  <2> QED
    BY <1>0, <2>3, <2>6
<1>8. ASSUME NEW r \in Requests, WriteTotals(r)
      PROVE  Behind'
  <2>1. PICK t \in request[r].hand :
           /\ totals' = [totals EXCEPT ![t.shift] = t.counted]
           /\ Goes(r, Onward(request[r], t.shift, {t.shift}))
           /\ UNCHANGED <<till, flags, outage, srvShift, srvSale>>
    BY <1>8, WriteDoes
  <2>2. /\ t.shift \in Shifts /\ t.shift \in request[r].due
        /\ OfShift(t.counted, t.shift)
    BY HandIs DEF Behind, DueWhole
  <2>3. RequestsBehind' /\ DueWhole'
    BY <2>1, <2>2, OnwardBehind
  <2>4. \A h \in Shifts : OfShift(totals'[h], h)
    BY <2>1, <2>2 DEF Behind, ServerBehind, TypeOK
  <2>5. ServerBehind'
    BY <2>1, <2>4 DEF Behind, ServerBehind, OfShift, till
  <2> QED
    BY <2>1, <2>3, <2>5 DEF Behind, TillWhole, till, flags
<1>9. ASSUME NEW r \in Requests, TotalsFail(r)
      PROVE  Behind'
  <2>1. PICK h \in Shifts : /\ h \in request[r].due
                            /\ Goes(r, Onward(request[r], h, {}))
                            /\ UNCHANGED <<till, flags, outage, server>>
    BY <1>9, FailDoes
  <2>2. RequestsBehind' /\ DueWhole'
    BY <2>1, OnwardBehind
  <2> QED
    BY <1>0, <2>1, <2>2
<1>10. ASSUME NEW r \in Abandoned, Lose(r)
       PROVE  Behind'
  <2>1. RequestsBehind' /\ DueWhole'
    BY <1>4, <1>10 DEF Lose, Requests
  <2> QED
    BY <1>0, <1>10, <2>1 DEF Lose
<1>11. CASE OutageEnds \/ UNCHANGED vars
  <2>1. UNCHANGED <<till, flags, request, server>>
    BY <1>11 DEF OutageEnds, vars
  <2>2. RequestsBehind' /\ DueWhole'
    BY <2>1, RequestsStayBehind
  <2> QED
    BY <1>0, <2>1, <2>2
<1> QED
  BY <1>1, <1>2, <1>3, <1>5, <1>6, <1>7, <1>8, <1>9, <1>10, <1>11 DEF Next, CashierStep

-----------------------------------------------------------------------------
(* The server moves on, and what it accepted it has *)

ServerMovesOn ==
    /\ \A h \in Shifts : srvShift[h] = "CLOSED" => srvShift'[h] = "CLOSED"
    /\ \A s \in Sales : /\ srvSale[s] = "VOIDED" => srvSale'[s] = "VOIDED"
                        /\ srvSale[s] # "none" => srvSale'[s] # "none"

\* The server's rows change only when it stores those of a request.
LEMMA ServerSteps ==
    ASSUME [Next]_vars
    PROVE  \/ UNCHANGED <<srvShift, srvSale>>
           \/ \E r \in Requests : \E lostShifts, lostSales : Store(r, lostShifts, lostSales)
<1>1. CASE \/ OutageEnds
           \/ \E h \in Shifts : OpenShift(h) \/ CloseShift(h)
           \/ \E s \in Sales : Sell(s) \/ VoidSale(s)
           \/ \E e \in Engines : Send(e) \/ GiveUp(e) \/ Reconcile(e)
           \/ \E r \in Requests : ReadTotals(r) \/ WriteTotals(r) \/ TotalsFail(r)
           \/ \E r \in Abandoned : Lose(r)
           \/ UNCHANGED vars
  BY <1>1 DEF OutageEnds, OpenShift, CloseShift, Sell, VoidSale, Send, GiveUp, Reconcile,
              ReadTotals, WriteTotals, TotalsFail, Lose, vars, server
<1> QED
  BY <1>1 DEF Next

LEMMA OnwardStep ==
    ASSUME TypeOK, Behind, [Next]_vars
    PROVE  ServerMovesOn
<1>1. CASE UNCHANGED <<srvShift, srvSale>>
  BY <1>1 DEF ServerMovesOn
<1>2. ASSUME NEW r \in Requests, NEW lostShifts, NEW lostSales,
             Store(r, lostShifts, lostSales)
      PROVE  ServerMovesOn
  <2>1. PICK b \in Batches : /\ srvShift' = ShiftsAfter(b, lostShifts)
                             /\ srvSale' = SalesAfter(b, lostShifts, lostSales)
    BY <1>2, StoreTells
  <2> QED
    BY <2>1, ServerStores DEF ServerMovesOn
<1> QED
  BY <1>1, <1>2, ServerSteps

\* What an answer says is so.
AnswerWhole(e) ==
    Past(request[e]) =>
        /\ \A s \in Accepted(request[e]) : srvSale[s] # "none"
        /\ request[e].answer.shiftsSynced \subseteq DOMAIN request[e].batch.shifts

LEMMA StoredStep ==
    ASSUME TypeOK, Behind, AnswersWhole, NoSaleVanishes, [Next]_vars
    PROVE  AnswersWhole' /\ NoSaleVanishes'
<1>1. \A s \in Sales : srvSale[s] # "none" => srvSale'[s] # "none"
  BY OnwardStep DEF ServerMovesOn
<1>2. ASSUME NEW e \in Engines, request'[e] = request[e] \/ ~Past(request'[e])
      PROVE  AnswerWhole(e)'
  <2>1. Accepted(request[e]) \subseteq Sales
    BY RowsOf DEF Requests
  <2> QED
    BY <1>1, <1>2, <2>1 DEF AnswersWhole, AnswerWhole, Accepted
<1>3. ASSUME syncedSales' \subseteq syncedSales
      PROVE  NoSaleVanishes'
  BY <1>1, <1>3 DEF NoSaleVanishes, TypeOK
<1>4. ASSUME \A e \in Engines : AnswerWhole(e)'
      PROVE  AnswersWhole'
  BY <1>4 DEF AnswersWhole, AnswerWhole
<1>5. ~Past(Resting)
  BY RestingTyped DEF Past
<1>6. CASE CashierStep \/ OutageEnds \/ UNCHANGED vars
  <2>1. request' = request /\ syncedSales' \subseteq syncedSales
    BY <1>6 DEF CashierStep, OpenShift, CloseShift, Sell, VoidSale, OutageEnds, vars, flags
  <2> QED
    BY <1>2, <1>3, <1>4, <2>1
<1>7. ASSUME NEW e \in Engines, Send(e)
      PROVE  AnswersWhole' /\ NoSaleVanishes'
  <2>1. ~Past(request'[e]) /\ Only(e) /\ syncedSales' = syncedSales
    BY <1>7, SendDoes DEF Past
  <2> QED
    BY <1>2, <1>3, <1>4, <2>1 DEF Only, Requests
<1>8. ASSUME NEW e \in Engines, GiveUp(e)
      PROVE  AnswersWhole' /\ NoSaleVanishes'
  <2>1. /\ request'[e] = Resting /\ syncedSales' = syncedSales
        /\ \A d \in Engines \ {e} : request'[d] = request[d]
    BY <1>8, GiveUpDoes, OutboxAssumption DEF GiveUp, flags, Requests
  <2> QED
    BY <1>2, <1>3, <1>4, <1>5, <2>1
<1>9. ASSUME NEW e \in Engines, Reconcile(e)
      PROVE  AnswersWhole' /\ NoSaleVanishes'
  <2>1. request'[e] = Resting /\ Only(e)
    BY <1>9, RestDoes DEF Reconcile, Requests
  <2>2. AnswersWhole'
    BY <1>2, <1>4, <1>5, <2>1 DEF Only, Requests
  <2>3. /\ GoodSales(request[e]) \subseteq Accepted(request[e])
        /\ Accepted(request[e]) \subseteq Sales
    BY RowsOf DEF GoodSales, Accepted, Requests
  <2>4. NoSaleVanishes'
    BY <1>1, <1>9, <2>3 DEF Reconcile, AnswersWhole, NoSaleVanishes, TypeOK, Past
  <2> QED
    BY <2>2, <2>4
<1>10. ASSUME NEW r \in Requests, Only(r), syncedSales' = syncedSales,
              r \in Engines => AnswerWhole(r)'
       PROVE  AnswersWhole' /\ NoSaleVanishes'
  BY <1>2, <1>3, <1>4, <1>10 DEF Only, Requests
<1>11. ASSUME NEW r \in Requests, NEW lostShifts, NEW lostSales,
              Store(r, lostShifts, lostSales)
       PROVE  AnswersWhole' /\ NoSaleVanishes'
  <2>1. Only(r) /\ syncedSales' = syncedSales
    BY <1>11, StoreDoes DEF Store, flags
  <2>2. ASSUME r \in Engines
        PROVE  AnswerWhole(r)'
    BY <1>11, <2>2, StoreTells DEF Told, AnswerWhole, Accepted
  <2> QED
    BY <1>10, <2>1, <2>2
<1>12. ASSUME NEW r \in Requests, ReadTotals(r)
       PROVE  AnswersWhole' /\ NoSaleVanishes'
  <2>1. /\ Only(r) /\ syncedSales' = syncedSales /\ srvSale' = srvSale
        /\ request'[r].pc = request[r].pc /\ request'[r].batch = request[r].batch
        /\ request'[r].answer = request[r].answer
    BY <1>12, ReadDoes DEF ReadTotals, flags, server
  <2>2. ASSUME r \in Engines
        PROVE  AnswerWhole(r)'
    BY <2>1, <2>2 DEF AnswersWhole, AnswerWhole, Accepted, Past
  <2> QED
    BY <1>10, <2>1, <2>2
<1>13. ASSUME NEW r \in Requests, NEW h \in request[r].due, NEW done \in SUBSET {h},
              Goes(r, Onward(request[r], h, done)), UNCHANGED <<flags, srvSale>>
       PROVE  AnswersWhole' /\ NoSaleVanishes'
  <2>1. h \in Shifts /\ Past(request[r]) /\ h \in DOMAIN request[r].batch.shifts
    BY RowsOf DEF Jobs, Behind, DueWhole, ClosedIn, Past
  <2>2. Only(r)
    BY <1>13, <2>1, OnwardDoes
  <2>3. ASSUME r \in Engines
        PROVE  AnswerWhole(r)'
    <3>1. /\ request'[r].batch = request[r].batch
          /\ request'[r].answer.shiftsSynced = request[r].answer.shiftsSynced \cup done
          /\ request'[r].answer.failed = request[r].answer.failed
      BY <1>13, <2>1, <2>3, OnwardDoes, OutboxAssumption, ZenonT(60)
    <3> QED
      BY <1>13, <2>1, <2>3, <3>1 DEF AnswersWhole, AnswerWhole, Accepted
  <2> QED
    BY <1>10, <1>13, <2>2, <2>3 DEF flags
<1>14. ASSUME NEW r \in Requests, WriteTotals(r) \/ TotalsFail(r)
       PROVE  AnswersWhole' /\ NoSaleVanishes'
  <2>1. CASE WriteTotals(r)
    BY <1>13, <2>1, WriteDoes, HandIs
  <2>2. CASE TotalsFail(r)
    BY <1>13, <2>2, FailDoes DEF server
  <2> QED
    BY <1>14, <2>1, <2>2
<1>15. ASSUME NEW r \in Abandoned, Lose(r)
       PROVE  AnswersWhole' /\ NoSaleVanishes'
  <2>1. r \in Requests /\ r \notin Engines /\ Only(r) /\ syncedSales' = syncedSales
    BY <1>15, RestDoes, OutboxAssumption DEF Lose, Requests, flags
  <2> QED
    BY <1>10, <2>1
<1> QED
  BY <1>6, <1>7, <1>8, <1>9, <1>11, <1>12, <1>14, <1>15 DEF Next, CashierStep

-----------------------------------------------------------------------------
(* When the cashier changes no row during a request: rows and answers *)

\* The rows that the server has as they are stay so.
ConfirmedStays ==
    /\ \A h \in Shifts : srvShift[h] = shift[h] /\ shift[h] # "none" => srvShift'[h] = shift[h]
    /\ \A s \in Sales : srvSale[s] = sale[s] /\ sale[s] # "none" => srvSale'[s] = sale[s]

LEMMA StoreKeepsConfirmed ==
    ASSUME TypeOK, Behind, Behind', NEW r \in Requests, NEW lostShifts, NEW lostSales,
           Store(r, lostShifts, lostSales)
    PROVE  ConfirmedStays
<1>0. PICK b : b \in Batches /\ b = request[r].batch
  BY RowsOf
<1>1. /\ srvShift' = ShiftsAfter(b, lostShifts)
      /\ srvSale' = SalesAfter(b, lostShifts, lostSales)
      /\ UNCHANGED till
  BY <1>0, StoreTells
<1>2. /\ \A h \in Shifts :
            /\ srvShift[h] = "CLOSED" => srvShift'[h] = "CLOSED"
            /\ \/ srvShift'[h] = srvShift[h]
               \/ h \in DOMAIN b.shifts /\ srvShift'[h] = b.shifts[h]
      /\ \A s \in Sales :
            /\ srvSale[s] = "VOIDED" => srvSale'[s] = "VOIDED"
            /\ srvSale[s] # "none" => srvSale'[s] # "none"
            /\ \/ srvSale'[s] = srvSale[s]
               \/ s \in DOMAIN b.sales /\ srvSale'[s] = b.sales[s]
  BY <1>0, <1>1, ServerStores
<1>3. ASSUME NEW h \in Shifts, srvShift[h] = shift[h], shift[h] # "none"
      PROVE  srvShift'[h] = shift[h]
  <2>1. srvShift'[h] = "CLOSED" => shift[h] = "CLOSED"
    BY <1>1 DEF Behind, ServerBehind, till
  <2> QED
    BY <1>0, <1>2, <1>3, <2>1, BatchTyped DEF TypeOK
<1>4. ASSUME NEW s \in Sales, srvSale[s] = sale[s], sale[s] # "none"
      PROVE  srvSale'[s] = sale[s]
  <2>1. srvSale'[s] = "VOIDED" => sale[s] = "VOIDED"
    BY <1>1 DEF Behind, ServerBehind, till
  <2> QED
    BY <1>0, <1>2, <1>4, <2>1, BatchTyped DEF TypeOK, Statuses
<1> QED
  BY <1>3, <1>4 DEF ConfirmedStays

LEMMA StillConfirmed ==
    ASSUME UNCHANGED <<till, srvShift, srvSale>>
    PROVE  ConfirmedStays
BY DEF ConfirmedStays, till

\* Synced rows, and those of a request, are there.
LEMMA SyncedThere ==
    ASSUME TypeOK, Behind, NoSaleVanishes
    PROVE  /\ \A s \in syncedSales : s \in Sales /\ sale[s] # "none"
           /\ \A h \in syncedShifts : h \in Shifts /\ shift[h] # "none"
           /\ \A r \in Requests : request[r].pc # "idle" =>
                 /\ \A s \in DOMAIN request[r].batch.sales :
                       s \in Sales /\ sale[s] # "none"
                       /\ ShiftOf[s] \in DOMAIN request[r].batch.shifts
                 /\ \A h \in DOMAIN request[r].batch.shifts : h \in Shifts /\ shift[h] # "none"
<1>1. \A s \in syncedSales : s \in Sales /\ sale[s] # "none"
  BY DEF TypeOK, Behind, ServerBehind, NoSaleVanishes
<1>2. \A h \in syncedShifts : h \in Shifts /\ shift[h] # "none"
  BY DEF TypeOK, Behind, TillWhole
<1>3. ASSUME NEW r \in Requests, request[r].pc # "idle"
      PROVE  /\ \A s \in DOMAIN request[r].batch.sales :
                   s \in Sales /\ sale[s] # "none"
                   /\ ShiftOf[s] \in DOMAIN request[r].batch.shifts
             /\ \A h \in DOMAIN request[r].batch.shifts : h \in Shifts /\ shift[h] # "none"
  BY <1>3, RowsOf DEF Behind, RequestsBehind, RowsBehind
<1> QED
  BY <1>1, <1>2, <1>3

\* What rows and answers say, without the totals.
RowsFresh ==
    /\ \A e \in Engines : EngineFresh(e)
    /\ SyncedSaleIsRecorded
    /\ SyncedShiftIsRecorded

\* An engine with the same rows and the same answer still has the truth in them, while
\* the rows in use do not change.
LEMMA EngineStaysFresh ==
    ASSUME TypeOK, Behind, NoSaleVanishes, RowsFresh, ConfirmedStays, UNCHANGED till,
           NEW e \in Engines,
           request'[e].pc = "idle"
              \/ /\ request[e].pc # "idle"
                 /\ Past(request'[e]) => Past(request[e])
                 /\ request'[e].batch = request[e].batch
                 /\ request'[e].answer.failed = request[e].answer.failed
                 /\ request'[e].answer.fatalShifts = request[e].answer.fatalShifts
    PROVE  EngineFresh(e)'
<1>1. CASE request'[e].pc = "idle"
  BY <1>1 DEF EngineFresh, Past
<1>2. CASE request'[e].pc # "idle"
  <2>1. PICK j, k : j = request[e] /\ k = request'[e]
    OBVIOUS
  <2>2. /\ j.pc # "idle" /\ (Past(k) => Past(j)) /\ k.batch = j.batch
        /\ k.answer.failed = j.answer.failed /\ k.answer.fatalShifts = j.answer.fatalShifts
    BY <1>2, <2>1
  <2>3. /\ RequestFresh(j) /\ (Past(j) => AnswerFresh(j))
        /\ sale' = sale /\ shift' = shift
    BY <2>1, <2>2 DEF RowsFresh, EngineFresh, till
  <2>4. /\ \A s \in DOMAIN j.batch.sales : s \in Sales /\ sale[s] # "none"
        /\ \A h \in DOMAIN j.batch.shifts : h \in Shifts /\ shift[h] # "none"
    BY <2>1, <2>2, SyncedThere DEF Requests
  <2>5. /\ \A h \in DOMAIN k.batch.shifts : k.batch.shifts[h] = shift'[h]
        /\ \A s \in DOMAIN k.batch.sales : k.batch.sales[s] = sale'[s]
    BY <2>2, <2>3 DEF RequestFresh
  <2>6. ASSUME Past(k)
        PROVE  /\ \A s \in Accepted(k) : srvSale'[s] = sale'[s]
               /\ \A h \in DOMAIN k.batch.shifts \ k.answer.fatalShifts :
                     srvShift'[h] = shift'[h]
    BY <2>2, <2>3, <2>4, <2>6 DEF AnswerFresh, Accepted, ConfirmedStays
  <2> QED
    BY <2>1, <2>5, <2>6 DEF EngineFresh, RequestFresh, AnswerFresh, Accepted, Past
<1> QED
  BY <1>1, <1>2

LEMMA FlagsStayTrue ==
    ASSUME TypeOK, Behind, NoSaleVanishes, RowsFresh, ConfirmedStays,
           UNCHANGED <<till, syncedShifts, syncedSales>>
    PROVE  SyncedSaleIsRecorded' /\ SyncedShiftIsRecorded'
<1>1. /\ sale' = sale /\ shift' = shift
      /\ syncedSales' = syncedSales /\ syncedShifts' = syncedShifts
  BY DEF till
<1>2. /\ \A s \in syncedSales : s \in Sales /\ sale[s] # "none" /\ srvSale[s] = sale[s]
      /\ \A h \in syncedShifts : h \in Shifts /\ shift[h] # "none" /\ srvShift[h] = shift[h]
  BY SyncedThere DEF RowsFresh, SyncedSaleIsRecorded, SyncedShiftIsRecorded
<1> QED
  BY <1>1, <1>2 DEF ConfirmedStays, SyncedSaleIsRecorded, SyncedShiftIsRecorded

\* A step in which the rows, the flags and what the requests say stay as they are.
LEMMA RowsStayFresh ==
    ASSUME TypeOK, Behind, NoSaleVanishes, RowsFresh,
           UNCHANGED <<till, flags, srvShift, srvSale>>,
           \A e \in Engines :
              request'[e].pc = "idle"
              \/ /\ request[e].pc # "idle"
                 /\ Past(request'[e]) => Past(request[e])
                 /\ request'[e].batch = request[e].batch
                 /\ request'[e].answer.failed = request[e].answer.failed
                 /\ request'[e].answer.fatalShifts = request[e].answer.fatalShifts
    PROVE  RowsFresh'
<1>1. ConfirmedStays
  BY StillConfirmed
<1>2. ASSUME NEW e \in Engines
      PROVE  EngineFresh(e)'
  BY <1>1, EngineStaysFresh
<1>3. SyncedSaleIsRecorded' /\ SyncedShiftIsRecorded'
  BY <1>1, FlagsStayTrue DEF flags
<1> QED
  BY <1>2, <1>3 DEF RowsFresh, EngineFresh

LEMMA OpenSellRowsFresh ==
    ASSUME TypeOK, Behind, NoSaleVanishes, RowsFresh,
           UNCHANGED <<flags, request, server>>,
           \A h \in Shifts : shift[h] # "none" => shift'[h] = shift[h],
           \A s \in Sales : sale[s] # "none" => sale'[s] = sale[s]
    PROVE  RowsFresh'
<1>1. ASSUME NEW e \in Engines
      PROVE  EngineFresh(e)'
  <2>1. PICK j : j = request[e] /\ j = request'[e]
    OBVIOUS
  <2>2. CASE j.pc = "idle"
    BY <2>1, <2>2 DEF EngineFresh, Past
  <2>3. CASE j.pc # "idle"
    <3>1. /\ \A s \in DOMAIN j.batch.sales : sale'[s] = sale[s]
          /\ \A h \in DOMAIN j.batch.shifts : shift'[h] = shift[h]
      BY <2>1, <2>3, SyncedThere DEF Requests
    <3>2. RequestFresh(j) /\ (Past(j) => AnswerFresh(j))
      BY <2>1, <2>3 DEF RowsFresh, EngineFresh
    <3>3. /\ \A h \in DOMAIN j.batch.shifts : j.batch.shifts[h] = shift'[h]
          /\ \A s \in DOMAIN j.batch.sales : j.batch.sales[s] = sale'[s]
      BY <3>1, <3>2 DEF RequestFresh
    <3>4. Past(j) =>
             /\ \A s \in Accepted(j) : srvSale'[s] = sale'[s]
             /\ \A h \in DOMAIN j.batch.shifts \ j.answer.fatalShifts :
                   srvShift'[h] = shift'[h]
      BY <3>1, <3>2 DEF AnswerFresh, Accepted, server
    <3> QED
      BY <2>1, <3>3, <3>4 DEF EngineFresh, RequestFresh, AnswerFresh, Accepted, Past
  <2> QED
    BY <2>2, <2>3
<1>2. SyncedSaleIsRecorded' /\ SyncedShiftIsRecorded'
  BY SyncedThere DEF RowsFresh, SyncedSaleIsRecorded, SyncedShiftIsRecorded, flags, server
<1> QED
  BY <1>1, <1>2 DEF RowsFresh, EngineFresh

LEMMA CashierRowsFresh ==
    ASSUME TypeOK, Behind, NoSaleVanishes, RowsFresh, ~ChangesInFlight, CashierStep
    PROVE  RowsFresh'
<1>1. CASE (\E h \in Shifts : OpenShift(h)) \/ (\E s \in Sales : Sell(s))
  <2>1. /\ UNCHANGED <<flags, request, server>>
        /\ \A h \in Shifts : shift[h] # "none" => shift'[h] = shift[h]
        /\ \A s \in Sales : sale[s] # "none" => sale'[s] = sale[s]
    BY <1>1 DEF OpenShift, Sell, TypeOK
  <2> QED
    BY <2>1, OpenSellRowsFresh
<1>2. CASE (\E h \in Shifts : CloseShift(h)) \/ (\E s \in Sales : VoidSale(s))
  <2>1. UNCHANGED <<request, server>> /\ \A e \in Engines : request[e].pc = "idle"
    BY <1>2 DEF CloseShift, VoidSale, Quiet
  <2>2. ASSUME NEW h \in Shifts, CloseShift(h)
        PROVE  SyncedSaleIsRecorded' /\ SyncedShiftIsRecorded'
    BY <2>2 DEF CloseShift, RowsFresh, SyncedSaleIsRecorded, SyncedShiftIsRecorded, TypeOK,
                server
  <2>3. ASSUME NEW s \in Sales, VoidSale(s)
        PROVE  SyncedSaleIsRecorded' /\ SyncedShiftIsRecorded'
    BY <2>3 DEF VoidSale, RowsFresh, SyncedSaleIsRecorded, SyncedShiftIsRecorded, TypeOK,
                server
  <2>4. \A e \in Engines : EngineFresh(e)'
    BY <2>1 DEF EngineFresh, Past
  <2> QED
    BY <1>2, <2>2, <2>3, <2>4 DEF RowsFresh, EngineFresh
<1> QED
  BY <1>1, <1>2 DEF CashierStep

LEMMA StoreRowsFresh ==
    ASSUME TypeOK, Behind, Behind', NoSaleVanishes, RowsFresh,
           NEW r \in Requests, NEW lostShifts, NEW lostSales,
           Store(r, lostShifts, lostSales)
    PROVE  RowsFresh'
<1>1. ConfirmedStays /\ Only(r) /\ UNCHANGED <<till, flags>>
  BY StoreKeepsConfirmed, StoreDoes, StoreTells
<1>2. ASSUME NEW e \in Engines, e # r
      PROVE  EngineFresh(e)'
  <2>1. request'[e] = request[e]
    BY <1>1, <1>2 DEF Only, Requests
  <2>2. CASE request[e].pc = "idle"
    BY <2>1, <2>2 DEF EngineFresh, Past
  <2>3. CASE request[e].pc # "idle"
    BY <1>1, <2>1, <2>3, EngineStaysFresh
  <2> QED
    BY <2>2, <2>3
<1>3. ASSUME r \in Engines
      PROVE  EngineFresh(r)'
  <2>1. PICK b, a : b = request[r].batch /\ a = request'[r].answer
    OBVIOUS
  <2>2. /\ request[r].pc = "waiting" /\ Told(b, a) /\ request'[r].batch = b
        /\ srvSale' \in [Sales -> Statuses \cup {"none"}]
    BY <1>3, <2>1, StoreTells, ServerStores
  <2>3. /\ \A h \in DOMAIN b.shifts : b.shifts[h] = shift[h]
        /\ \A s \in DOMAIN b.sales : s \in Sales /\ b.sales[s] = sale[s]
        /\ sale' = sale /\ shift' = shift
    BY <1>1, <1>3, <2>1, <2>2, SyncedThere DEF RowsFresh, EngineFresh, RequestFresh, till
  <2>4. \A s \in DOMAIN b.sales \ a.failed : srvSale'[s] = sale'[s]
    BY <2>2, <2>3 DEF Told, Behind, ServerBehind
  <2>5. \A h \in DOMAIN b.shifts \ a.fatalShifts : srvShift'[h] = shift'[h]
    BY <2>2, <2>3 DEF Told
  <2> QED
    BY <2>1, <2>2, <2>3, <2>4, <2>5 DEF EngineFresh, RequestFresh, AnswerFresh, Accepted
<1>4. SyncedSaleIsRecorded' /\ SyncedShiftIsRecorded'
  BY <1>1, FlagsStayTrue DEF flags
<1>5. ASSUME NEW e \in Engines
      PROVE  EngineFresh(e)'
  BY <1>2, <1>3
<1> QED
  BY <1>4, <1>5 DEF RowsFresh, EngineFresh

LEMMA ReconcileRowsFresh ==
    ASSUME TypeOK, Behind, NoSaleVanishes, RowsFresh, NEW e \in Engines, Reconcile(e)
    PROVE  RowsFresh'
<1>1. /\ request'[e] = Resting /\ Only(e) /\ Past(request[e])
      /\ UNCHANGED <<till, server>>
      /\ syncedSales' \subseteq syncedSales \cup GoodSales(request[e])
      /\ syncedShifts' \subseteq syncedShifts \cup GoodShifts(request[e])
  BY RestDoes DEF Reconcile, Requests, Past
<1>2. AnswerFresh(request[e])
  BY <1>1 DEF RowsFresh, EngineFresh
<1>3. SyncedSaleIsRecorded' /\ SyncedShiftIsRecorded'
  BY <1>1, <1>2 DEF AnswerFresh, GoodSales, GoodShifts, Accepted, RowsFresh,
                    SyncedSaleIsRecorded, SyncedShiftIsRecorded, till, server
<1>4. ConfirmedStays
  BY <1>1, StillConfirmed DEF server
<1>5. ASSUME NEW d \in Engines
      PROVE  EngineFresh(d)'
  <2>1. request'[d].pc = "idle" \/ (request'[d] = request[d] /\ request[d].pc # "idle")
    BY <1>1, RestingTyped DEF Only, Requests
  <2> QED
    BY <1>1, <1>4, <2>1, EngineStaysFresh
<1> QED
  BY <1>3, <1>5 DEF RowsFresh, EngineFresh

-----------------------------------------------------------------------------
(* When the cashier changes no row during a request: the totals *)

LEMMA VouchedThere ==
    ASSUME TypeOK, Behind, NoSaleVanishes
    PROVE  /\ \A h \in Shifts : \A s \in Vouched(h) :
                 s \in Sales /\ sale[s] # "none" /\ ShiftOf[s] = h
           /\ \A r \in Requests : \A t \in request[r].hand : \A s \in Own(r, t.shift) :
                 s \in Sales /\ sale[s] # "none" /\ ShiftOf[s] = t.shift
<1>1. ASSUME NEW r \in Requests, Past(request[r]), NEW s \in Accepted(request[r])
      PROVE  s \in Sales /\ sale[s] # "none"
  BY <1>1, RowsOf, SyncedThere DEF Past
<1>2. ASSUME NEW h \in Shifts, NEW s \in Vouched(h)
      PROVE  s \in Sales /\ sale[s] # "none" /\ ShiftOf[s] = h
  BY <1>1, <1>2, SyncedThere DEF Vouched, Settled, Requests
<1>3. ASSUME NEW r \in Requests, NEW t \in request[r].hand, NEW s \in Own(r, t.shift)
      PROVE  s \in Sales /\ sale[s] # "none" /\ ShiftOf[s] = t.shift
  <2>1. Past(request[r]) /\ s \in Accepted(request[r]) /\ ShiftOf[s] = t.shift
    BY <1>3, HandIs DEF Own
  <2> QED
    BY <1>1, <2>1
<1> QED
  BY <1>2, <1>3

\* A step in which the requests say no more of closed shifts than before.
LEMMA SayNoMore ==
    ASSUME TypeOK, Behind, TotalsTrue, HandsTrue,
           UNCHANGED <<till, syncedShifts, syncedSales, totals, raced>>,
           \A e \in Engines : \A h \in Shifts :
              shift[h] = "CLOSED" /\ Settled(e, h)' =>
                 Settled(e, h) /\ Accepted(request[e])' \subseteq Accepted(request[e]),
           \A r \in Requests : \A t \in request'[r].hand :
              \E q \in Requests :
                 /\ t \in request[q].hand
                 /\ r \in Engines =>
                       q = r /\ Accepted(request[r])' \subseteq Accepted(request[r])
    PROVE  TotalsTrue' /\ HandsTrue'
<1>1. /\ shift' = shift /\ sale' = sale /\ syncedShifts' = syncedShifts
      /\ syncedSales' = syncedSales /\ totals' = totals /\ raced' = raced
  BY DEF till
<1>2. ASSUME NEW h \in Shifts, shift[h] = "CLOSED"
      PROVE  (Claimed(h)' => Claimed(h)) /\ Vouched(h)' \subseteq Vouched(h)
  BY <1>1, <1>2 DEF Claimed, Vouched
<1>3. TotalsTrue'
  BY <1>1, <1>2 DEF TotalsTrue, RightAbout
<1>4. ASSUME NEW r \in Requests, NEW t \in request'[r].hand
      PROVE  HandTrue(r, t)'
  <2>1. PICK q \in Requests :
           /\ t \in request[q].hand
           /\ r \in Engines => q = r /\ Accepted(request[r])' \subseteq Accepted(request[r])
    BY <1>4
  <2>2. t.shift \in Shifts /\ shift[t.shift] = "CLOSED" /\ HandTrue(q, t)
    BY <2>1, HandIs DEF HandsTrue
  <2>3. Own(r, t.shift)' \subseteq Own(q, t.shift)
    BY <2>1 DEF Own
  <2>4. Vouched(t.shift)' \subseteq Vouched(t.shift)
    BY <1>2, <2>2
  <2> QED
    BY <1>1, <2>2, <2>3, <2>4 DEF HandTrue, RightAbout
<1> QED
  BY <1>3, <1>4 DEF HandsTrue

LEMMA OpenSellTotals ==
    ASSUME TypeOK, Behind, NoSaleVanishes, TotalsTrue, HandsTrue,
           UNCHANGED <<flags, request, server>>,
           \A h \in Shifts : shift'[h] = "CLOSED" => shift[h] = "CLOSED",
           \A s \in Sales : sale[s] # "none" => sale'[s] = sale[s]
    PROVE  TotalsTrue' /\ HandsTrue'
<1>1. /\ syncedShifts' = syncedShifts /\ syncedSales' = syncedSales
      /\ totals' = totals /\ raced' = raced /\ request' = request
  BY DEF flags, server
<1>2. ASSUME NEW h \in Shifts
      PROVE  (Claimed(h)' => Claimed(h)) /\ Vouched(h)' = Vouched(h)
  BY <1>1 DEF Claimed, Vouched, Settled, Accepted, Past
<1>3. TotalsTrue'
  BY <1>1, <1>2, VouchedThere DEF TotalsTrue, RightAbout
<1>4. ASSUME NEW r \in Requests, NEW t \in request[r].hand
      PROVE  HandTrue(r, t)'
  <2>1. HandTrue(r, t) /\ t.shift \in Shifts
    BY HandIs DEF HandsTrue
  <2>2. Own(r, t.shift)' = Own(r, t.shift)
    BY <1>1 DEF Own, Accepted
  <2>3. Vouched(t.shift)' = Vouched(t.shift)
    BY <1>2, <2>1
  <2>4. \A s \in Vouched(t.shift) \cup Own(r, t.shift) : sale'[s] = sale[s]
    BY <2>1, VouchedThere
  <2> QED
    BY <1>1, <2>1, <2>2, <2>3, <2>4 DEF HandTrue, RightAbout
<1> QED
  BY <1>1, <1>3, <1>4 DEF HandsTrue

LEMMA CloseVoidTotals ==
    ASSUME TypeOK, Behind, TotalsTrue, HandsTrue, UNCHANGED <<request, server>>,
           \A e \in Engines : request[e].pc = "idle",
           syncedShifts' \subseteq syncedShifts, syncedSales' \subseteq syncedSales,
           \A h \in syncedShifts' : shift'[h] = shift[h],
           \A s \in syncedSales' : sale'[s] = sale[s]
    PROVE  TotalsTrue' /\ HandsTrue'
<1>1. totals' = totals /\ raced' = raced /\ request' = request
  BY DEF server
<1>2. \A e \in Engines : \A h \in Shifts : ~Settled(e, h) /\ ~Settled(e, h)'
  BY <1>1 DEF Settled, Past
<1>3. ASSUME NEW h \in Shifts
      PROVE  /\ Claimed(h)' => Claimed(h) /\ shift'[h] = shift[h]
             /\ Vouched(h)' \subseteq Vouched(h)
             /\ \A s \in Vouched(h)' : sale'[s] = sale[s]
  BY <1>2 DEF Claimed, Vouched
<1>4. TotalsTrue'
  BY <1>1, <1>3 DEF TotalsTrue, RightAbout
<1>5. ASSUME NEW r \in Requests, NEW t \in request[r].hand
      PROVE  HandTrue(r, t)'
  <2>1. HandTrue(r, t) /\ t.shift \in Shifts /\ r \notin Engines
    BY HandIs DEF HandsTrue
  <2>2. Own(r, t.shift)' = {}
    BY <2>1 DEF Own
  <2> QED
    BY <1>1, <1>3, <2>1, <2>2 DEF HandTrue, RightAbout
<1> QED
  BY <1>1, <1>4, <1>5 DEF HandsTrue

LEMMA CashierTotals ==
    ASSUME TypeOK, Behind, NoSaleVanishes, TotalsTrue, HandsTrue, ~ChangesInFlight, CashierStep
    PROVE  TotalsTrue' /\ HandsTrue'
<1>1. CASE (\E h \in Shifts : OpenShift(h)) \/ (\E s \in Sales : Sell(s))
  <2>1. /\ UNCHANGED <<flags, request, server>>
        /\ \A h \in Shifts : shift'[h] = "CLOSED" => shift[h] = "CLOSED"
        /\ \A s \in Sales : sale[s] # "none" => sale'[s] = sale[s]
    BY <1>1 DEF OpenShift, Sell, TypeOK
  <2> QED
    BY <2>1, OpenSellTotals
<1>2. ASSUME NEW h \in Shifts, CloseShift(h)
      PROVE  TotalsTrue' /\ HandsTrue'
  <2>1. /\ UNCHANGED <<request, server>> /\ \A e \in Engines : request[e].pc = "idle"
        /\ syncedShifts' \subseteq syncedShifts /\ syncedSales' \subseteq syncedSales
        /\ \A g \in syncedShifts' : shift'[g] = shift[g]
        /\ \A s \in syncedSales' : sale'[s] = sale[s]
    BY <1>2 DEF CloseShift, Quiet, TypeOK
  <2> QED
    BY <2>1, CloseVoidTotals
<1>3. ASSUME NEW s \in Sales, VoidSale(s)
      PROVE  TotalsTrue' /\ HandsTrue'
  <2>1. /\ UNCHANGED <<request, server>> /\ \A e \in Engines : request[e].pc = "idle"
        /\ syncedShifts' \subseteq syncedShifts /\ syncedSales' \subseteq syncedSales
        /\ \A g \in syncedShifts' : shift'[g] = shift[g]
        /\ \A t \in syncedSales' : sale'[t] = sale[t]
    BY <1>3 DEF VoidSale, Quiet, TypeOK
  <2> QED
    BY <2>1, CloseVoidTotals
<1> QED
  BY <1>1, <1>2, <1>3 DEF CashierStep

\* A request whose answer counts as many shifts as were sent counts each of them.
LEMMA AllCounted ==
    ASSUME TypeOK, AnswersWhole, NEW e \in Engines, Past(request[e]), AllShiftsOk(request[e])
    PROVE  request[e].answer.shiftsSynced = DOMAIN request[e].batch.shifts
<1>1. DOMAIN request[e].batch.shifts \subseteq Shifts
  BY RowsOf DEF Requests
<1>2. IsFiniteSet(DOMAIN request[e].batch.shifts)
  BY <1>1, OutboxAssumption, FS_Subset
<1>3. request[e].answer.shiftsSynced \subseteq DOMAIN request[e].batch.shifts
  BY DEF AnswersWhole
<1> QED
  BY <1>2, <1>3, FS_Subset DEF AllShiftsOk

LEMMA ReconcileTotals ==
    ASSUME TypeOK, Behind, AnswersWhole, NoSaleVanishes, TotalsTrue, HandsTrue,
           NEW e \in Engines, Reconcile(e)
    PROVE  TotalsTrue' /\ HandsTrue'
<1>1. /\ e \in Requests /\ request'[e] = Resting /\ Only(e) /\ Past(request[e])
      /\ sale' = sale /\ shift' = shift /\ totals' = totals /\ raced' = raced
      /\ syncedSales' \subseteq syncedSales \cup GoodSales(request[e])
      /\ syncedShifts' \subseteq syncedShifts \cup GoodShifts(request[e])
  BY RestDoes DEF Reconcile, Requests, Past, till, server
<1>2. \A s \in GoodSales(request[e]) :
         /\ s \in Accepted(request[e])
         /\ Settled(e, ShiftOf[s])
  <2>1. \A s \in GoodSales(request[e]) :
           AllShiftsOk(request[e]) /\ s \in Accepted(request[e])
    BY DEF GoodSales, Accepted
  <2>2. \A s \in Accepted(request[e]) : ShiftOf[s] \in DOMAIN request[e].batch.shifts
    BY <1>1, SyncedThere DEF Accepted, Past
  <2> QED
    BY <1>1, <2>1, <2>2, AllCounted DEF Settled
<1>3. \A h \in GoodShifts(request[e]) : Settled(e, h)
  BY <1>1, AllCounted DEF GoodShifts, Settled
<1>4. \A d \in Engines : \A h \in Shifts :
         Settled(d, h)' => Settled(d, h) /\ Accepted(request[d])' = Accepted(request[d])
  BY <1>1, RestingTyped DEF Settled, Past, Accepted, Only, Requests
<1>5. ASSUME NEW h \in Shifts
      PROVE  Claimed(h)' => Claimed(h)
  BY <1>1, <1>3, <1>4 DEF Claimed
<1>6. ASSUME NEW h \in Shifts
      PROVE  Vouched(h)' \subseteq Vouched(h)
  BY <1>1, <1>2, <1>4 DEF Vouched
<1>7. TotalsTrue'
  BY <1>1, <1>5, <1>6 DEF TotalsTrue, RightAbout
<1>8. ASSUME NEW r \in Requests, NEW t \in request'[r].hand
      PROVE  HandTrue(r, t)'
  <2>1. r # e /\ t \in request[r].hand /\ request'[r] = request[r]
    BY <1>1, <1>8, RestingTyped DEF Only
  <2>2. HandTrue(r, t) /\ t.shift \in Shifts
    BY <2>1, HandIs DEF HandsTrue
  <2>3. Own(r, t.shift)' = Own(r, t.shift)
    BY <2>1 DEF Own, Accepted
  <2>4. Vouched(t.shift)' \subseteq Vouched(t.shift)
    BY <1>6, <2>2
  <2> QED
    BY <1>1, <2>2, <2>3, <2>4 DEF HandTrue, RightAbout
<1> QED
  BY <1>7, <1>8 DEF HandsTrue

LEMMA StoreTotals ==
    ASSUME TypeOK, Behind, RowsFresh, TotalsTrue, HandsTrue,
           NEW r \in Requests, NEW lostShifts, NEW lostSales,
           Store(r, lostShifts, lostSales)
    PROVE  TotalsTrue' /\ HandsTrue'
<1>1. /\ UNCHANGED <<till, flags, totals, raced>> /\ Only(r) /\ request'[r].hand = {}
      /\ request[r].pc = "waiting"
  BY StoreTells, StoreDoes, RestingTyped
\* What is counted at once are shifts the till has open.
<1>2. ASSUME r \in Engines, NEW h \in Shifts, Settled(r, h)'
      PROVE  shift[h] # "CLOSED"
  <2>1. RequestFresh(request[r])
    BY <1>1, <1>2 DEF RowsFresh, EngineFresh
  <2>2. Told(request[r].batch, request'[r].answer)
    BY <1>2, StoreTells
  <2> QED
    BY <1>2, <2>1, <2>2 DEF Settled, Told, RequestFresh
<1>3. \A e \in Engines : \A h \in Shifts :
         shift[h] = "CLOSED" /\ Settled(e, h)' =>
            Settled(e, h) /\ Accepted(request[e])' \subseteq Accepted(request[e])
  BY <1>1, <1>2 DEF Settled, Past, Accepted, Only, Requests
<1>4. \A q \in Requests : \A t \in request'[q].hand :
         \E p \in Requests :
            /\ t \in request[p].hand
            /\ q \in Engines => p = q /\ Accepted(request[q])' \subseteq Accepted(request[q])
  BY <1>1 DEF Accepted, Only
<1> QED
  BY <1>1, <1>3, <1>4, SayNoMore DEF flags

\* Totals are read when everything an answer or a flag vouches for is on the server.
LEMMA ReadTotalsTrue ==
    ASSUME TypeOK, Behind, NoSaleVanishes, RowsFresh, TotalsTrue, HandsTrue,
           NEW r \in Requests, ReadTotals(r)
    PROVE  TotalsTrue' /\ HandsTrue'
<1>1. PICK h \in Shifts : /\ IsNext(r, h)
                          /\ request'[r].hand = {[shift |-> h, counted |-> TenderTotals(h)]}
  BY ReadDoes
<1>2. /\ Only(r) /\ UNCHANGED <<till, flags, server>>
      /\ request'[r].pc = request[r].pc /\ request'[r].batch = request[r].batch
      /\ request'[r].answer = request[r].answer
  BY ReadDoes DEF ReadTotals
<1>3. /\ sale' = sale /\ shift' = shift /\ totals' = totals /\ raced' = raced
      /\ syncedSales' = syncedSales /\ syncedShifts' = syncedShifts
  BY <1>2 DEF till, flags, server
<1>4. \A q \in Requests : /\ Past(request[q])' = Past(request[q])
                          /\ Accepted(request[q])' = Accepted(request[q])
                          /\ request'[q].answer = request[q].answer
  BY <1>2 DEF Past, Accepted, Only
<1>5. \A g \in Shifts : Claimed(g)' = Claimed(g) /\ Vouched(g)' = Vouched(g)
  BY <1>3, <1>4 DEF Claimed, Vouched, Settled, Requests
<1>6. \A q \in Requests, g \in Shifts : Own(q, g)' = Own(q, g)
  BY <1>4 DEF Own
<1>7. TotalsTrue'
  BY <1>3, <1>5 DEF TotalsTrue, RightAbout
<1>8. Past(request[r])
  BY <1>1 DEF IsNext, Behind, DueWhole, Past
<1>9. ASSUME NEW s \in Vouched(h) \cup Own(r, h)
      PROVE  s \in TenderTotals(h) <=> sale[s] = "COMPLETED"
  <2>1. ASSUME NEW e \in Engines, Past(request[e]), s \in Accepted(request[e])
        PROVE  s \in Sales /\ srvSale[s] = sale[s]
    <3>1. AnswerFresh(request[e])
      BY <2>1 DEF RowsFresh, EngineFresh
    <3> QED
      BY <2>1, <3>1, RowsOf DEF AnswerFresh, Requests
  <2>2. s \in Sales /\ ShiftOf[s] = h /\ srvSale[s] = sale[s]
    <3>1. CASE s \in Vouched(h)
      BY <2>1, <3>1 DEF Vouched, Settled, RowsFresh, SyncedSaleIsRecorded
    <3>2. CASE s \in Own(r, h)
      BY <1>8, <2>1, <3>2 DEF Own
    <3> QED
      BY <3>1, <3>2
  <2> QED
    BY <2>2 DEF TenderTotals
<1>10. ASSUME NEW q \in Requests, NEW t \in request'[q].hand
       PROVE  HandTrue(q, t)'
  <2>1. CASE q = r
    <3>1. t.shift = h /\ t.counted = TenderTotals(h)
      BY <1>1, <1>10, <2>1
    <3> QED
      BY <1>3, <1>5, <1>6, <1>9, <2>1, <3>1 DEF HandTrue, RightAbout
  <2>2. CASE q # r
    <3>1. t \in request[q].hand
      BY <1>2, <1>10, <2>2 DEF Only
    <3>2. HandTrue(q, t) /\ t.shift \in Shifts
      BY <3>1, HandIs DEF HandsTrue
    <3> QED
      BY <1>3, <1>5, <1>6, <3>2 DEF HandTrue, RightAbout
  <2> QED
    BY <2>1, <2>2
<1> QED
  BY <1>7, <1>10 DEF HandsTrue

\* What is written was right when it was read and is right still, and whoever else had
\* the same shift's totals in hand makes the shift raced.
LEMMA WriteTotalsTrue ==
    ASSUME TypeOK, Behind, TotalsTrue, HandsTrue, NEW r \in Requests, WriteTotals(r)
    PROVE  TotalsTrue' /\ HandsTrue'
<1>1. PICK t \in request[r].hand :
         /\ totals' = [totals EXCEPT ![t.shift] = t.counted]
         /\ raced' = raced \cup {h \in {t.shift} : Overlapped(r, h)}
         /\ Goes(r, Onward(request[r], t.shift, {t.shift}))
         /\ UNCHANGED <<till, flags, outage, srvShift, srvSale>>
         /\ t.shift \in Shifts /\ t.counted \subseteq Sales
  BY WriteDoes
<1>2. PICK h \in Shifts : h = t.shift
  BY <1>1
<1>3. /\ sale' = sale /\ shift' = shift /\ raced \subseteq raced'
      /\ syncedSales' = syncedSales /\ syncedShifts' = syncedShifts
      /\ totals'[h] = t.counted /\ \A g \in Shifts \ {h} : totals'[g] = totals[g]
  BY <1>1, <1>2 DEF till, flags, TypeOK
<1>4. HandTrue(r, t) /\ Past(request[r])
  BY HandIs DEF HandsTrue
<1>5. Only(r) /\ request'[r].hand = {}
  BY <1>1, OnwardDoes, RestingTyped
<1>6. ASSUME r \in Engines
      PROVE  /\ Accepted(request[r])' = Accepted(request[r])
             /\ request'[r].answer.shiftsSynced = request[r].answer.shiftsSynced \cup {h}
  <2>1. /\ request'[r].batch = request[r].batch
        /\ request'[r].answer.shiftsSynced = request[r].answer.shiftsSynced \cup {h}
        /\ request'[r].answer.failed = request[r].answer.failed
    BY <1>1, <1>2, <1>6, OnwardDoes, OutboxAssumption
  <2> QED
    BY <2>1 DEF Accepted
<1>7. \A e \in Engines :
         /\ Accepted(request[e])' = Accepted(request[e])
         /\ \A g \in Shifts : Settled(e, g)' => Settled(e, g) \/ (e = r /\ g = h)
  BY <1>4, <1>5, <1>6 DEF Settled, Past, Accepted, Only, Requests
<1>8. \A g \in Shifts \ {h} : (Claimed(g)' => Claimed(g)) /\ Vouched(g)' \subseteq Vouched(g)
  BY <1>3, <1>7 DEF Claimed, Vouched
<1>9. Vouched(h)' \subseteq Vouched(h) \cup Own(r, h)
  BY <1>3, <1>7 DEF Vouched, Own
<1>10. TotalsTrue'
  <2>1. ASSUME NEW g \in Shifts \ raced', shift'[g] = "CLOSED", Claimed(g)',
               NEW s \in Vouched(g)'
        PROVE  RightAbout(totals[g], s)'
    <3>1. CASE g = h
      BY <1>2, <1>3, <1>4, <1>9, <2>1, <3>1 DEF HandTrue, RightAbout
    <3>2. CASE g # h
      BY <1>3, <1>8, <2>1, <3>2 DEF TotalsTrue, RightAbout
    <3> QED
      BY <3>1, <3>2
  <2> QED
    BY <2>1 DEF TotalsTrue
<1>11. ASSUME NEW q \in Requests, NEW u \in request'[q].hand
       PROVE  HandTrue(q, u)'
  <2>1. q # r /\ u \in request[q].hand
    BY <1>5, <1>11 DEF Only
  <2>2. HandTrue(q, u) /\ u.shift \in Shifts
    BY <2>1, HandIs DEF HandsTrue
  <2>3. CASE u.shift = h
    <3>1. Overlapped(r, h)
      BY <2>1, <2>3 DEF Overlapped
    <3>2. u.shift \in raced'
      BY <1>1, <1>2, <2>3, <3>1
    <3> QED
      BY <3>2 DEF HandTrue
  <2>4. CASE u.shift # h
    <3>1. Vouched(u.shift)' \subseteq Vouched(u.shift)
      BY <1>8, <2>2, <2>4
    <3>2. Own(q, u.shift)' = Own(q, u.shift)
      BY <1>5, <2>1 DEF Own, Accepted, Only
    <3> QED
      BY <1>3, <2>2, <3>1, <3>2 DEF HandTrue, RightAbout
  <2> QED
    BY <2>3, <2>4
<1> QED
  BY <1>10, <1>11 DEF HandsTrue

LEMMA FreshStep ==
    ASSUME TypeOK, Behind, Behind', AnswersWhole, NoSaleVanishes, Fresh,
           ~ChangesInFlight, [Next]_vars
    PROVE  Fresh'
<1>0. RowsFresh /\ TotalsTrue /\ HandsTrue /\ (RowsFresh /\ TotalsTrue /\ HandsTrue => Fresh)
      /\ (RowsFresh' /\ TotalsTrue' /\ HandsTrue' => Fresh')
  BY DEF Fresh, RowsFresh, EngineFresh
<1>1. CASE CashierStep
  BY <1>0, <1>1, CashierRowsFresh, CashierTotals
<1>2. ASSUME NEW e \in Engines, Reconcile(e)
      PROVE  Fresh'
  BY <1>0, <1>2, ReconcileRowsFresh, ReconcileTotals
<1>3. ASSUME NEW r \in Requests, NEW lostShifts, NEW lostSales,
             Store(r, lostShifts, lostSales)
      PROVE  Fresh'
  BY <1>0, <1>3, StoreRowsFresh, StoreTotals
<1>4. ASSUME NEW e \in Engines, Send(e)
      PROVE  Fresh'
  <2>1. /\ e \in Requests /\ Only(e) /\ request[e].pc = "idle"
        /\ \/ request' = request
           \/ /\ request'[e].pc = "waiting" /\ request'[e].hand = {}
              /\ request'[e].batch = Batch
        /\ UNCHANGED <<till, syncedShifts, syncedSales, outage, server>>
    BY <1>4, SendDoes DEF Requests
  <2>2. ConfirmedStays
    BY <2>1, StillConfirmed DEF server
  <2>3. EngineFresh(e)'
    BY <2>1, SendMakes DEF EngineFresh, RequestFresh, Past, till
  <2>4. ASSUME NEW d \in Engines, d # e
        PROVE  EngineFresh(d)'
    <3>1. request'[d] = request[d]
      BY <2>1, <2>4 DEF Only, Requests
    <3> QED
      BY <1>0, <2>1, <2>2, <3>1, EngineStaysFresh
  <2>5. RowsFresh'
    <3>1. SyncedSaleIsRecorded' /\ SyncedShiftIsRecorded'
      BY <1>0, <2>1, <2>2, FlagsStayTrue
    <3>2. \A d \in Engines : EngineFresh(d)'
      BY <2>3, <2>4
    <3> QED
      BY <3>1, <3>2 DEF RowsFresh, EngineFresh
  <2>6. \A d \in Engines : \A h \in Shifts :
           Settled(d, h)' => Settled(d, h) /\ Accepted(request[d])' \subseteq Accepted(request[d])
    BY <2>1 DEF Settled, Past, Accepted, Only, Requests
  <2>7. \A q \in Requests : \A t \in request'[q].hand :
           t \in request[q].hand /\ Accepted(request[q])' \subseteq Accepted(request[q])
    BY <2>1 DEF Only, Accepted
  <2>8. TotalsTrue' /\ HandsTrue'
    BY <1>0, <2>1, <2>6, <2>7, SayNoMore DEF server
  <2> QED
    BY <1>0, <2>5, <2>8
\* Steps after which requests are at rest, as they were, or further on with the same
\* rows and no more shifts counted.
<1>5. ASSUME UNCHANGED <<till, flags, server>>,
             \A e \in Engines :
                \/ request'[e] = Resting
                \/ request'[e] = request[e]
                \/ /\ Past(request[e])
                   /\ request'[e].batch = request[e].batch
                   /\ request'[e].answer.shiftsSynced = request[e].answer.shiftsSynced
                   /\ request'[e].answer.failed = request[e].answer.failed
                   /\ request'[e].answer.fatalShifts = request[e].answer.fatalShifts,
             \A r \in Requests : \A t \in request'[r].hand :
                IF r \in Engines THEN t \in request[r].hand
                ELSE \E q \in Requests : t \in request[q].hand
      PROVE  Fresh'
  <2>1. \A e \in Engines :
           \/ request'[e].pc = "idle"
           \/ request'[e] = request[e]
           \/ /\ Past(request[e])
              /\ request'[e].batch = request[e].batch
              /\ request'[e].answer.shiftsSynced = request[e].answer.shiftsSynced
              /\ request'[e].answer.failed = request[e].answer.failed
              /\ request'[e].answer.fatalShifts = request[e].answer.fatalShifts
    BY <1>5, RestingTyped
  <2>2. RowsFresh'
    <3>1. \A e \in Engines :
             request'[e].pc = "idle"
             \/ /\ request[e].pc # "idle"
                /\ Past(request'[e]) => Past(request[e])
                /\ request'[e].batch = request[e].batch
                /\ request'[e].answer.failed = request[e].answer.failed
                /\ request'[e].answer.fatalShifts = request[e].answer.fatalShifts
      BY <2>1 DEF Past
    <3> QED
      BY <1>0, <1>5, <3>1, RowsStayFresh DEF server
  <2>3. \A e \in Engines : \A h \in Shifts :
           Settled(e, h)' => Settled(e, h) /\ Accepted(request[e])' \subseteq Accepted(request[e])
    BY <2>1 DEF Settled, Past, Accepted
  <2>4. \A r \in Requests : \A t \in request'[r].hand :
           \E q \in Requests :
              /\ t \in request[q].hand
              /\ r \in Engines =>
                    q = r /\ Accepted(request[r])' \subseteq Accepted(request[r])
    <3> SUFFICES ASSUME NEW r \in Requests, NEW t \in request'[r].hand
                 PROVE  \E q \in Requests :
                           /\ t \in request[q].hand
                           /\ r \in Engines =>
                                 q = r /\ Accepted(request[r])' \subseteq Accepted(request[r])
      OBVIOUS
    <3>1. CASE r \in Engines
      <4>1. request'[r] # Resting /\ t \in request[r].hand
        BY <1>5, <3>1, RestingTyped
      <4>2. Accepted(request[r])' \subseteq Accepted(request[r])
        BY <1>5, <3>1, <4>1 DEF Accepted
      <4> QED
        BY <3>1, <4>1, <4>2
    <3>2. CASE r \notin Engines
      BY <1>5, <3>2
    <3> QED
      BY <3>1, <3>2
  <2>5. TotalsTrue' /\ HandsTrue'
    BY <1>0, <1>5, <2>3, <2>4, SayNoMore DEF flags, server
  <2> QED
    BY <1>0, <2>2, <2>5
<1>6. ASSUME NEW e \in Engines, GiveUp(e)
      PROVE  Fresh'
  <2>1. /\ request'[e] = Resting /\ request'[e].hand = {} /\ e \in Requests
        /\ \A q \in Requests \ {e} :
              request'[q] = request[q] \/ (q \in Abandoned /\ request'[q] = request[e])
        /\ UNCHANGED <<till, flags, server>>
    BY <1>6, GiveUpDoes, RestingTyped DEF GiveUp, Requests
  <2> QED
    BY <1>5, <2>1, OutboxAssumption DEF Requests
<1>7. ASSUME NEW r \in Requests, ReadTotals(r)
      PROVE  Fresh'
  <2>1. \A e \in Engines :
           request'[e].pc = "idle"
           \/ /\ request[e].pc # "idle"
              /\ Past(request'[e]) => Past(request[e])
              /\ request'[e].batch = request[e].batch
              /\ request'[e].answer.failed = request[e].answer.failed
              /\ request'[e].answer.fatalShifts = request[e].answer.fatalShifts
    BY <1>7, ReadDoes DEF Only, Past, Requests
  <2>2. UNCHANGED <<till, flags, server>>
    BY <1>7 DEF ReadTotals
  <2>3. RowsFresh'
    BY <1>0, <2>1, <2>2, RowsStayFresh DEF server
  <2> QED
    BY <1>0, <1>7, <2>3, ReadTotalsTrue
<1>8. ASSUME NEW r \in Requests, NEW h \in request[r].due, NEW done \in SUBSET {h},
             Goes(r, Onward(request[r], h, done))
      PROVE  /\ Only(r) /\ request'[r].hand = {}
             /\ r \in Engines =>
                   /\ Past(request[r]) /\ request'[r].batch = request[r].batch
                   /\ request'[r].answer.shiftsSynced = request[r].answer.shiftsSynced \cup done
                   /\ request'[r].answer.failed = request[r].answer.failed
                   /\ request'[r].answer.fatalShifts = request[r].answer.fatalShifts
  <2>1. h \in Shifts /\ Past(request[r])
    BY RowsOf DEF Jobs, Behind, DueWhole, Past
  <2>2. /\ Only(r)
        /\ \/ r \in Abandoned /\ request'[r] = Resting
           \/ /\ request'[r].batch = request[r].batch /\ request'[r].hand = {}
              /\ request'[r].answer.shiftsSynced = request[r].answer.shiftsSynced \cup done
              /\ request'[r].answer.failed = request[r].answer.failed
              /\ request'[r].answer.fatalShifts = request[r].answer.fatalShifts
    BY <1>8, <2>1, OnwardDoes
  <2>3. r \in Abandoned => r \notin Engines
    BY OutboxAssumption
  <2>4. CASE request'[r] = Resting /\ r \notin Engines
    BY <2>2, <2>4, RestingTyped
  <2>5. CASE ~(r \in Abandoned /\ request'[r] = Resting)
    BY <2>1, <2>2, <2>5
  <2> QED
    BY <2>3, <2>4, <2>5
<1>9. ASSUME NEW r \in Requests, WriteTotals(r)
      PROVE  Fresh'
  <2>1. PICK t \in request[r].hand :
           /\ Goes(r, Onward(request[r], t.shift, {t.shift}))
           /\ UNCHANGED <<till, flags, outage, srvShift, srvSale>>
           /\ t.shift \in request[r].due
    BY <1>9, WriteDoes, HandIs
  <2>2. /\ Only(r)
        /\ r \in Engines =>
              /\ Past(request[r]) /\ request'[r].batch = request[r].batch
              /\ request'[r].answer.failed = request[r].answer.failed
              /\ request'[r].answer.fatalShifts = request[r].answer.fatalShifts
    BY <1>8, <2>1
  <2>3. \A e \in Engines :
           request'[e].pc = "idle"
           \/ /\ request[e].pc # "idle"
              /\ Past(request'[e]) => Past(request[e])
              /\ request'[e].batch = request[e].batch
              /\ request'[e].answer.failed = request[e].answer.failed
              /\ request'[e].answer.fatalShifts = request[e].answer.fatalShifts
    BY <2>2 DEF Only, Past, Requests
  <2>4. RowsFresh'
    BY <1>0, <2>1, <2>3, RowsStayFresh
  <2> QED
    BY <1>0, <1>9, <2>4, WriteTotalsTrue
<1>10. ASSUME NEW r \in Requests, TotalsFail(r)
       PROVE  Fresh'
  <2>1. PICK h \in request[r].due : /\ Goes(r, Onward(request[r], h, {}))
                                    /\ UNCHANGED <<till, flags, outage, server>>
    BY <1>10, FailDoes
  <2>2. /\ Only(r) /\ request'[r].hand = {}
        /\ r \in Engines =>
              /\ Past(request[r]) /\ request'[r].batch = request[r].batch
              /\ request'[r].answer.shiftsSynced = request[r].answer.shiftsSynced \cup {}
              /\ request'[r].answer.failed = request[r].answer.failed
              /\ request'[r].answer.fatalShifts = request[r].answer.fatalShifts
    BY <1>8, <2>1, ZenonT(60)
  <2>3. /\ Only(r) /\ request'[r].hand = {}
        /\ r \in Engines =>
              /\ Past(request[r]) /\ request'[r].batch = request[r].batch
              /\ request'[r].answer.shiftsSynced = request[r].answer.shiftsSynced
              /\ request'[r].answer.failed = request[r].answer.failed
              /\ request'[r].answer.fatalShifts = request[r].answer.fatalShifts
    BY <2>2
  <2> QED
    BY <1>5, <2>1, <2>3 DEF Only, Requests
<1>11. ASSUME NEW r \in Abandoned, Lose(r)
       PROVE  Fresh'
  <2>1. /\ Only(r) /\ request'[r].hand = {} /\ r \in Requests /\ r \notin Engines
        /\ UNCHANGED <<till, flags, server>>
    BY <1>11, RestDoes, RestingTyped, OutboxAssumption DEF Lose, Requests
  <2> QED
    BY <1>5, <2>1 DEF Only, Requests
<1>12. CASE OutageEnds \/ UNCHANGED vars
  <2>1. UNCHANGED <<till, flags, request, server>>
    BY <1>12 DEF OutageEnds, vars
  <2> QED
    BY <1>5, <2>1
<1> QED
  BY <1>1, <1>2, <1>3, <1>4, <1>6, <1>7, <1>9, <1>10, <1>11, <1>12 DEF Next, CashierStep

-----------------------------------------------------------------------------
(* The theorems *)

LEMMA InvInit == Init => Inv
<1> SUFFICES ASSUME Init
             PROVE  Inv
  OBVIOUS
<1>1. /\ \A r \in Requests : /\ request[r].pc = "idle" /\ request[r].due = {}
                             /\ request[r].hand = {}
      /\ syncedShifts = {} /\ syncedSales = {}
      /\ \A h \in Shifts : srvShift[h] = "none" /\ totals[h] = {}
      /\ \A s \in Sales : srvSale[s] = "none" /\ sale[s] = "none"
  BY RestingTyped DEF Init
<1>2. TypeOK
  BY <1>1, RestingTyped DEF Init, TypeOK
<1>3. Behind
  BY <1>1 DEF Behind, RequestsBehind, ServerBehind, DueWhole, TillWhole, OfShift
<1>4. AnswersWhole /\ NoSaleVanishes
  BY <1>1 DEF AnswersWhole, NoSaleVanishes, Past, Requests
<1>5. \A e \in Engines : EngineFresh(e) /\ \A h \in Shifts : ~Settled(e, h)
  BY <1>1 DEF EngineFresh, Settled, Past, Requests
<1>6. Fresh
  BY <1>1, <1>5 DEF Fresh, SyncedSaleIsRecorded, SyncedShiftIsRecorded, TotalsTrue, HandsTrue,
                    Claimed
<1> QED
  BY <1>2, <1>3, <1>4, <1>6 DEF Inv

LEMMA InvStep == Inv /\ [Next]_vars => Inv'
<1> SUFFICES ASSUME Inv, [Next]_vars
             PROVE  Inv'
  OBVIOUS
<1>1. TypeOK' /\ Behind'
  BY TypeStep, BehindStep DEF Inv
<1>2. AnswersWhole' /\ NoSaleVanishes'
  BY StoredStep DEF Inv
<1>3. (~ChangesInFlight => Fresh)'
  BY <1>1, FreshStep DEF Inv
<1> QED
  BY <1>1, <1>2, <1>3 DEF Inv

LEMMA InvAlways == Spec => []Inv
<1>1. Init => Inv
  BY InvInit
<1>2. Inv /\ [Next]_vars => Inv'
  BY InvStep
<1> QED
  BY <1>1, <1>2, PTL DEF Spec

\* Rows, flags, requests and answers keep their types, for any number of shifts, sales,
\* engines and abandoned requests (sync_engine.dart, reconciler.dart, the daos).
THEOREM TypeCorrect == Spec => []TypeOK
<1>1. Inv => TypeOK
  BY DEF Inv
<1> QED
  BY <1>1, InvAlways, PTL

\* Whatever the cashier does during a request, and whatever is lost, repeated or late,
\* a sale leaves the queue only when the server has it (transactionSynced in
\* reconciler.dart).
THEOREM NothingVanishes == Spec => []NoSaleVanishes
<1>1. Inv => NoSaleVanishes
  BY DEF Inv
<1> QED
  BY <1>1, InvAlways, PTL

\* No copy, however old, reopens a shift, withdraws a void or removes a sale on the
\* server (syncShifts and syncTransactions in pos_sync_service.go).
THEOREM ServerOnward == Spec => ServerNeverRegresses
<1>1. Inv /\ [Next]_vars => [ServerMovesOn]_vars
  BY OnwardStep DEF Inv
<1>2. ServerMovesOn =>
         /\ \A h \in Shifts : srvShift[h] = "CLOSED" => srvShift'[h] = "CLOSED"
         /\ \A s \in Sales : /\ srvSale[s] = "VOIDED" => srvSale'[s] = "VOIDED"
                             /\ srvSale[s] # "none" => srvSale'[s] # "none"
  BY DEF ServerMovesOn
<1> QED
  BY <1>1, <1>2, InvAlways, PTL DEF Spec, ServerNeverRegresses

\* As long as no row changes during a request, a synced sale is on the server as the
\* till has it (transactionSynced in reconciler.dart, transaction_dao.dart).
THEOREM SyncedSalesRecorded == ~ChangesInFlight => (Spec => []SyncedSaleIsRecorded)
<1> SUFFICES ASSUME ~ChangesInFlight
             PROVE  Spec => []SyncedSaleIsRecorded
  OBVIOUS
<1>1. Inv => SyncedSaleIsRecorded
  BY DEF Inv, Fresh
<1> QED
  BY <1>1, InvAlways, PTL

\* As long as no row changes during a request, a synced shift is on the server as the
\* till has it, its close included (shift_dao.dart, reconciler.dart).
THEOREM SyncedShiftsRecorded == ~ChangesInFlight => (Spec => []SyncedShiftIsRecorded)
<1> SUFFICES ASSUME ~ChangesInFlight
             PROVE  Spec => []SyncedShiftIsRecorded
  OBVIOUS
<1>1. Inv => SyncedShiftIsRecorded
  BY DEF Inv, Fresh
<1> QED
  BY <1>1, InvAlways, PTL

\* As long as no row changes during a request, the totals of a settled shift cover
\* exactly its completed sales, although Reconcile reads them in one statement and
\* writes them in a later one, while other requests are stored and settled; only a
\* shift that two requests had in hand at once is excepted (reconcileClosedShifts in
\* pos_sync_service.go, shift_reconcile_service.go).
THEOREM SettledShiftsCount == ~ChangesInFlight => (Spec => []SettledShiftCountsItsSales)
<1> SUFFICES ASSUME ~ChangesInFlight
             PROVE  Spec => []SettledShiftCountsItsSales
  OBVIOUS
<1>1. Inv => SettledShiftCountsItsSales
  <2> SUFFICES ASSUME Inv, NEW h \in syncedShifts \ raced, shift[h] = "CLOSED",
                      {s \in Sales : ShiftOf[s] = h /\ sale[s] # "none"} \subseteq syncedSales
               PROVE  totals[h] = {s \in {s \in Sales : ShiftOf[s] = h /\ sale[s] # "none"} :
                                      sale[s] = "COMPLETED"}
    BY DEF SettledShiftCountsItsSales
  <2>1. h \in Shifts /\ totals[h] \subseteq Sales
    BY DEF Inv, TypeOK
  <2>2. \A s \in totals[h] : ShiftOf[s] = h /\ sale[s] # "none"
    BY <2>1 DEF Inv, Behind, ServerBehind, OfShift
  <2>3. Claimed(h) /\ TotalsTrue
    BY DEF Claimed, Inv, Fresh
  <2>4. \A s \in Sales : ShiftOf[s] = h /\ sale[s] # "none" => s \in Vouched(h)
    BY DEF Vouched
  <2>5. \A s \in Sales : ShiftOf[s] = h /\ sale[s] # "none" =>
           (s \in totals[h] <=> sale[s] = "COMPLETED")
    BY <2>1, <2>3, <2>4 DEF TotalsTrue, RightAbout
  <2> QED
    BY <2>1, <2>2, <2>5
<1> QED
  BY <1>1, InvAlways, PTL

\* Nothing reaches the server that the till did not do: no void, no close, no sale, nor
\* a total that counts another shift's sale, however old the copies that arrive.
THEOREM ServerFollowsTill == Spec => []ServerBehind
<1>1. Inv => ServerBehind
  BY DEF Inv, Behind
<1> QED
  BY <1>1, InvAlways, PTL

-----------------------------------------------------------------------------
(* What the schema demands of the server's rows. *)

OneOpen(rows) == \A g, h \in DOMAIN rows : rows[g] = "OPEN" /\ rows[h] = "OPEN" => g = h

\* At most one OPEN shift for the device, and no sale without its shift.
ConstraintsHold ==
    /\ OneOpen(srvShift)
    /\ \A s \in Sales : srvSale[s] # "none" => srvShift[ShiftOf[s]] # "none"

\* The till opens one shift at a time, so no request brings two open ones.
OneOpenEach ==
    /\ OneOpen(shift)
    /\ \A r \in Requests : OneOpen(request[r].batch.shifts)

LEMMA StoreKeepsConstraints ==
    ASSUME TypeOK, ConstraintsHold, NEW b \in Batches, OneOpen(b.shifts),
           NEW lostShifts, NEW lostSales,
           srvShift' = ShiftsAfter(b, lostShifts),
           srvSale' = SalesAfter(b, lostShifts, lostSales)
    PROVE  ConstraintsHold'
<1> DEFINE saved == Saved(b, lostShifts)
           stored == Stored(b, lostShifts, lostSales)
<1>1. srvShift' = [h \in Shifts |-> IF h \in saved THEN b.shifts[h] ELSE srvShift[h]]
  BY DEF ShiftsAfter
<1>2. /\ saved \subseteq DOMAIN b.shifts /\ DOMAIN b.shifts \subseteq Shifts
      /\ \A h \in saved : b.shifts[h] # "none"
  BY BatchTyped DEF Saved
<1>3. ASSUME NEW g \in saved, b.shifts[g] = "OPEN", NEW h \in Shifts \ {g},
             srvShift'[h] = "OPEN"
      PROVE  FALSE
  <2>1. h \notin saved
    BY <1>1, <1>2, <1>3 DEF OneOpen
  <2>2. srvShift[h] = "OPEN"
    BY <1>1, <1>3, <2>1
  <2>3. ~SlotTaken(b, lostShifts, g)
    BY <1>3 DEF Saved
  <2>4. h \in ClosedIn(b) \ lostShifts
    BY <2>2, <2>3 DEF SlotTaken
  <2>5. h \in saved
    BY <2>4 DEF Saved, ClosedIn
  <2> QED
    BY <2>1, <2>5
<1>4. OneOpen(srvShift')
  <2> SUFFICES ASSUME NEW g \in Shifts, NEW h \in Shifts \ {g},
                      srvShift'[g] = "OPEN", srvShift'[h] = "OPEN"
               PROVE  FALSE
    BY <1>1 DEF OneOpen
  <2>1. g \notin saved /\ h \notin saved
    BY <1>1, <1>3
  <2>2. srvShift[g] = "OPEN" /\ srvShift[h] = "OPEN"
    BY <1>1, <2>1
  <2> QED
    BY <2>2 DEF ConstraintsHold, OneOpen, TypeOK
<1>5. ASSUME NEW s \in Sales, srvSale'[s] # "none"
      PROVE  srvShift'[ShiftOf[s]] # "none"
  <2>1. ShiftOf[s] \in Shifts
    BY OutboxAssumption
  <2>2. CASE s \in stored
    BY <2>2 DEF Stored
  <2>3. CASE s \notin stored
    <3>1. srvSale[s] # "none"
      BY <1>5, <2>3 DEF SalesAfter
    <3> QED
      BY <1>1, <1>2, <2>1, <3>1 DEF ConstraintsHold
  <2> QED
    BY <2>2, <2>3
<1> QED
  BY <1>4, <1>5 DEF ConstraintsHold

LEMMA OneOpenStep ==
    ASSUME Inv, OneOpenEach, [Next]_vars
    PROVE  OneOpenEach'
<1>0. TypeOK /\ Behind /\ DOMAIN shift = Shifts
  BY DEF Inv, TypeOK
<1>1. ASSUME shift' = shift,
             \A q \in Requests :
                \/ request'[q] = Resting
                \/ \E r \in Requests : request'[q].batch = request[r].batch
      PROVE  OneOpenEach'
  <2>1. OneOpen(Resting.batch.shifts)
    BY DEF OneOpen, Resting, NoRows
  <2> QED
    BY <1>1, <2>1 DEF OneOpenEach
<1>2. ASSUME NEW h \in Shifts, OpenShift(h) \/ CloseShift(h)
      PROVE  OneOpenEach'
  BY <1>0, <1>2 DEF OpenShift, CloseShift, OneOpenEach, OneOpen
<1>3. ASSUME NEW s \in Sales, Sell(s) \/ VoidSale(s)
      PROVE  OneOpenEach'
  BY <1>1, <1>3 DEF Sell, VoidSale
<1>4. ASSUME NEW e \in Engines, Send(e)
      PROVE  OneOpenEach'
  <2>1. OneOpen(Batch.shifts)
    BY <1>0, SendMakes DEF OneOpenEach, OneOpen
  <2>2. Only(e) /\ shift' = shift /\ (request' = request \/ request'[e].batch = Batch)
    BY <1>0, <1>4, SendDoes DEF till
  <2> QED
    BY <2>1, <2>2 DEF OneOpenEach, Only
<1>5. ASSUME NEW e \in Engines, GiveUp(e)
      PROVE  OneOpenEach'
  <2>1. /\ e \in Requests /\ request'[e] = Resting /\ shift' = shift
        /\ \A q \in Requests \ {e} : request'[q] = request[q] \/ request'[q] = request[e]
    BY <1>0, <1>5, GiveUpDoes DEF GiveUp, till, Requests
  <2> QED
    BY <1>1, <2>1
<1>6. ASSUME NEW r \in Requests, Only(r), shift' = shift,
             request'[r] = Resting \/ request'[r].batch = request[r].batch
      PROVE  OneOpenEach'
  BY <1>1, <1>6 DEF Only
<1>7. ASSUME NEW r \in Requests, request' = [request EXCEPT ![r] = Resting], UNCHANGED till
      PROVE  OneOpenEach'
  BY <1>0, <1>6, <1>7, RestDoes DEF till
<1>8. ASSUME NEW r \in Requests, NEW lostShifts, NEW lostSales,
             Store(r, lostShifts, lostSales)
      PROVE  OneOpenEach'
  <2>1. /\ Only(r) /\ shift' = shift
        /\ request'[r] = Resting \/ request'[r].batch = request[r].batch
    BY <1>0, <1>8, StoreDoes DEF Store, till
  <2> QED
    BY <1>6, <2>1
<1>9. ASSUME NEW r \in Requests, ReadTotals(r)
      PROVE  OneOpenEach'
  BY <1>0, <1>6, <1>9, ReadDoes DEF ReadTotals, till
<1>10. ASSUME NEW r \in Requests, NEW h \in Shifts, NEW done \in SUBSET {h},
              Goes(r, Onward(request[r], h, done)), shift' = shift
       PROVE  OneOpenEach'
  <2>1. Only(r) /\ (request'[r] = Resting \/ request'[r].batch = request[r].batch)
    BY <1>0, <1>10, OnwardDoes
  <2> QED
    BY <1>6, <1>10, <2>1
<1>11. ASSUME NEW r \in Requests, WriteTotals(r)
       PROVE  OneOpenEach'
  <2>1. PICK t \in request[r].hand :
           /\ Goes(r, Onward(request[r], t.shift, {t.shift}))
           /\ UNCHANGED <<till, flags, outage, srvShift, srvSale>>
           /\ t.shift \in Shifts
    BY <1>0, <1>11, WriteDoes
  <2> QED
    BY <1>10, <2>1 DEF till
<1>12. ASSUME NEW r \in Requests, TotalsFail(r)
       PROVE  OneOpenEach'
  <2>1. PICK h \in Shifts : /\ Goes(r, Onward(request[r], h, {}))
                            /\ UNCHANGED <<till, flags, outage, server>>
    BY <1>0, <1>12, FailDoes
  <2> QED
    BY <1>10, <2>1 DEF till
<1>13. CASE OutageEnds \/ UNCHANGED vars
  BY <1>1, <1>13 DEF OutageEnds, vars, till
<1> QED
  BY <1>2, <1>3, <1>4, <1>5, <1>7, <1>8, <1>9, <1>11, <1>12, <1>13
  DEF Next, Reconcile, Lose, Requests

LEMMA ConstraintsStep ==
    ASSUME TypeOK, Behind, OneOpenEach, ConstraintsHold, [Next]_vars
    PROVE  ConstraintsHold'
<1>1. CASE UNCHANGED <<srvShift, srvSale>>
  BY <1>1 DEF ConstraintsHold
<1>2. ASSUME NEW r \in Requests, NEW lostShifts, NEW lostSales,
             Store(r, lostShifts, lostSales)
      PROVE  ConstraintsHold'
  BY <1>2, StoreTells, StoreKeepsConstraints DEF OneOpenEach
<1> QED
  BY <1>1, <1>2, ServerSteps

\* The server's rows satisfy the unique index of migration 000021 (one OPEN shift for a
\* device) and the foreign key of 000016 (a sale has its shift), although one request
\* may close a shift and open the next, and any row of it may be lost.
THEOREM ConstraintsKept == Spec => []ConstraintsHold
<1> DEFINE Whole == Inv /\ OneOpenEach /\ ConstraintsHold
<1>1. Init => Whole
  <2> SUFFICES ASSUME Init PROVE OneOpenEach /\ ConstraintsHold
    BY InvInit
  <2>1. OneOpen(NoRows.shifts)
    BY DEF OneOpen, NoRows
  <2>2. \A r \in Requests : request[r].batch = NoRows
    BY DEF Init, Resting
  <2>3. OneOpenEach
    BY <2>1, <2>2 DEF Init, OneOpenEach, OneOpen
  <2> QED
    BY <2>3 DEF Init, ConstraintsHold, OneOpen
<1>2. Whole /\ [Next]_vars => Whole'
  BY InvStep, OneOpenStep, ConstraintsStep DEF Inv
<1>3. Whole => ConstraintsHold
  OBVIOUS
<1> HIDE DEF Whole
<1> QED
  BY <1>1, <1>2, <1>3, PTL DEF Spec
=============================================================================
