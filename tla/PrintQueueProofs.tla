--------------------------- MODULE PrintQueueProofs ---------------------------
(***************************************************************************)
(* The safety of the print queue, for any number of jobs, calls of flush,  *)
(* attempts, presses and relaunches.                                       *)
(*                                                                         *)
(* What makes it inductive: one call of flush is at work (OneAtWork), the  *)
(* jobs it has yet to send are still due although it read them long ago    *)
(* (HandsTrue), and what the button is about to bring back is still given  *)
(* up (PressTrue), so the counters of a job follow its status (CountsTrue).*)
(***************************************************************************)
EXTENDS PrintQueue, TLAPS

Working == {"reading", "next", "sending", "accepted", "refused", "stamping", "reporting",
            "ending"}

AtWork(f) == run[f].pc \in Working

OneAtWork ==
    /\ \A f \in Runs : AtWork(f) => flushing
    /\ \A f, g \in Runs : AtWork(f) /\ AtWork(g) => f = g

\* The sends of a job before the one it waits for.
Before(j) == IF j \in asked THEN 0 ELSE attempts[j]

Allowed(j) == IF j \in asked THEN 1 ELSE MaxAttempts

CountsTrue ==
    \A j \in Jobs :
        /\ status[j] = "none" => attempts[j] = 0 /\ sends[j] = 0 /\ accepted[j] = 0
        /\ status[j] \in {"none", "FAILED"} => j \notin asked
        /\ j \in asked => attempts[j] = MaxAttempts
        /\ j \notin asked /\ status[j] \in {"PENDING", "PRINTING"} =>
              attempts[j] < MaxAttempts
        /\ status[j] = "ABANDONED" => attempts[j] = MaxAttempts
        /\ status[j] \in {"PENDING", "FAILED"} => sends[j] = Before(j)
        /\ Counted(j) => accepted[j] = 0
        /\ sends[j] <= Allowed(j) /\ accepted[j] <= 1

HandTrue(f) ==
    /\ AtWork(f) => \A j \in run[f].todo : status[j] \in {"PENDING", "FAILED"}
    /\ run[f].pc \in {"sending", "accepted", "refused"} =>
          run[f].job \in Jobs /\ status[run[f].job] = "PRINTING"
    /\ run[f].pc = "sending" =>
          sends[run[f].job] = Before(run[f].job) /\ accepted[run[f].job] = 0
    /\ run[f].pc = "refused" =>
          sends[run[f].job] = Before(run[f].job) + 1 /\ accepted[run[f].job] = 0
    /\ run[f].pc \in {"accepted", "stamping"} =>
          run[f].job \in Jobs /\ accepted[run[f].job] = 1
    /\ run[f].pc = "reporting" =>
          /\ run[f].job \in Jobs /\ reports[run[f].job] = 0
          /\ run[f].job \in asked \/ status[run[f].job] = "ABANDONED"

HandsTrue == \A f \in Runs : HandTrue(f)

PressTrue == \A j \in press.todo : status[j] = "ABANDONED"

Inv ==
    /\ TypeOK
    /\ OneAtWork
    /\ CountsTrue
    /\ HandsTrue
    /\ PressTrue
    /\ StampedWasAccepted
    /\ ReportedOnce

-----------------------------------------------------------------------------
(* Types *)

Calls == [pc : Pcs, todo : SUBSET Jobs, job : Jobs \cup {0}]

LEMMA CallsTyped ==
    /\ Off \in Calls /\ Reading \in Calls /\ [Off EXCEPT !.pc = "ending"] \in Calls
    /\ \A c \in Calls, pc \in Pcs : [c EXCEPT !.pc = pc] \in Calls
    /\ NoPress \in [pc : {"off", "requeueing", "waiting"}, todo : SUBSET Jobs,
                    calls : SUBSET Runs]
BY DEF Off, Reading, Calls, Pcs, NoPress

\* A call of flush changes nothing, or puts one call to work.
LEMMA FlushStarts ==
    ASSUME TypeOK, OneAtWork, NEW f \in Runs, Flush(f)
    PROVE  /\ run' \in [Runs -> Calls] /\ flushing' = TRUE
           /\ OneAtWork'
           /\ \A g \in Runs : run'[g] = run[g] \/ run'[g] = Reading
<1>1. CASE flushing /\ UNCHANGED <<flushing, run>>
  BY <1>1 DEF OneAtWork, AtWork, TypeOK, Calls
<1>2. CASE ~flushing /\ flushing' = TRUE /\ run' = [run EXCEPT ![f] = Reading]
  BY <1>2, CallsTyped DEF OneAtWork, AtWork, TypeOK, Calls
<1> QED
  BY <1>1, <1>2 DEF Flush

\* A step from one statement of a call to the next.
LEMMA CallGoesOn ==
    ASSUME TypeOK, OneAtWork, NEW f \in Runs, NEW c \in Calls, AtWork(f),
           run' = [run EXCEPT ![f] = c], flushing' = flushing
    PROVE  /\ run' \in [Runs -> Calls] /\ OneAtWork'
           /\ run'[f] = c /\ \A g \in Runs \ {f} : run'[g] = run[g] /\ ~AtWork(g)
BY DEF TypeOK, OneAtWork, AtWork, Calls

\* Calls that are not at work have nothing in hand.
LEMMA IdleTrue ==
    ASSUME NEW f \in Runs, ~AtWork(f)
    PROVE  HandTrue(f)
BY DEF AtWork, HandTrue, Working

LEMMA CallIsTyped ==
    ASSUME TypeOK, NEW f \in Runs
    PROVE  run[f] \in Calls
BY DEF TypeOK, Calls

-----------------------------------------------------------------------------
(* The steps *)

LEMMA InvInit == Init => Inv
<1> SUFFICES ASSUME Init
             PROVE  Inv
  OBVIOUS
<1>1. TypeOK
  <2>1. run \in [Runs -> Calls]
    BY CallsTyped DEF Init
  <2>2. press \in [pc : {"off", "requeueing", "waiting"}, todo : SUBSET Jobs,
                   calls : SUBSET Runs]
    BY CallsTyped DEF Init
  <2> QED
    <3>1. 0 \in 0 .. MaxAttempts /\ 0 < MaxAttempts
      BY PrintAssumption
    <3> QED
      BY <2>1, <2>2, <3>1 DEF Init, TypeOK, Calls, Statuses
<1>2. \A f \in Runs : run[f].pc = "off"
  BY DEF Init, Off
<1>3. OneAtWork /\ HandsTrue
  BY <1>2, IdleTrue DEF OneAtWork, AtWork, Working, HandsTrue
<1>4. CountsTrue
  BY PrintAssumption DEF Init, CountsTrue, Counted, Before, Allowed
<1>5. PressTrue /\ StampedWasAccepted /\ ReportedOnce
  BY DEF Init, PressTrue, NoPress, StampedWasAccepted, ReportedOnce
<1> QED
  BY <1>1, <1>3, <1>4, <1>5 DEF Inv

LEMMA EnqueueInv ==
    ASSUME Inv, NEW j \in Jobs, NEW f \in Runs, Enqueue(j, f)
    PROVE  Inv'
<1>1. /\ status[j] = "none" /\ status' = [status EXCEPT ![j] = "PENDING"] /\ Flush(f)
      /\ UNCHANGED <<attempts, resting, stamped, timer, press, trouble, history>>
  BY DEF Enqueue, First
<1>2. /\ run' \in [Runs -> Calls] /\ flushing' = TRUE /\ OneAtWork'
      /\ \A g \in Runs : run'[g] = run[g] \/ run'[g] = Reading
  BY <1>1, FlushStarts DEF Inv
<1>3. TypeOK'
  BY <1>1, <1>2 DEF Inv, TypeOK, history, Calls, Statuses
<1>4. CountsTrue'
  BY <1>1, PrintAssumption DEF Inv, TypeOK, CountsTrue, Counted, Before, Allowed, history
<1>5. HandsTrue'
  BY <1>1, <1>2, CallIsTyped DEF Inv, TypeOK, HandsTrue, HandTrue, Before, AtWork, Working, Reading, history, Calls
<1>6. PressTrue' /\ StampedWasAccepted' /\ ReportedOnce'
  BY <1>1 DEF Inv, TypeOK, PressTrue, StampedWasAccepted, ReportedOnce, history
<1> QED
  BY <1>2, <1>3, <1>4, <1>5, <1>6 DEF Inv

\* Steps that start a call of flush, or none, and leave the jobs alone.
LEMMA StartInv ==
    ASSUME Inv, UNCHANGED <<status, attempts, stamped, history>>,
           timer' \in BOOLEAN, trouble' \in BOOLEAN,
           resting' \subseteq resting,
           \/ UNCHANGED <<flushing, run>>
           \/ \E f \in Runs : Flush(f) \/ Relaunch(f),
           press' \in [pc : {"off", "requeueing", "waiting"}, todo : SUBSET Jobs,
                       calls : SUBSET Runs],
           press'.todo \subseteq press.todo
    PROVE  Inv'
<1> DEFINE Started ==
             /\ run' \in [Runs -> Calls] /\ flushing' \in BOOLEAN /\ OneAtWork'
             /\ \A g \in Runs : run'[g] = run[g] \/ run'[g] = Reading \/ run'[g] = Off
<1>1. Started
  <2>1. CASE UNCHANGED <<flushing, run>>
    BY <2>1 DEF Inv, TypeOK, OneAtWork, AtWork, Calls
  <2>2. ASSUME NEW f \in Runs, Flush(f)
        PROVE  Started
    BY <2>2, FlushStarts DEF Inv
  <2>3. ASSUME NEW f \in Runs, Relaunch(f)
        PROVE  Started
    <3>1. /\ run' = [g \in Runs |-> IF g = f THEN Reading ELSE Off] /\ flushing' = TRUE
          /\ \A g \in Runs : run'[g] = IF g = f THEN Reading ELSE Off
      BY <2>3 DEF Relaunch
    <3>2. run' \in [Runs -> Calls]
      BY <3>1, CallsTyped
    <3>3. \A g \in Runs : AtWork(g)' => g = f
      BY <3>1 DEF AtWork, Working, Off
    <3>4. OneAtWork'
      BY <3>1, <3>3 DEF OneAtWork
    <3> QED
      BY <3>1, <3>2, <3>4
  <2> QED
    BY <2>1, <2>2, <2>3
<1>2. TypeOK'
  BY <1>1 DEF Inv, TypeOK, history, Calls
<1>3. CountsTrue' /\ PressTrue' /\ StampedWasAccepted' /\ ReportedOnce'
  BY DEF Inv, CountsTrue, Counted, Before, Allowed, PressTrue, StampedWasAccepted, ReportedOnce, history
<1>4. HandsTrue'
  BY <1>1 DEF Inv, HandsTrue, HandTrue, Before, AtWork, Working, Reading, Off, history
<1> QED
  BY <1>1, <1>2, <1>3, <1>4 DEF Inv

LEMMA RequeueInv ==
    ASSUME Inv, NEW j \in Jobs, Requeue(j)
    PROVE  Inv'
<1>1. /\ j \in press.todo /\ status[j] = "ABANDONED"
      /\ status' = [status EXCEPT ![j] = "PENDING"]
      /\ resting' = resting \ {j}
      /\ press' = [press EXCEPT !.todo = @ \ {j}]
      /\ sends' = [sends EXCEPT ![j] = 0]
      /\ asked' = asked \cup {j}
      /\ UNCHANGED <<attempts, stamped, flushing, run, timer, trouble, accepted, reports>>
  BY DEF Requeue, First, Inv, PressTrue
<1>2. TypeOK'
  BY <1>1, PrintAssumption DEF Inv, TypeOK, Statuses
<1>3. CountsTrue'
  BY <1>1, PrintAssumption DEF Inv, TypeOK, CountsTrue, Counted, Before, Allowed
<1>4. OneAtWork' /\ HandsTrue'
  BY <1>1 DEF Inv, TypeOK, OneAtWork, AtWork, HandsTrue, HandTrue, Before
<1>5. PressTrue' /\ StampedWasAccepted' /\ ReportedOnce'
  BY <1>1 DEF Inv, TypeOK, PressTrue, StampedWasAccepted, ReportedOnce
<1> QED
  BY <1>2, <1>3, <1>4, <1>5 DEF Inv

LEMMA PressInv ==
    ASSUME Inv, Press
    PROVE  Inv'
<1>1. /\ press' = [pc |-> "requeueing", calls |-> {},
                   todo |-> {j \in Jobs : status[j] = "ABANDONED"}]
      /\ UNCHANGED <<jobs, flushing, run, timer, trouble, history>>
  BY DEF Press
<1>2. TypeOK' /\ PressTrue'
  BY <1>1 DEF Inv, TypeOK, PressTrue, jobs, history
<1>3. OneAtWork' /\ CountsTrue' /\ HandsTrue' /\ StampedWasAccepted' /\ ReportedOnce'
  BY <1>1
  DEF Inv, OneAtWork, AtWork, CountsTrue, Counted, Before, Allowed, HandsTrue, HandTrue, StampedWasAccepted, ReportedOnce,
      jobs, history
<1> QED
  BY <1>2, <1>3 DEF Inv

\* A step of a call that leaves the jobs alone and keeps or drops what it has in hand.
LEMMA MovesInv ==
    ASSUME Inv, NEW f \in Runs, NEW c \in Calls, AtWork(f),
           run' = [run EXCEPT ![f] = c],
           UNCHANGED <<status, attempts, resting, trouble, flushing, timer, press>>,
           UNCHANGED <<sends, accepted, asked>>,
           reports' \in [Jobs -> Nat], ReportedOnce',
           stamped' \subseteq stamped \cup {j \in Jobs : accepted[j] = 1},
           c.pc \in {"next", "ending"},
           \A j \in c.todo : status[j] \in {"PENDING", "FAILED"}
    PROVE  Inv'
<1>1. /\ run' \in [Runs -> Calls] /\ OneAtWork'
      /\ run'[f] = c /\ \A g \in Runs \ {f} : run'[g] = run[g] /\ ~AtWork(g)
  BY CallGoesOn DEF Inv
<1>2. TypeOK'
  BY <1>1 DEF Inv, TypeOK, history, Calls
<1>3. CountsTrue' /\ PressTrue' /\ StampedWasAccepted' /\ ReportedOnce'
  BY DEF Inv, CountsTrue, Counted, Before, Allowed, PressTrue, StampedWasAccepted, ReportedOnce, history
<1>4. HandsTrue'
  BY <1>1 DEF Inv, HandsTrue, HandTrue, Before, AtWork, Working
<1> QED
  BY <1>1, <1>2, <1>3, <1>4 DEF Inv

LEMMA ReadInv ==
    ASSUME Inv, NEW f \in Runs, Read(f)
    PROVE  Inv'
<1> DEFINE c == [pc |-> "next", job |-> 0,
                 todo |-> {j \in Due : Cardinality({i \in Due : i < j}) < DueLimit}]
<1>1. c \in Calls /\ \A j \in c.todo : status[j] \in {"PENDING", "FAILED"}
  BY DEF Due, Calls, Pcs
<1>2. AtWork(f) /\ run' = [run EXCEPT ![f] = c]
  BY DEF Read, At, AtWork, Working
<1>3. /\ UNCHANGED <<status, attempts, resting, trouble, flushing, timer, press>>
      /\ UNCHANGED <<reports, stamped, sends, accepted, asked>>
  BY DEF Read, jobs, history
<1>4. /\ reports \in [Jobs -> Nat] /\ c.pc \in {"next", "ending"}
      /\ ReportedOnce'
  BY <1>3 DEF Inv, TypeOK, ReportedOnce
<1> HIDE DEF c
<1> QED
  BY <1>1, <1>2, <1>3, <1>4, MovesInv

LEMMA LeaveInv ==
    ASSUME Inv, NEW f \in Runs, Stamp(f) \/ Report(f) \/ Breaks(f) \/ Done(f)
    PROVE  Inv'
<1> DEFINE c == IF Stamp(f) \/ Report(f) THEN [run[f] EXCEPT !.pc = "next"]
                ELSE [Off EXCEPT !.pc = "ending"]
<1>1. AtWork(f) /\ run' = [run EXCEPT ![f] = c]
  BY DEF Stamp, Report, Breaks, Done, At, Goto, AtWork, Working, Inv, TypeOK
<1>2. /\ UNCHANGED <<status, attempts, resting, trouble, flushing, timer, press>>
      /\ UNCHANGED <<sends, accepted, asked>>
      /\ reports' \in [Jobs -> Nat]
  BY DEF Stamp, Report, Breaks, Done, jobs, history, Inv, TypeOK
<1>6. ReportedOnce'
  <2>1. CASE Report(f)
    <3>1. /\ run[f].job \in Jobs /\ reports[run[f].job] = 0
          /\ run[f].job \in asked \/ status[run[f].job] = "ABANDONED"
      BY <2>1 DEF Report, At, Inv, HandsTrue, HandTrue
    <3>2. \A j \in Jobs : \/ reports'[j] = reports[j]
                          \/ j = run[f].job /\ reports'[j] = reports[j] + 1
      BY <2>1 DEF Report, Inv, TypeOK
    <3> QED
      BY <1>2, <3>1, <3>2 DEF Inv, ReportedOnce
  <2>2. CASE ~Report(f)
    BY <1>2, <2>2 DEF Stamp, Breaks, Done, jobs, history, Inv, ReportedOnce
  <2> QED
    BY <2>1, <2>2
<1>3. stamped' \subseteq stamped \cup {j \in Jobs : accepted[j] = 1}
  BY DEF Stamp, Report, Breaks, Done, At, jobs, Inv, HandsTrue, HandTrue, Before
<1>4. c \in Calls /\ c.pc \in {"next", "ending"}
  <2>1. run[f] \in Calls
    BY CallIsTyped DEF Inv
  <2>2. /\ [run[f] EXCEPT !.pc = "next"] \in Calls
        /\ [run[f] EXCEPT !.pc = "next"].pc = "next"
    BY <2>1 DEF Calls, Pcs
  <2>3. [Off EXCEPT !.pc = "ending"] \in Calls /\ [Off EXCEPT !.pc = "ending"].pc = "ending"
    BY CallsTyped DEF Off
  <2> QED
    BY <2>2, <2>3
<1>5. \A j \in c.todo : status[j] \in {"PENDING", "FAILED"}
  BY <1>1, CallIsTyped DEF Inv, HandsTrue, HandTrue, Before, Off, Calls
<1> HIDE DEF c
<1> QED
  BY <1>1, <1>2, <1>3, <1>4, <1>5, <1>6, MovesInv

LEMMA TakeInv ==
    ASSUME Inv, NEW f \in Runs, Take(f)
    PROVE  Inv'
<1>1. PICK j \in Jobs :
         /\ j \in run[f].todo
         /\ status' = [status EXCEPT ![j] = "PRINTING"]
         /\ run' = [run EXCEPT ![f] = [pc |-> "sending", todo |-> run[f].todo \ {j}, job |-> j]]
  BY DEF Take, First
<1>2. /\ AtWork(f) /\ status[j] \in {"PENDING", "FAILED"}
      /\ \A i \in run[f].todo : status[i] \in {"PENDING", "FAILED"}
      /\ UNCHANGED <<attempts, resting, stamped, flushing, timer, press, trouble, history>>
  BY <1>1 DEF Take, At, AtWork, Working, Inv, HandsTrue, HandTrue, Before
<1> DEFINE c == [pc |-> "sending", todo |-> run[f].todo \ {j}, job |-> j]
<1>3. c \in Calls
  BY CallIsTyped DEF Inv, Calls, Pcs
<1>4. /\ run' \in [Runs -> Calls] /\ OneAtWork'
      /\ run'[f] = c /\ \A g \in Runs \ {f} : run'[g] = run[g] /\ ~AtWork(g)
  BY <1>1, <1>2, <1>3, CallGoesOn DEF Inv
<1>5. TypeOK'
  BY <1>1, <1>2, <1>4 DEF Inv, TypeOK, history, Calls, Statuses
<1>6. CountsTrue'
  BY <1>1, <1>2 DEF Inv, TypeOK, CountsTrue, Counted, Before, Allowed, history
<1>7. HandTrue(f)'
  BY <1>1, <1>2, <1>4 DEF Inv, TypeOK, HandTrue, CountsTrue, Counted, Before, Allowed, history
<1>8. \A g \in Runs \ {f} : HandTrue(g)'
  BY <1>4 DEF HandTrue, AtWork, Working
<1>9. PressTrue' /\ StampedWasAccepted' /\ ReportedOnce'
  BY <1>1, <1>2 DEF Inv, TypeOK, PressTrue, StampedWasAccepted, ReportedOnce, history
<1> QED
  BY <1>4, <1>5, <1>6, <1>7, <1>8, <1>9 DEF Inv, HandsTrue

LEMMA SendInv ==
    ASSUME Inv, NEW f \in Runs, Send(f)
    PROVE  Inv'
<1> DEFINE j == run[f].job
<1>1. /\ AtWork(f) /\ j \in Jobs /\ status[j] = "PRINTING"
      /\ sends[j] = Before(j) /\ accepted[j] = 0
      /\ \A i \in run[f].todo : status[i] \in {"PENDING", "FAILED"}
  BY DEF Send, At, AtWork, Working, Inv, HandsTrue, HandTrue, Before
<1>2. /\ sends' = [sends EXCEPT ![j] = @ + 1]
      /\ UNCHANGED <<jobs, flushing, timer, press, trouble, asked, reports>>
  BY DEF Send
<1>3. PICK pc \in {"accepted", "refused"} :
         /\ run' = [run EXCEPT ![f] = [run[f] EXCEPT !.pc = pc]]
         /\ accepted' = [accepted EXCEPT ![j] = IF pc = "accepted" THEN 1 ELSE 0]
  BY <1>1 DEF Send, Goto, Inv, TypeOK
<1> DEFINE c == [run[f] EXCEPT !.pc = pc]
<1>4. c \in Calls /\ c.pc = pc /\ c.job = j /\ c.todo = run[f].todo
  BY CallIsTyped DEF Inv, Calls, Pcs
<1>5. /\ run' \in [Runs -> Calls] /\ OneAtWork'
      /\ run'[f] = c /\ \A g \in Runs \ {f} : run'[g] = run[g] /\ ~AtWork(g)
  BY <1>1, <1>2, <1>3, <1>4, CallGoesOn DEF Inv
<1>6. TypeOK'
  BY <1>1, <1>2, <1>3, <1>5 DEF Inv, TypeOK, jobs, Calls
<1>7. CountsTrue'
  <2>1. /\ sends[j] + 1 <= Allowed(j) /\ sends[j] \in Nat
        /\ j \in asked => sends[j] = 0
        /\ ~Counted(j) /\ status[j] # "none"
    <3>1. \A i \in Jobs : i \notin asked /\ status[i] = "PRINTING" => attempts[i] < MaxAttempts
      BY DEF Inv, CountsTrue
    <3>2. /\ sends \in [Jobs -> Nat] /\ attempts \in [Jobs -> 0 .. MaxAttempts]
          /\ MaxAttempts \in Nat
      BY PrintAssumption DEF Inv, TypeOK
    <3>3. j \in Jobs /\ status[j] = "PRINTING" /\ sends[j] = Before(j)
      BY <1>1
    <3> HIDE DEF j
    <3> QED
      BY <3>1, <3>2, <3>3 DEF Counted, Before, Allowed
  <2>2. sends'[j] = sends[j] + 1 /\ accepted'[j] <= 1
    BY <1>1, <1>2, <1>3 DEF Inv, TypeOK
  <2>3. \A i \in Jobs \ {j} : sends'[i] = sends[i] /\ accepted'[i] = accepted[i]
    BY <1>1, <1>2, <1>3 DEF Inv, TypeOK
  <2>4. UNCHANGED <<status, attempts, asked>>
    BY <1>2 DEF jobs
  <2>5. \A i \in Jobs : (Counted(i) <=> Counted(i)') /\ Before(i)' = Before(i)
                       /\ Allowed(i)' = Allowed(i)
    BY <2>4 DEF Counted, Before, Allowed
  <2> HIDE DEF j
  <2> QED
    BY <1>1, <2>1, <2>2, <2>3, <2>4, <2>5 DEF Inv, CountsTrue
<1>8. HandTrue(f)'
  BY <1>1, <1>2, <1>3, <1>4, <1>5 DEF Inv, TypeOK, HandTrue, Before, jobs
<1>9. \A g \in Runs \ {f} : HandTrue(g)'
  BY <1>5 DEF HandTrue, AtWork, Working
<1>10. PressTrue' /\ StampedWasAccepted' /\ ReportedOnce'
  BY <1>1, <1>2, <1>3 DEF Inv, TypeOK, PressTrue, StampedWasAccepted, ReportedOnce, jobs
<1> QED
  BY <1>5, <1>6, <1>7, <1>8, <1>9, <1>10 DEF Inv, HandsTrue

LEMMA MarkPrintedInv ==
    ASSUME Inv, NEW f \in Runs, MarkPrinted(f)
    PROVE  Inv'
<1> DEFINE j == run[f].job
           c == [run[f] EXCEPT !.pc = "stamping"]
<1>1. /\ AtWork(f) /\ j \in Jobs /\ status[j] = "PRINTING" /\ accepted[j] = 1
      /\ \A i \in run[f].todo : status[i] \in {"PENDING", "FAILED"}
      /\ status' = [status EXCEPT ![j] = "PRINTED"] /\ run' = [run EXCEPT ![f] = c]
      /\ UNCHANGED <<attempts, resting, stamped, flushing, timer, press, trouble, history>>
  BY DEF MarkPrinted, At, Goto, AtWork, Working, Inv, HandsTrue, HandTrue, Before, TypeOK
<1>2. c \in Calls /\ c.pc = "stamping" /\ c.job = j /\ c.todo = run[f].todo
  BY CallIsTyped DEF Inv, Calls, Pcs
<1>3. /\ run' \in [Runs -> Calls] /\ OneAtWork'
      /\ run'[f] = c /\ \A g \in Runs \ {f} : run'[g] = run[g] /\ ~AtWork(g)
  BY <1>1, <1>2, CallGoesOn DEF Inv
<1>4. TypeOK'
  BY <1>1, <1>3 DEF Inv, TypeOK, history, Calls, Statuses
<1>5. CountsTrue'
  BY <1>1 DEF Inv, TypeOK, CountsTrue, Counted, Before, Allowed, history
<1>6. HandTrue(f)'
  BY <1>1, <1>2, <1>3 DEF Inv, TypeOK, HandTrue, Before, history
<1>7. \A g \in Runs \ {f} : HandTrue(g)'
  BY <1>3 DEF HandTrue, AtWork, Working
<1>8. PressTrue' /\ StampedWasAccepted' /\ ReportedOnce'
  BY <1>1 DEF Inv, TypeOK, PressTrue, StampedWasAccepted, ReportedOnce, history
<1> QED
  BY <1>3, <1>4, <1>5, <1>6, <1>7, <1>8 DEF Inv, HandsTrue

LEMMA MarkFailedInv ==
    ASSUME Inv, NEW f \in Runs, MarkFailed(f)
    PROVE  Inv'
<1> DEFINE j == run[f].job
           n == attempts[j] + 1
           m == IF n > MaxAttempts THEN attempts[j] ELSE n
           c == [run[f] EXCEPT !.pc = IF GivenUp(n) THEN "reporting" ELSE "next"]
<1>1. /\ AtWork(f) /\ j \in Jobs /\ status[j] = "PRINTING"
      /\ sends[j] = Before(j) + 1 /\ accepted[j] = 0
      /\ \A i \in run[f].todo : status[i] \in {"PENDING", "FAILED"}
  BY DEF MarkFailed, At, AtWork, Working, Inv, HandsTrue, HandTrue, Before
<1>2. /\ status' = [status EXCEPT ![j] = IF GivenUp(n) THEN "ABANDONED" ELSE "FAILED"]
      /\ attempts' = [attempts EXCEPT ![j] = m]
      /\ reports' = [reports EXCEPT ![j] = IF GivenUp(n) THEN 0 ELSE @]
      /\ resting' = resting \cup {j}
      /\ run' = [run EXCEPT ![f] = c]
      /\ UNCHANGED <<stamped, flushing, timer, press, trouble, sends, accepted, asked>>
  BY DEF MarkFailed, Goto, Inv, TypeOK
<1>3. /\ c \in Calls /\ c.pc \in {"reporting", "next"} /\ c.job = j
      /\ c.todo = run[f].todo
  BY CallIsTyped DEF Inv, Calls, Pcs
<1>4. /\ m \in 0 .. MaxAttempts
      /\ GivenUp(n) => m = MaxAttempts
      /\ ~GivenUp(n) => m = n /\ m < MaxAttempts /\ j \notin asked
      /\ j \in asked => GivenUp(n)
      /\ j \notin asked => m = n
  <2>1. attempts[j] \in 0 .. MaxAttempts /\ MaxAttempts \in Nat \ {0}
    BY <1>1, PrintAssumption DEF Inv, TypeOK
  <2>2. /\ j \in asked => attempts[j] = MaxAttempts
        /\ j \notin asked => attempts[j] < MaxAttempts
    BY <1>1 DEF Inv, CountsTrue
  <2> HIDE DEF j
  <2> QED
    BY <2>1, <2>2 DEF GivenUp
<1>5. /\ run' \in [Runs -> Calls] /\ OneAtWork'
      /\ run'[f] = c /\ \A g \in Runs \ {f} : run'[g] = run[g] /\ ~AtWork(g)
  BY <1>1, <1>2, <1>3, CallGoesOn DEF Inv
<1> HIDE DEF c, n, m
<1>6. TypeOK'
  <2>1. attempts' \in [Jobs -> 0 .. MaxAttempts]
    BY <1>1, <1>2, <1>4 DEF Inv, TypeOK
  <2>2. /\ status' \in [Jobs -> Statuses] /\ resting' \subseteq Jobs
        /\ reports' \in [Jobs -> Nat]
    BY <1>1, <1>2 DEF Inv, TypeOK, Statuses
  <2>3. \A i \in Jobs : status'[i] = "FAILED" => attempts'[i] < MaxAttempts
    BY <1>1, <1>2, <1>4 DEF Inv, TypeOK
  <2> QED
    BY <1>2, <1>5, <2>1, <2>2, <2>3 DEF Inv, TypeOK, Calls
<1>7. CountsTrue'
  <2>1. /\ sends[j] \in Nat /\ accepted[j] = 0 /\ sends[j] <= Allowed(j)
        /\ ~GivenUp(n) => sends[j] = n
    BY <1>1, <1>4 DEF Inv, TypeOK, CountsTrue, Before, n
  <2> QED
    BY <1>1, <1>2, <1>4, <2>1 DEF Inv, TypeOK, CountsTrue, Counted, Before, Allowed
<1>8. HandTrue(f)'
  <2>1. c.pc = "reporting" => GivenUp(n)
    BY <1>3, CallIsTyped DEF c, Inv, Calls
  <2>2. GivenUp(n) => reports'[j] = 0 /\ status'[j] = "ABANDONED"
    BY <1>1, <1>2 DEF Inv, TypeOK
  <2>3. \A i \in run[f].todo : status'[i] \in {"PENDING", "FAILED"}
    BY <1>1, <1>2 DEF Inv, TypeOK
  <2> QED
    BY <1>3, <1>5, <1>1, <2>1, <2>2, <2>3 DEF HandTrue
<1>9. \A g \in Runs \ {f} : HandTrue(g)'
  BY <1>5 DEF HandTrue, AtWork, Working
<1>10. PressTrue' /\ StampedWasAccepted' /\ ReportedOnce'
  BY <1>1, <1>2 DEF Inv, TypeOK, PressTrue, StampedWasAccepted, ReportedOnce
<1> QED
  BY <1>5, <1>6, <1>7, <1>8, <1>9, <1>10 DEF Inv, HandsTrue

LEMMA EndInv ==
    ASSUME Inv, NEW f \in Runs, End(f) \/ Schedule(f)
    PROVE  Inv'
<1> DEFINE c == IF End(f) THEN [run[f] EXCEPT !.pc = "scheduling"] ELSE Off
<1>1. /\ run' = [run EXCEPT ![f] = c]
      /\ UNCHANGED <<jobs, trouble, history>> /\ timer' \in BOOLEAN
      /\ press' = press \/ press' = NoPress
      /\ flushing' = flushing \/ (AtWork(f) /\ flushing' = FALSE)
  BY DEF End, Schedule, At, Goto, Inv, TypeOK, AtWork, Working
<1>2. c \in Calls /\ c.pc \in {"off", "scheduling"}
  <2>1. run[f] \in Calls /\ Off \in Calls /\ Off.pc = "off"
    BY CallsTyped, CallIsTyped DEF Inv, Off
  <2>2. /\ [run[f] EXCEPT !.pc = "scheduling"] \in Calls
        /\ [run[f] EXCEPT !.pc = "scheduling"].pc = "scheduling"
    BY <2>1 DEF Calls, Pcs
  <2> QED
    BY <2>1, <2>2
<1> HIDE DEF c
<1>3. /\ run' \in [Runs -> Calls] /\ run'[f] = c
      /\ \A g \in Runs \ {f} : run'[g] = run[g]
  BY <1>1, <1>2 DEF Inv, TypeOK, Calls
<1>4. \A g \in Runs : AtWork(g)' => g # f /\ AtWork(g)
  BY <1>2, <1>3 DEF AtWork, Working
<1>5. OneAtWork'
  BY <1>1, <1>4 DEF Inv, OneAtWork, TypeOK
<1>6. TypeOK'
  BY <1>1, <1>3, CallsTyped DEF Inv, TypeOK, jobs, history, Calls
<1>7. CountsTrue' /\ PressTrue' /\ StampedWasAccepted' /\ ReportedOnce'
  BY <1>1 DEF Inv, CountsTrue, Counted, Before, Allowed, PressTrue, NoPress, StampedWasAccepted, ReportedOnce, jobs, history
<1>8. HandsTrue'
  BY <1>1, <1>2, <1>3, <1>4 DEF Inv, HandsTrue, HandTrue, Before, AtWork, Working, jobs, history
<1> QED
  BY <1>5, <1>6, <1>7, <1>8 DEF Inv

LEMMA InvStep == Inv /\ [Next]_vars => Inv'
<1> SUFFICES ASSUME Inv, [Next]_vars
             PROVE  Inv'
  OBVIOUS
<1> DEFINE PressType == [pc : {"off", "requeueing", "waiting"}, todo : SUBSET Jobs,
                         calls : SUBSET Runs]
<1>0. /\ press \in PressType /\ NoPress \in PressType /\ NoPress.todo = {}
      /\ timer \in BOOLEAN /\ trouble \in BOOLEAN
  BY CallsTyped DEF Inv, TypeOK, NoPress
<1>1. CASE TroubleEnds
  BY <1>0, <1>1, StartInv DEF TroubleEnds, jobs, memory
<1>2. CASE Press
  BY <1>2, PressInv
<1>3. CASE PressBreaks
  BY <1>0, <1>3, StartInv DEF PressBreaks, jobs
<1>4. ASSUME NEW j \in Jobs, BackoffEnds(j)
      PROVE  Inv'
  BY <1>0, <1>4, StartInv DEF BackoffEnds, memory
<1>5. ASSUME NEW j \in Jobs, Requeue(j)
      PROVE  Inv'
  BY <1>5, RequeueInv
<1>6. ASSUME NEW f \in Runs, Work(f)
      PROVE  Inv'
  BY <1>6, ReadInv, TakeInv, SendInv, MarkPrintedInv, MarkFailedInv, LeaveInv, EndInv
  DEF Work
<1>7. ASSUME NEW f \in Runs, Breaks(f)
      PROVE  Inv'
  BY <1>7, LeaveInv
<1>8. ASSUME NEW f \in Runs, TimerFires(f)
      PROVE  Inv'
  BY <1>0, <1>8, StartInv DEF TimerFires, jobs
<1>9. ASSUME NEW f \in Runs, Relaunch(f)
      PROVE  Inv'
  <2>1. /\ UNCHANGED <<jobs, trouble, history>> /\ timer' = FALSE /\ press' = NoPress
    BY <1>9 DEF Relaunch
  <2> QED
    BY <1>0, <1>9, <2>1, StartInv DEF jobs
<1>10. ASSUME NEW f \in Runs, PressFlush(f)
       PROVE  Inv'
  <2>1. press' \in PressType /\ press'.todo = {}
    BY <1>0, <1>10 DEF PressFlush
  <2>2. UNCHANGED <<jobs, timer, trouble, history>> /\ Flush(f)
    BY <1>10 DEF PressFlush
  <2> QED
    BY <1>0, <2>1, <2>2, StartInv DEF jobs
<1>11. ASSUME NEW j \in Jobs, NEW f \in Runs, Enqueue(j, f)
       PROVE  Inv'
  BY <1>11, EnqueueInv
<1>12. CASE UNCHANGED vars
  BY <1>0, <1>12, StartInv DEF vars, jobs, memory
<1> QED
  BY <1>1, <1>2, <1>3, <1>4, <1>5, <1>6, <1>7, <1>8, <1>9, <1>10, <1>11, <1>12 DEF Next

LEMMA InvAlways == Spec => []Inv
BY InvInit, InvStep, PTL DEF Spec

-----------------------------------------------------------------------------
(* The theorems *)

\* The queue keeps its types; in particular a job that waits for the timer has an
\* attempt left, whatever retries, presses and relaunches came before (markFailed).
THEOREM TypeCorrect == Spec => []TypeOK
BY InvAlways, PTL DEF Inv

\* The printer takes a job once: what it took is never waiting again, so no call of
\* flush that overlaps another, a timer, a press or a relaunch sends it twice
\* (flush, _sendOne).
THEOREM PrintedOnce == Spec => []AcceptedOnce
<1>1. Inv => AcceptedOnce
  BY DEF Inv, TypeOK, CountsTrue, AcceptedOnce, Counted
<1> QED
  BY <1>1, InvAlways, PTL

\* A job is sent maxAttempts times by itself and once each time the button brought it
\* back, whatever is killed in between (flush, retryAllAbandoned).
THEOREM TriesBounded == Spec => []TriesCounted
<1>1. Inv => TriesCounted
  BY DEF Inv, CountsTrue, Allowed, TriesCounted
<1> QED
  BY <1>1, InvAlways, PTL

\* The owner is told of a giving up at most once, however often a job is brought back
\* and whatever is killed between giving it up and telling (_recordPrintFailure).
THEOREM ReportsBounded == Spec => []ReportedOnce
BY InvAlways, PTL DEF Inv

\* Where a void log, waste or return says that its receipt is printed, the printer
\* took it (_stampSource).
THEOREM StampsTrue == Spec => []StampedWasAccepted
BY InvAlways, PTL DEF Inv
=============================================================================
