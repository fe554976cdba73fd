------------------------------ MODULE PrintQueue ------------------------------
(***************************************************************************)
(* The till's print queue: jobs in SQLite, one flush at a time that sends  *)
(* what is due, a timer for the next attempt, and the banner's button that *)
(* brings back what was given up.                                          *)
(*                                                                         *)
(* Everything runs in one isolate and interleaves at each await, so several*)
(* calls of flush may exist at once: one that works, and others that have  *)
(* cleared the flag and are setting the timer.  What is in memory is lost  *)
(* when the app is killed.                                                 *)
(*                                                                         *)
(* Jobs are numbered in the order they are created.  Time is abstract: a   *)
(* failed job rests until its backoff is over.  Left out: retry(jobId),    *)
(* which nothing calls, sale receipts, which go straight to the printer,   *)
(* what is printed, and a timer that another call overwrites before it     *)
(* fires, whose only effect is one more call of flush.                     *)
(***************************************************************************)
EXTENDS Integers, FiniteSets

CONSTANTS
    Jobs,               \* numbers, in order of creation
    Runs,               \* bound: calls of flush that may exist at once
    MaxAttempts,        \* PrintJobDao.maxAttempts
    DueLimit,           \* the most jobs one flush takes
    Faults              \* what else may go wrong: "store" (SQLite), "relaunch" (app killed)

ASSUME PrintAssumption ==
    /\ Jobs \subseteq Nat /\ IsFiniteSet(Jobs)
    /\ MaxAttempts \in Nat \ {0} /\ DueLimit \in Nat \ {0}
    /\ Faults \subseteq {"store", "relaunch"}

VARIABLES
    status, attempts,   \* print_jobs.status ("none" before it is queued), attempts
                        \* (counted up to MaxAttempts: nothing tells more apart)
    resting,            \* failed jobs whose backoff is not over
    stamped,            \* jobs whose void log, waste or return says the receipt is printed
    flushing,           \* _flushing
    run,                \* the calls of flush: where each is, the jobs it read, the one it sends
    timer,              \* _retryTimer is set
    press,              \* PrintQueueCubit.retryAll and the flush it awaits
    trouble,            \* the faults may still happen
    sends, accepted,    \* history: times a job was sent since it was queued or brought
                        \* back, times the printer took it
    asked,              \* history: jobs the button ever brought back
    reports             \* history: security events since the job was last given up

jobs    == <<status, attempts, resting, stamped>>
memory  == <<flushing, run, timer, press>>
history == <<sends, accepted, asked, reports>>
vars    == <<jobs, memory, trouble, history>>

Off     == [pc |-> "off", todo |-> {}, job |-> 0]
Reading == [pc |-> "reading", todo |-> {}, job |-> 0]
NoPress == [pc |-> "off", todo |-> {}, calls |-> {}]

Init ==
    /\ status = [j \in Jobs |-> "none"]
    /\ attempts = [j \in Jobs |-> 0]
    /\ resting = {} /\ stamped = {}
    /\ flushing = FALSE
    /\ run = [f \in Runs |-> Off]
    /\ timer = FALSE
    /\ press = NoPress
    /\ trouble = TRUE
    /\ sends = [j \in Jobs |-> 0]
    /\ accepted = [j \in Jobs |-> 0]
    /\ asked = {}
    /\ reports = [j \in Jobs |-> 0]

May(fault) == trouble /\ fault \in Faults

First(S, j) == j \in S /\ \A i \in S : j <= i
-----------------------------------------------------------------------------
(* Who calls flush. *)

\* Mutant: flush does not look at _flushing.
FlushAnyway(f) ==
    /\ run[f].pc = "off"
    /\ flushing' = TRUE
    /\ run' = [run EXCEPT ![f] = Reading]

\* A call returns at once when another is at work.
Flush(f) ==
    \/ flushing /\ UNCHANGED <<flushing, run>>
    \/ /\ ~flushing
       /\ run[f].pc = "off"
       /\ flushing' = TRUE
       /\ run' = [run EXCEPT ![f] = Reading]

\* A receipt is rendered and stored; flush is called and not awaited.
Enqueue(j, f) ==
    /\ First({i \in Jobs : status[i] = "none"}, j)
    /\ status' = [status EXCEPT ![j] = "PENDING"]
    /\ Flush(f)
    /\ UNCHANGED <<attempts, resting, stamped, timer, press, trouble, history>>

BackoffEnds(j) ==
    /\ j \in resting
    /\ resting' = resting \ {j}
    /\ UNCHANGED <<status, attempts, stamped, memory, trouble, history>>

\* The timer was set for a failed job; it fires when one may be sent again.
TimerFires(f) ==
    /\ timer
    /\ \E j \in Jobs \ resting : status[j] = "FAILED"
    /\ timer' = FALSE
    /\ Flush(f)
    /\ UNCHANGED <<jobs, press, trouble, history>>

\* The app is killed and starts again: observe() calls flush.
Relaunch(f) ==
    /\ May("relaunch")
    /\ flushing' = TRUE
    /\ run' = [g \in Runs |-> IF g = f THEN Reading ELSE Off]
    /\ timer' = FALSE
    /\ press' = NoPress
    /\ UNCHANGED <<jobs, trouble, history>>
-----------------------------------------------------------------------------
(* The banner: it counts what no paper came of; its button brings back the *)
(* jobs that were given up and calls flush.                                *)

Counted(j) == status[j] \in {"PENDING", "FAILED", "ABANDONED"}

Press ==
    /\ press.pc = "off"
    /\ \E j \in Jobs : Counted(j)
    /\ press' = [pc |-> "requeueing", calls |-> {},
                 todo |-> {j \in Jobs : status[j] = "ABANDONED"}]
    /\ UNCHANGED <<jobs, flushing, run, timer, trouble, history>>

\* The attempts stay counted: one more failure and the job is given up again.
Requeue(j) ==
    /\ press.pc = "requeueing"
    /\ First(press.todo, j)
    /\ status' = [status EXCEPT ![j] = "PENDING"]
    /\ resting' = resting \ {j}
    /\ press' = [press EXCEPT !.todo = @ \ {j}]
    /\ sends' = [sends EXCEPT ![j] = 0]
    /\ asked' = asked \cup {j}
    /\ UNCHANGED <<attempts, stamped, flushing, run, timer, trouble, accepted, reports>>

\* Mutant: the jobs are brought back and nothing sends them.
PressForgets(f) ==
    /\ press.pc = "requeueing"
    /\ press.todo = {}
    /\ press' = NoPress
    /\ UNCHANGED <<jobs, flushing, run, timer, trouble, history>>

\* The button is free again when the flush it called is over.
PressFlush(f) ==
    /\ press.pc = "requeueing"
    /\ press.todo = {}
    /\ Flush(f)
    /\ press' = IF flushing THEN NoPress ELSE [pc |-> "waiting", todo |-> {}, calls |-> {f}]
    /\ UNCHANGED <<jobs, timer, trouble, history>>

PressBreaks ==
    /\ press.pc = "requeueing"
    /\ May("store")
    /\ press' = NoPress
    /\ UNCHANGED <<jobs, flushing, run, timer, trouble, history>>
-----------------------------------------------------------------------------
(* The work of a flush. *)

\* Mutants: failed jobs are not due; jobs that were given up are.
DueOnlyPending == {j \in Jobs : status[j] = "PENDING"}
DueForEver ==
    {j \in Jobs : status[j] = "PENDING" \/ (status[j] \in {"FAILED", "ABANDONED"}
                                            /\ j \notin resting)}

Due == {j \in Jobs : status[j] = "PENDING" \/ (status[j] = "FAILED" /\ j \notin resting)}

At(f, pc)   == run[f].pc = pc
Goto(f, pc) == run' = [run EXCEPT ![f].pc = pc]

Read(f) ==
    /\ At(f, "reading")
    /\ run' = [run EXCEPT ![f] =
           [pc |-> "next", job |-> 0,
            todo |-> {j \in Due : Cardinality({i \in Due : i < j}) < DueLimit}]]
    /\ UNCHANGED <<jobs, flushing, timer, press, trouble, history>>

\* Mutant: the source is marked when the command is sent.
TakeStamping(f) ==
    /\ At(f, "next")
    /\ \E j \in Jobs :
          /\ First(run[f].todo, j)
          /\ status' = [status EXCEPT ![j] = "PRINTING"]
          /\ stamped' = stamped \cup {j}
          /\ run' = [run EXCEPT ![f] =
                 [pc |-> "sending", todo |-> run[f].todo \ {j}, job |-> j]]
    /\ UNCHANGED <<attempts, resting, flushing, timer, press, trouble, history>>

\* markPrinting, whatever has become of the job since it was read.
Take(f) ==
    /\ At(f, "next")
    /\ \E j \in Jobs :
          /\ First(run[f].todo, j)
          /\ status' = [status EXCEPT ![j] = "PRINTING"]
          /\ run' = [run EXCEPT ![f] =
                 [pc |-> "sending", todo |-> run[f].todo \ {j}, job |-> j]]
    /\ UNCHANGED <<attempts, resting, stamped, flushing, timer, press, trouble, history>>

\* printBytes never throws; the printer takes the bytes or does not.
Send(f) ==
    /\ At(f, "sending")
    /\ sends' = [sends EXCEPT ![run[f].job] = @ + 1]
    /\ \/ /\ accepted' = [accepted EXCEPT ![run[f].job] = @ + 1]
          /\ Goto(f, "accepted")
       \/ /\ UNCHANGED accepted
          /\ Goto(f, "refused")
    /\ UNCHANGED <<jobs, flushing, timer, press, trouble, asked, reports>>

MarkPrinted(f) ==
    /\ At(f, "accepted")
    /\ status' = [status EXCEPT ![run[f].job] = "PRINTED"]
    /\ Goto(f, "stamping")
    /\ UNCHANGED <<attempts, resting, stamped, flushing, timer, press, trouble, history>>

\* _stampSource swallows its own errors.
Stamp(f) ==
    /\ At(f, "stamping")
    /\ \/ stamped' = stamped \cup {run[f].job}
       \/ May("store") /\ UNCHANGED stamped
    /\ Goto(f, "next")
    /\ UNCHANGED <<status, attempts, resting, flushing, timer, press, trouble, history>>

\* Mutant: one attempt too many.
GivenUpLate(n) == n > MaxAttempts

GivenUp(n) == n >= MaxAttempts

MarkFailed(f) ==
    LET n == attempts[run[f].job] + 1
    IN  /\ At(f, "refused")
        /\ attempts' = [attempts EXCEPT ![run[f].job] = IF n > MaxAttempts THEN @ ELSE n]
        /\ status' = [status EXCEPT ![run[f].job] =
                          IF GivenUp(n) THEN "ABANDONED" ELSE "FAILED"]
        /\ resting' = resting \cup {run[f].job}
        /\ Goto(f, IF GivenUp(n) THEN "reporting" ELSE "next")
        /\ reports' = [reports EXCEPT ![run[f].job] = IF GivenUp(n) THEN 0 ELSE @]
        /\ UNCHANGED <<stamped, flushing, timer, press, trouble, sends, accepted, asked>>

\* _recordPrintFailure swallows its own errors.
Report(f) ==
    /\ At(f, "reporting")
    /\ \/ reports' = [reports EXCEPT ![run[f].job] = @ + 1]
       \/ May("store") /\ UNCHANGED reports
    /\ Goto(f, "next")
    /\ UNCHANGED <<jobs, flushing, timer, press, trouble, sends, accepted, asked>>

\* The statement a run is at throws: the run ends there.
Breaks(f) ==
    /\ May("store")
    /\ \/ At(f, "reading") \/ At(f, "accepted") \/ At(f, "refused")
       \/ At(f, "next") /\ run[f].todo # {}
    /\ run' = [run EXCEPT ![f] = [Off EXCEPT !.pc = "ending"]]
    /\ UNCHANGED <<jobs, flushing, timer, press, trouble, history>>

Done(f) ==
    /\ At(f, "next")
    /\ run[f].todo = {}
    /\ run' = [run EXCEPT ![f] = [Off EXCEPT !.pc = "ending"]]
    /\ UNCHANGED <<jobs, flushing, timer, press, trouble, history>>

\* The finally block clears the flag first and then sets the timer anew.
End(f) ==
    /\ At(f, "ending")
    /\ flushing' = FALSE
    /\ timer' = FALSE
    /\ Goto(f, "scheduling")
    /\ UNCHANGED <<jobs, press, trouble, history>>

\* untilNextDue asks for failed jobs only.
Schedule(f) ==
    /\ At(f, "scheduling")
    /\ \/ timer' = (timer \/ \E j \in Jobs : status[j] = "FAILED")
       \/ May("store") /\ UNCHANGED timer
    /\ run' = [run EXCEPT ![f] = Off]
    /\ press' = IF f \in press.calls THEN NoPress ELSE press
    /\ UNCHANGED <<jobs, flushing, trouble, history>>
-----------------------------------------------------------------------------
TroubleEnds ==
    /\ trouble
    /\ trouble' = FALSE
    /\ UNCHANGED <<jobs, memory, history>>

Work(f) ==
    \/ Read(f) \/ Take(f) \/ Send(f) \/ MarkPrinted(f) \/ Stamp(f)
    \/ MarkFailed(f) \/ Report(f) \/ Done(f) \/ End(f) \/ Schedule(f)

Next ==
    \/ TroubleEnds \/ Press \/ PressBreaks
    \/ \E j \in Jobs : BackoffEnds(j) \/ Requeue(j)
    \/ \E f \in Runs :
          \/ Work(f) \/ Breaks(f) \/ TimerFires(f) \/ Relaunch(f) \/ PressFlush(f)
          \/ \E j \in Jobs : Enqueue(j, f)

Spec == Init /\ [][Next]_vars

\* Awaited calls return, timers fire, and the faults end; the printer may refuse for
\* ever, and nobody has to press the button.
Fairness ==
    /\ WF_vars(TroubleEnds)
    /\ \A f \in Runs : WF_vars(Work(f))
    /\ \A j \in Jobs : WF_vars(BackoffEnds(j)) /\ WF_vars(Requeue(j))
    /\ WF_vars(\E f \in Runs : TimerFires(f))
    /\ WF_vars(\E f \in Runs : PressFlush(f))

FairSpec == Spec /\ Fairness

-----------------------------------------------------------------------------
(* Properties. *)

Statuses == {"none", "PENDING", "PRINTING", "PRINTED", "FAILED", "ABANDONED"}
Pcs == {"off", "reading", "next", "sending", "accepted", "refused", "stamping",
        "reporting", "ending", "scheduling"}

\* The type of the state; in particular a job that waits for the timer has an attempt
\* left, whatever was killed or brought back before (print_job_dao.dart).
TypeOK ==
    /\ status \in [Jobs -> Statuses]
    /\ attempts \in [Jobs -> 0 .. MaxAttempts]
    /\ \A j \in Jobs : status[j] = "FAILED" => attempts[j] < MaxAttempts
    /\ resting \subseteq Jobs /\ stamped \subseteq Jobs
    /\ flushing \in BOOLEAN
    /\ run \in [Runs -> [pc : Pcs, todo : SUBSET Jobs, job : Jobs \cup {0}]]
    /\ timer \in BOOLEAN
    /\ press \in [pc : {"off", "requeueing", "waiting"}, todo : SUBSET Jobs,
                 calls : SUBSET Runs]
    /\ trouble \in BOOLEAN
    /\ sends \in [Jobs -> Nat] /\ accepted \in [Jobs -> Nat]
    /\ asked \subseteq Jobs /\ reports \in [Jobs -> Nat]

\* A printer is not idempotent: a job it took is never sent again, whatever calls of
\* flush, timers, presses and relaunches overlap (_flushing).
AcceptedOnce == \A j \in Jobs : accepted[j] <= 1 /\ (accepted[j] = 1 => ~Counted(j))

\* A job is sent three times by itself and once each time the button brought it back,
\* however presses, timers and relaunches overlap (maxAttempts, retryAllAbandoned).
TriesCounted == \A j \in Jobs : sends[j] <= (IF j \in asked THEN 1 ELSE MaxAttempts)

\* A void log, waste or return says that its receipt is printed only when the printer
\* took it, not when the command was sent (_stampSource).
StampedWasAccepted == \A j \in stamped : accepted[j] = 1

\* The owner gets at most one security event each time a job is given up, and none
\* before that; also when the button brings the job back before the event is written
\* (_recordPrintFailure).
ReportedOnce ==
    \A j \in Jobs :
        /\ reports[j] <= 1
        /\ reports[j] = 1 => j \in asked \/ status[j] = "ABANDONED"

InHand(j) == \E f \in Runs : run[f].job = j /\ run[f].pc \in {"sending", "accepted", "refused"}

Settled(j) ==
    \/ status[j] \in {"PRINTED", "ABANDONED"}
    \/ status[j] = "PRINTING" /\ ~InHand(j)

\* When the faults are over and a flush is at work or its timer set, a job that failed
\* is tried again by itself until it is printed or given up, unless a kill caught it at
\* the printer: no event calls flush but the timer.  It takes a button that is left
\* alone in the end: presses for ever bring older jobs back before it (_scheduleNextFlush).
FailedJobsComeBack ==
    <>[](press.pc = "off") =>
        \A j \in Jobs :
            status[j] = "FAILED" /\ ~trouble /\ (timer \/ flushing) ~> Settled(j)

\* If the printer works again for good and the cashier presses the banner's button as
\* long as it is there, everything it counts is printed: the jobs that were given up
\* and the ones no flush has seen too, with more jobs than one flush takes (retryAll).
ButtonPrintsAll ==
    WF_vars(Press) /\ <>[](\A f \in Runs : ~At(f, "refused")) =>
        \A j \in Jobs : Counted(j) ~> Settled(j) /\ status[j] # "ABANDONED"
=============================================================================
