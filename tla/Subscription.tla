---------------------------- MODULE Subscription ----------------------------
(***************************************************************************)
(* The subscription of one business and everybody who writes it: the       *)
(* merchant paying from the wallet or through the payment hub, the hub's   *)
(* webhook (delivered any number of times, in any order, concurrently),    *)
(* the landlord's tenant page, and the hourly dunning job; and the policy  *)
(* cache every request of the business is judged by.                       *)
(*                                                                         *)
(* A worker is a goroutine that serves one request, the ticker is the      *)
(* dunning job.  Each reads the subscription without a lock and later      *)
(* saves all its columns; what it read is in `job` until then.  READ       *)
(* COMMITTED: a read sees the last commit.  Save and commit are one step.  *)
(* After the commit the writer invalidates the cache, in a step of its     *)
(* own.  Abort is a handler that dies or rolls back.                       *)
(*                                                                         *)
(* Left out: which plan is bought (see the README about plan_id), feature  *)
(* limits and overrides, logs, frozen wallets, TRIAL, a business without a *)
(* subscription row, yearly cycles.                                        *)
(***************************************************************************)
EXTENDS Integers, FiniteSets

CONSTANTS
    Workers, Ticker,
    Invoices,           \* gateway invoices that may be created
    Price,              \* of a month, in minor units
    OpeningBalance,     \* of the merchant's wallet
    Month, Grace,       \* in units of time
    OpeningExpiry,      \* expires_at at time 0
    HandPicked,         \* statuses the landlord may choose in the form
    MaxTime, MaxCredits,\* bounds: the clock, the credits of one invoice,
    MaxBusy             \* and the threads at work at a time

ASSUME SubscriptionAssumption ==
    /\ Ticker \notin Workers
    /\ Price \in Nat \ {0} /\ OpeningBalance \in Nat
    /\ Month \in Nat \ {0} /\ Grace \in Nat /\ OpeningExpiry \in Nat
    /\ HandPicked \subseteq {"ACTIVE", "PAST_DUE", "SUSPENDED", "EXPIRED"}
    /\ MaxTime \in Nat /\ MaxCredits \in Nat /\ MaxBusy \in Nat

VARIABLES
    \* the landlord database
    sub,        \* saas_subscriptions: status and expires_at
    wallet,     \* merchant_wallets.balance_minor
    invoice,    \* status of a gateway invoice, "absent" before its checkout
    \* the process
    job,        \* what a worker or the ticker has read, and where it is
    cache,      \* policyEngine.cache: the status of the cached policy
    \* the browsers
    shown,      \* the status the landlord's tenant page has
    offered,    \* the balance the merchant's plan page has
    \* time, and history for the properties
    now,
    walletPaid, \* number of wallet invoices
    credits,    \* how often an invoice extended the subscription
    overlapped, \* invoices that two handlers found unpaid at the same time
    raced       \* the cache was filled from a row read before a later commit

tables  == <<sub, wallet, invoice>>
pages   == <<shown, offered>>
history == <<walletPaid, credits, overlapped, raced>>
vars    == <<tables, job, cache, pages, now, history>>

Statuses  == {"ACTIVE", "PAST_DUE", "SUSPENDED", "EXPIRED"}
Lifetime  == -1         \* expires_at IS NULL
Rows      == [status : Statuses, expiry : {Lifetime} \cup Nat]
Idle      == [at |-> "idle"]
Committed == [at |-> "committed"]   \* but the cache is not yet invalidated
Threads   == Workers \cup {Ticker}

Jobs ==
    {Idle, Committed}
    \cup [at : {"wallet"}, balance : Int, row : Rows]
    \cup [at : {"webhook"}, inv : Invoices, event : {"settled", "expired"}]
    \cup [at : {"settle"}, inv : Invoices, row : Rows]
    \cup [at : {"override"}, row : Rows, status : Statuses]
    \cup [at : {"load"}, status : Statuses]
    \cup [at : {"listed"}, from : {"ACTIVE", "PAST_DUE"}, start : Nat]
    \cup [at : {"lapse"}, from : {"ACTIVE", "PAST_DUE"}, start : Nat, row : Rows]

TypeOK ==
    /\ sub \in Rows
    /\ wallet \in Nat
    /\ invoice \in [Invoices -> {"absent", "PENDING", "PAID", "EXPIRED"}]
    /\ job \in [Threads -> Jobs]
    /\ cache \in {"none"} \cup Statuses
    /\ shown \in Statuses
    /\ offered \in Int
    /\ now \in Nat
    /\ walletPaid \in Nat
    /\ credits \in [Invoices -> Nat]
    /\ overlapped \in SUBSET Invoices
    /\ raced \in BOOLEAN

Init ==
    /\ sub = [status |-> "ACTIVE", expiry |-> OpeningExpiry]
    /\ wallet = OpeningBalance
    /\ invoice = [i \in Invoices |-> "absent"]
    /\ job = [t \in Threads |-> Idle]
    /\ cache = "none"
    /\ shown = "ACTIVE"
    /\ offered = OpeningBalance
    /\ now = 0
    /\ walletPaid = 0
    /\ credits = [i \in Invoices |-> 0]
    /\ overlapped = {}
    /\ raced = FALSE

-----------------------------------------------------------------------------
\* price + 11% tax, rounded down, in the page and in the server alike.
Total == Price + ((Price * 11) \div 100)

\* calcSubscriptionExpiry for a monthly plan: a month after the later of now
\* and the current expiry.
Extended(expiry) == (IF expiry > now THEN expiry ELSE now) + Month

LapsedBefore(row, t) == row.expiry # Lifetime /\ row.expiry <= t

CanStart(t) ==
    /\ job[t] = Idle
    /\ Cardinality({u \in Threads : job[u] # Idle}) < MaxBusy

\* The end of the handlers that invalidate the policy after their commit.
Commit(t) == job' = [job EXCEPT ![t] = Committed]

-----------------------------------------------------------------------------
(* The merchant *)

\* SubscriptionOfferingScreen fetches the subscription, plans and wallet.
FetchOffer ==
    /\ offered' = wallet
    /\ UNCHANGED <<tables, job, cache, shown, now, history>>

\* The pay button is enabled for the wallet if the balance the page knows of
\* covers the total.
WalletOffered == offered >= Total

\* Mutant: the wallet is read without the row lock.
WalletAlwaysFree == TRUE

\* Mutant: the page's check is trusted.
NoWalletCheck == TRUE

EnoughInWallet == wallet >= Total

\* SELECT ... FOR UPDATE: one checkout at a time holds the wallet's row.
WalletFree == \A t \in Threads : job[t].at # "wallet"

\* CheckoutSubscription, WALLET: lock and check the wallet, read the
\* subscription ...
WalletRead(w) ==
    /\ CanStart(w)
    /\ WalletOffered
    /\ WalletFree
    /\ EnoughInWallet
    /\ job' = [job EXCEPT ![w] = [at |-> "wallet", balance |-> wallet, row |-> sub]]
    /\ UNCHANGED <<tables, cache, pages, now, history>>

\* ... and save both, with a PAID invoice, in the same transaction.
WalletCommit(w) ==
    /\ job[w].at = "wallet"
    /\ wallet' = job[w].balance - Total
    /\ sub' = [status |-> "ACTIVE", expiry |-> Extended(job[w].row.expiry)]
    /\ walletPaid' = walletPaid + 1
    /\ Commit(w)
    /\ UNCHANGED <<invoice, cache, pages, now, credits, overlapped, raced>>

\* CheckoutSubscription through the hub: the invoice waits for the webhook.
GatewayCheckout(i) ==
    /\ invoice[i] = "absent"
    /\ invoice' = [invoice EXCEPT ![i] = "PENDING"]
    /\ UNCHANGED <<sub, wallet, job, cache, pages, now, history>>

-----------------------------------------------------------------------------
(* The payment hub's webhook *)

InHand(i) == {t \in Threads : job[t].at \in {"webhook", "settle"} /\ job[t].inv = i}

\* Mutant: no idempotency check.
UnpaidOrNot(i) == TRUE

\* Idempotency check: a PAID invoice is not processed again.
Unpaid(i) == invoice[i] # "PAID"

\* HandlePaymentWebhook looks at the invoice, without a lock.
WebhookRead(w, i, event) ==
    /\ CanStart(w)
    /\ invoice[i] # "absent"
    /\ credits[i] < MaxCredits
    /\ Unpaid(i)
    /\ job' = [job EXCEPT ![w] = [at |-> "webhook", inv |-> i, event |-> event]]
    /\ overlapped' = IF InHand(i) = {} THEN overlapped ELSE overlapped \cup {i}
    /\ UNCHANGED <<tables, cache, pages, now, walletPaid, credits, raced>>

\* UPDATE of the invoice's row waits for a transaction that has updated it.
InvoiceFree(i) == \A t \in Threads : job[t].at = "settle" => job[t].inv # i

\* payment.settled: the invoice is marked (seen by others at the commit), then
\* the subscription is read.
WebhookSettle(w) ==
    /\ job[w].at = "webhook" /\ job[w].event = "settled"
    /\ InvoiceFree(job[w].inv)
    /\ job' = [job EXCEPT ![w] = [at |-> "settle", inv |-> job[w].inv, row |-> sub]]
    /\ UNCHANGED <<tables, cache, pages, now, history>>

WebhookCommit(w) ==
    /\ job[w].at = "settle"
    /\ invoice' = [invoice EXCEPT ![job[w].inv] = "PAID"]
    /\ sub' = [status |-> "ACTIVE", expiry |-> Extended(job[w].row.expiry)]
    /\ credits' = [credits EXCEPT ![job[w].inv] = @ + 1]
    /\ Commit(w)
    /\ UNCHANGED <<wallet, cache, pages, now, walletPaid, overlapped, raced>>

\* payment.expired: the status is set whatever it has become meanwhile.
WebhookExpire(w) ==
    /\ job[w].at = "webhook" /\ job[w].event = "expired"
    /\ InvoiceFree(job[w].inv)
    /\ invoice' = [invoice EXCEPT ![job[w].inv] = "EXPIRED"]
    /\ job' = [job EXCEPT ![w] = Idle]
    /\ UNCHANGED <<sub, wallet, cache, pages, now, history>>

-----------------------------------------------------------------------------
(* The landlord's tenant page *)

FetchTenant ==
    /\ shown' = sub.status
    /\ UNCHANGED <<tables, job, cache, offered, now, history>>

\* SetBusinessSubscriptionStatus: one column, one statement.  The button the
\* page has depends on the status it shows, and shows the new one at once.
SetStatus(w, status) ==
    /\ CanStart(w)
    /\ sub' = [sub EXCEPT !.status = status]
    /\ shown' = status
    /\ Commit(w)
    /\ UNCHANGED <<wallet, invoice, cache, offered, now, history>>

Suspend(w)   == shown # "SUSPENDED" /\ SetStatus(w, "SUSPENDED")
Unsuspend(w) == shown = "SUSPENDED" /\ SetStatus(w, "ACTIVE")

\* The form "plan and status" sends a plan and a status always: the one the
\* page shows, unless the landlord picks another.
OverrideRead(w, status) ==
    /\ CanStart(w)
    /\ status \in {shown} \cup HandPicked
    /\ job' = [job EXCEPT ![w] = [at |-> "override", row |-> sub, status |-> status]]
    /\ UNCHANGED <<tables, cache, pages, now, history>>

\* UpdateBusinessSubscription: a month from now, whatever was paid before.
OverrideSave(w) ==
    /\ job[w].at = "override"
    /\ sub' = [status |-> job[w].status, expiry |-> now + Month]
    /\ shown' = job[w].status
    /\ Commit(w)
    /\ UNCHANGED <<wallet, invoice, cache, offered, now, history>>

-----------------------------------------------------------------------------
(* RunDunningCheck, once an hour: ACTIVE to PAST_DUE when the time is up, and  *)
(* PAST_DUE to EXPIRED, without expiry, after the grace.                       *)

\* Both are measured from the time the job started at, however long it takes.
Deadline(from, start) == IF from = "ACTIVE" THEN start ELSE start - Grace

Due(row, from, start) == row.status = from /\ LapsedBefore(row, Deadline(from, start))

\* The list is made outside any transaction: its SKIP LOCKED locks are gone
\* when it is read.  The job may have started earlier, the list of PAST_DUE is
\* made after everything on the ACTIVE one was seen to.
DunningList(from) ==
    /\ CanStart(Ticker)
    /\ \E start \in 0..now :
          /\ Due(sub, from, start)
          /\ job' = [job EXCEPT ![Ticker] = [at |-> "listed", from |-> from, start |-> start]]
    /\ UNCHANGED <<tables, cache, pages, now, history>>

\* Mutant: the listed row is not read again.
DueWhenListed(row, from, start) == TRUE

\* In its transaction the job reads the row again and skips it when it is no
\* longer due.
StillDue(row, from, start) == Due(row, from, start)

\* If the second read fails the code goes on with the listed row, but PostgreSQL
\* has then given the transaction up and nothing of it is committed: Abort.
DunningRead ==
    /\ job[Ticker].at = "listed"
    /\ LET from  == job[Ticker].from
           start == job[Ticker].start
       IN  job' = [job EXCEPT ![Ticker] =
                      IF StillDue(sub, from, start)
                      THEN [at |-> "lapse", from |-> from, start |-> start, row |-> sub]
                      ELSE Committed]
    /\ UNCHANGED <<tables, cache, pages, now, history>>

DunningSave ==
    /\ job[Ticker].at = "lapse"
    /\ sub' = IF job[Ticker].from = "ACTIVE"
              THEN [job[Ticker].row EXCEPT !.status = "PAST_DUE"]
              ELSE [status |-> "EXPIRED", expiry |-> Lifetime]
    /\ Commit(Ticker)
    /\ UNCHANGED <<wallet, invoice, cache, pages, now, history>>

-----------------------------------------------------------------------------
(* The policy cache *)

\* Mutant: the handler answers without invalidating.
KeepEntry == cache

\* InvalidateCache deletes the entry.
DropEntry == "none"

Invalidate(t) ==
    /\ job[t] = Committed
    /\ cache' = DropEntry
    /\ raced' = IF cache' = "none" THEN FALSE ELSE raced
    /\ job' = [job EXCEPT ![t] = Idle]
    /\ UNCHANGED <<tables, pages, now, walletPaid, credits, overlapped>>

\* A request of the business finds no entry and reads the subscription ...
LoadRead(w) ==
    /\ CanStart(w)
    /\ cache = "none"
    /\ job' = [job EXCEPT ![w] = [at |-> "load", status |-> sub.status]]
    /\ UNCHANGED <<tables, cache, pages, now, history>>

\* ... and stores the policy it computed from it.
LoadStore(w) ==
    /\ job[w].at = "load"
    /\ cache' = job[w].status
    /\ raced' = (job[w].status # sub.status)
    /\ job' = [job EXCEPT ![w] = Idle]
    /\ UNCHANGED <<tables, pages, now, walletPaid, credits, overlapped>>

\* Mutant: entries live until they are invalidated.
EntryStays == FALSE /\ UNCHANGED vars

\* Five minutes after it was stored an entry is not used any more.
EntryExpires ==
    /\ cache # "none"
    /\ cache' = "none"
    /\ raced' = FALSE
    /\ UNCHANGED <<tables, job, pages, now, walletPaid, credits, overlapped>>

-----------------------------------------------------------------------------
\* A handler dies or its transaction is rolled back.
Abort(t) ==
    /\ job[t] # Idle
    /\ job[t] # Committed
    /\ job' = [job EXCEPT ![t] = Idle]
    /\ UNCHANGED <<tables, cache, pages, now, history>>

Tick ==
    /\ now < MaxTime
    /\ now' = now + 1
    /\ UNCHANGED <<tables, job, cache, pages, history>>

WorkerStep(w) ==
    \/ WalletRead(w)
    \/ WalletCommit(w)
    \/ \E i \in Invoices, event \in {"settled", "expired"} : WebhookRead(w, i, event)
    \/ WebhookSettle(w)
    \/ WebhookCommit(w)
    \/ WebhookExpire(w)
    \/ Suspend(w)
    \/ Unsuspend(w)
    \/ \E status \in Statuses : OverrideRead(w, status)
    \/ OverrideSave(w)
    \/ LoadRead(w)
    \/ LoadStore(w)

DunningStep ==
    \/ \E from \in {"ACTIVE", "PAST_DUE"} : DunningList(from)
    \/ DunningRead
    \/ DunningSave

Next ==
    \/ \E w \in Workers : WorkerStep(w)
    \/ DunningStep
    \/ \E t \in Threads : Invalidate(t) \/ Abort(t)
    \/ \E i \in Invoices : GatewayCheckout(i)
    \/ FetchOffer
    \/ FetchTenant
    \/ EntryExpires
    \/ Tick

Spec == Init /\ [][Next]_vars

\* A goroutine that has read the row goes on to store it, one that committed
\* goes on to invalidate, and an entry outlives its five minutes by no more
\* than the next request.
Fairness ==
    /\ \A w \in Workers : WF_vars(LoadStore(w))
    /\ \A t \in Threads : WF_vars(Invalidate(t))
    /\ WF_vars(EntryExpires)

FairSpec == Spec /\ Fairness

-----------------------------------------------------------------------------
(* What the subscription promises *)

\* The wallet pays for exactly the wallet invoices there are, however many
\* checkouts run at once from pages that each saw enough money, and never more
\* than it holds (CheckoutSubscription, GetWalletByBusinessID).
WalletConserved ==
    /\ wallet + walletPaid * Total = OpeningBalance
    /\ wallet >= 0

\* A redelivered webhook does not extend the subscription again, unless two
\* handlers had found the invoice unpaid at the same time.
CreditedOnce ==
    \A i \in Invoices : credits[i] > 1 => i \in overlapped

\* Some writer that read an older row than the one it now replaces commits.
SavesOver(t) ==
    /\ job[t].at \in {"wallet", "settle", "lapse"}
    /\ job[t].row # sub
    /\ job'[t] = Committed

\* Paid time is lost by a step: a payment adds less than a month, the expiry moves
\* back, or a subscription that has time left lapses.
TimeLost ==
    \/ <<walletPaid, credits>>' # <<walletPaid, credits>> /\ sub'.expiry < sub.expiry + Month
    \/ sub'.expiry # Lifetime /\ sub'.expiry < sub.expiry
    \/ sub.status = "ACTIVE" /\ sub'.status \in {"PAST_DUE", "EXPIRED"} /\ sub.expiry > now
    \/ sub.status = "PAST_DUE" /\ sub'.status = "EXPIRED" /\ sub.expiry > now - Grace

\* The landlord's form is saved, or a writer that overlapped another one.
FormOrOverlap ==
    \/ \E w \in Workers : job[w].at = "override" /\ job'[w] = Committed
    \/ \E t \in Threads : SavesOver(t)

\* Paid time is lost only through the landlord's form or through a writer that
\* overlapped another one (the unlocked read before UpdateSubscription).
PaidTimeKept == [][TimeLost => FormOrOverlap]_vars

\* A cached policy with another status than the subscription's is either about
\* to be invalidated by the writer that made it so, or was stored by a request
\* that read the row before that writer's commit (policyEngine).
StaleOnlyByRace ==
    cache \notin {"none", sub.status} =>
        raced \/ \E t \in Threads : job[t] = Committed

\* A suspension that stays takes hold: from some moment on no request of the
\* business is judged by a policy that says otherwise, even if one stored a
\* stale policy after the invalidation (TTL of policyEngine).
SuspensionTakesHold ==
    <>[](sub.status = "SUSPENDED") => <>[](cache \in {"none", "SUSPENDED"})
=============================================================================
