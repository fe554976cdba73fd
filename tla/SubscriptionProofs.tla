-------------------------- MODULE SubscriptionProofs --------------------------
(***************************************************************************)
(* The safety properties of the subscription, for any number of workers    *)
(* and invoices, any prices and periods.                                   *)
(*                                                                         *)
(* What makes them inductive: a checkout that has locked the wallet still  *)
(* has its balance in hand (WalletInHand); an invoice that no two handlers *)
(* found unpaid is credited when its only handler leaves it PAID           *)
(* (CreditsFollowStatus); and a subscription that the dunning job is about *)
(* to lapse was due when it was read (LapsesDue).                          *)
(***************************************************************************)
EXTENDS Subscription, TLAPS

\* The wallet's lock: one checkout, and what it read is what there is.
WalletInHand ==
    \A t \in Threads : job[t].at = "wallet" =>
        /\ job[t].balance = wallet
        /\ wallet >= Total
        /\ \A u \in Threads : job[u].at = "wallet" => u = t

InHandOf(t, i) == job[t].at \in {"webhook", "settle"} /\ job[t].inv = i

\* Two handlers of one invoice are seen.
OverlapsSeen ==
    \A t, u \in Threads, i \in Invoices :
        InHandOf(t, i) /\ InHandOf(u, i) /\ t # u => i \in overlapped

\* An invoice that never had two handlers is credited once, then PAID, and no
\* handler is left.
CreditsFollowStatus ==
    \A i \in Invoices : i \notin overlapped =>
        \/ credits[i] = 0
        \/ /\ credits[i] = 1
           /\ invoice[i] = "PAID"
           /\ \A t \in Threads : ~InHandOf(t, i)

\* What the dunning job is about to lapse was due when the job started, which is
\* not in the future.
LapsesDue ==
    \A t \in Threads :
        /\ job[t].at \in {"listed", "lapse"} => job[t].start <= now
        /\ job[t].at = "lapse" => Due(job[t].row, job[t].from, job[t].start)

Inv ==
    /\ TypeOK
    /\ WalletInHand
    /\ WalletConserved
    /\ OverlapsSeen
    /\ CreditsFollowStatus
    /\ LapsesDue
    /\ StaleOnlyByRace

\* The price with tax is a positive number.
LEMMA TotalPositive == Total \in Nat /\ Total > 0
BY SubscriptionAssumption DEF Total

LEMMA ExtendedTyped ==
    ASSUME TypeOK, NEW row \in Rows
    PROVE  /\ Extended(row.expiry) \in Nat
           /\ Extended(row.expiry) >= row.expiry + Month
BY SubscriptionAssumption DEF TypeOK, Rows, Extended, Lifetime

\* What a thread holds, by the step it is at.
LEMMA JobFields ==
    ASSUME NEW j \in Jobs
    PROVE  /\ j.at = "wallet"   => j.balance \in Int /\ j.row \in Rows
           /\ j.at = "webhook"  => j.inv \in Invoices
           /\ j.at = "settle"   => j.inv \in Invoices /\ j.row \in Rows
           /\ j.at = "override" => j.row \in Rows /\ j.status \in Statuses
           /\ j.at = "load"     => j.status \in Statuses
           /\ j.at \in {"listed", "lapse"} => j.from \in {"ACTIVE", "PAST_DUE"} /\ j.start \in Nat
           /\ j.at = "lapse"    => j.row \in Rows
BY DEF Jobs, Idle, Committed

\* A thread that moves to another step still holds what a thread can hold.
LEMMA JobMoves ==
    ASSUME TypeOK, NEW t \in Threads, NEW j \in Jobs, job' = [job EXCEPT ![t] = j]
    PROVE  job' \in [Threads -> Jobs]
BY DEF TypeOK

LEMMA CommitTyped ==
    ASSUME TypeOK, NEW t \in Threads, Commit(t)
    PROVE  job' \in [Threads -> Jobs]
BY DEF TypeOK, Commit, Jobs

-----------------------------------------------------------------------------
LEMMA InvInit == Init => Inv
<1> SUFFICES ASSUME Init PROVE Inv
  OBVIOUS
<1>1. TypeOK
  <2>1. sub \in Rows /\ Idle \in Jobs
    BY SubscriptionAssumption DEF Init, Rows, Statuses, Jobs
  <2>2. wallet \in Nat /\ offered \in Int /\ now \in Nat /\ walletPaid \in Nat
        /\ credits \in [Invoices -> Nat]
    BY SubscriptionAssumption DEF Init
  <2>3. invoice \in [Invoices -> {"absent", "PENDING", "PAID", "EXPIRED"}]
    BY DEF Init
  <2>4. job \in [Threads -> Jobs]
    BY <2>1 DEF Init
  <2>5. cache \in {"none"} \cup Statuses /\ shown \in Statuses
    BY DEF Init, Statuses
  <2>6. overlapped \in SUBSET Invoices /\ raced \in BOOLEAN
    BY DEF Init
  <2> QED
    BY <2>1, <2>2, <2>3, <2>4, <2>5, <2>6 DEF TypeOK
<1>2. WalletConserved
  BY TotalPositive, SubscriptionAssumption DEF Init, WalletConserved
<1> QED
  BY <1>1, <1>2
  DEF Init, Inv, Idle, WalletInHand, InHandOf, OverlapsSeen, CreditsFollowStatus, LapsesDue,
      StaleOnlyByRace

LEMMA TypeStep ==
    ASSUME TypeOK, WalletInHand, [Next]_vars
    PROVE  TypeOK'
<1> Workers \subseteq Threads /\ Ticker \in Threads
  BY DEF Threads
<1> USE DEF vars, tables, pages, history
<1>1. ASSUME NEW w \in Workers, WalletRead(w) PROVE TypeOK'
  BY <1>1 DEF WalletRead, TypeOK, Jobs
<1>2. ASSUME NEW w \in Workers, WalletCommit(w) PROVE TypeOK'
  <2>1. wallet' \in Nat
    BY <1>2, TotalPositive DEF WalletCommit, WalletInHand, TypeOK
  <2>2. sub' \in Rows
    BY <1>2, JobFields, ExtendedTyped DEF WalletCommit, TypeOK, Rows, Statuses
  <2> QED
    BY <1>2, <2>1, <2>2, CommitTyped DEF WalletCommit, TypeOK
<1>3. ASSUME NEW w \in Workers, NEW i \in Invoices, NEW event \in {"settled", "expired"},
             WebhookRead(w, i, event)
      PROVE  TypeOK'
  BY <1>3 DEF WebhookRead, TypeOK, Jobs
<1>4. ASSUME NEW w \in Workers, WebhookSettle(w) PROVE TypeOK'
  <2>1. [at |-> "settle", inv |-> job[w].inv, row |-> sub] \in Jobs
    BY <1>4, JobFields DEF WebhookSettle, TypeOK, Jobs
  <2> QED
    BY <1>4, <2>1 DEF WebhookSettle, TypeOK
<1>5. ASSUME NEW w \in Workers, WebhookCommit(w) PROVE TypeOK'
  <2>1. job[w].inv \in Invoices /\ sub' \in Rows
    BY <1>5, JobFields, ExtendedTyped DEF WebhookCommit, TypeOK, Rows, Statuses
  <2> QED
    BY <1>5, <2>1, CommitTyped DEF WebhookCommit, TypeOK
<1>6. ASSUME NEW w \in Workers, WebhookExpire(w) PROVE TypeOK'
  BY <1>6 DEF WebhookExpire, TypeOK, Jobs
<1>7. ASSUME NEW w \in Workers, Suspend(w) \/ Unsuspend(w) PROVE TypeOK'
  BY <1>7, CommitTyped DEF Suspend, Unsuspend, SetStatus, TypeOK, Rows, Statuses
<1>8. ASSUME NEW w \in Workers, NEW status \in Statuses, OverrideRead(w, status) PROVE TypeOK'
  BY <1>8 DEF OverrideRead, TypeOK, Jobs
<1>9. ASSUME NEW w \in Workers, OverrideSave(w) PROVE TypeOK'
  <2>1. job[w].status \in Statuses /\ sub' \in Rows
    BY <1>9, JobFields, SubscriptionAssumption DEF OverrideSave, TypeOK, Rows
  <2> QED
    BY <1>9, <2>1, CommitTyped DEF OverrideSave, TypeOK
<1>10. ASSUME NEW w \in Workers, LoadRead(w) PROVE TypeOK'
  BY <1>10 DEF LoadRead, TypeOK, Jobs, Rows
<1>11. ASSUME NEW w \in Workers, LoadStore(w) PROVE TypeOK'
  <2>1. job[w].status \in Statuses
    BY <1>11, JobFields DEF LoadStore, TypeOK
  <2> QED
    BY <1>11, <2>1 DEF LoadStore, TypeOK, Jobs
<1>12. ASSUME NEW from \in {"ACTIVE", "PAST_DUE"}, DunningList(from) PROVE TypeOK'
  <2>1. PICK start \in 0..now :
           job' = [job EXCEPT ![Ticker] = [at |-> "listed", from |-> from, start |-> start]]
    BY <1>12 DEF DunningList
  <2>2. [at |-> "listed", from |-> from, start |-> start] \in Jobs
    BY DEF TypeOK, Jobs
  <2> QED
    BY <1>12, <2>1, <2>2 DEF DunningList, TypeOK
<1>13. CASE DunningRead
  <2>1. job[Ticker].from \in {"ACTIVE", "PAST_DUE"} /\ job[Ticker].start \in Nat
    BY <1>13, JobFields DEF DunningRead, TypeOK
  <2>2. /\ [at |-> "lapse", from |-> job[Ticker].from, start |-> job[Ticker].start, row |-> sub] \in Jobs
        /\ Committed \in Jobs
    BY <2>1 DEF TypeOK, Jobs
  <2> QED
    BY <1>13, <2>2 DEF DunningRead, TypeOK
<1>14. CASE DunningSave
  <2>1. sub' \in Rows
    <3>1. job[Ticker].row \in Rows
      BY <1>14, JobFields DEF DunningSave, TypeOK
    <3>2. [job[Ticker].row EXCEPT !.status = "PAST_DUE"] \in Rows
          /\ [status |-> "EXPIRED", expiry |-> Lifetime] \in Rows
      BY <3>1 DEF Rows, Statuses
    <3> QED
      BY <1>14, <3>2 DEF DunningSave
  <2>2. job' \in [Threads -> Jobs]
    BY <1>14, CommitTyped DEF DunningSave
  <2>3. UNCHANGED <<wallet, invoice, cache, shown, offered, now, walletPaid, credits, overlapped,
                    raced>>
    BY <1>14 DEF DunningSave
  <2> QED
    BY <2>1, <2>2, <2>3 DEF TypeOK
<1>15. ASSUME NEW t \in Threads, Invalidate(t) \/ Abort(t) PROVE TypeOK'
  <2>1. Idle \in Jobs
    BY DEF Jobs
  <2>2. CASE Invalidate(t)
    <3>1. cache' = "none" /\ raced' = FALSE /\ job' \in [Threads -> Jobs]
      BY <2>1, <2>2 DEF Invalidate, DropEntry, TypeOK
    <3> QED
      BY <2>2, <3>1 DEF Invalidate, TypeOK
  <2>3. CASE Abort(t)
    BY <2>1, <2>3 DEF Abort, TypeOK
  <2> QED
    BY <1>15, <2>2, <2>3
<1>16. ASSUME NEW i \in Invoices, GatewayCheckout(i) PROVE TypeOK'
  BY <1>16 DEF GatewayCheckout, TypeOK
<1>18. CASE FetchOffer \/ FetchTenant \/ EntryExpires
  <2>1. sub.status \in Statuses
    BY DEF TypeOK, Rows
  <2> QED
    <3>1. CASE FetchOffer
      BY <3>1 DEF FetchOffer, TypeOK
    <3>2. CASE FetchTenant
      BY <2>1, <3>2 DEF FetchTenant, TypeOK
    <3>3. CASE EntryExpires
      BY <3>3 DEF EntryExpires, TypeOK
    <3> QED
      BY <1>18, <3>1, <3>2, <3>3
<1>19. CASE Tick
  BY <1>19 DEF Tick, TypeOK
<1>17. CASE UNCHANGED vars
  BY <1>17 DEF TypeOK
<1> QED
  BY <1>1, <1>2, <1>3, <1>4, <1>5, <1>6, <1>7, <1>8, <1>9, <1>10, <1>11, <1>12, <1>13,
     <1>14, <1>15, <1>16, <1>17, <1>18, <1>19 DEF Next, WorkerStep, DunningStep

-----------------------------------------------------------------------------
(* The wallet *)

\* A step in which no checkout touches the wallet, and none begins.
WalletLeft ==
    /\ UNCHANGED <<wallet, walletPaid>>
    /\ \A t \in Threads : job'[t].at = "wallet" => job'[t] = job[t]

LEMMA WalletLeftKeeps ==
    ASSUME WalletInHand, WalletConserved, WalletLeft
    PROVE  WalletInHand' /\ WalletConserved'
<1>1. WalletInHand'
  BY DEF WalletInHand, WalletLeft, Total
<1> QED
  BY <1>1 DEF WalletConserved, WalletLeft, Total

LEMMA OneMore ==
    ASSUME NEW n \in Nat, NEW p \in Nat
    PROVE  (n + 1) * p = n * p + p
OBVIOUS

LEMMA WalletStep ==
    ASSUME Inv, [Next]_vars
    PROVE  WalletInHand' /\ WalletConserved'
<1> Workers \subseteq Threads /\ Ticker \in Threads
  BY DEF Threads
<1> Idle.at # "wallet" /\ Committed.at # "wallet"
  BY DEF Idle, Committed
<1> TypeOK /\ WalletInHand /\ WalletConserved
  BY DEF Inv
<1> USE DEF TypeOK
<1>1. ASSUME NEW w \in Workers, WalletRead(w) PROVE WalletInHand' /\ WalletConserved'
  <2>1. /\ job'[w].at = "wallet" /\ job'[w].balance = wallet /\ wallet >= Total
        /\ \A t \in Threads \ {w} : job'[t] = job[t] /\ job[t].at # "wallet"
        /\ UNCHANGED <<wallet, walletPaid>>
    BY <1>1 DEF WalletRead, WalletFree, EnoughInWallet, tables, history
  <2> QED
    BY <2>1 DEF WalletInHand, WalletConserved, Total
<1>2. ASSUME NEW w \in Workers, WalletCommit(w) PROVE WalletInHand' /\ WalletConserved'
  <2>1. /\ wallet' = wallet - Total /\ wallet >= Total /\ walletPaid' = walletPaid + 1
        /\ \A t \in Threads : job'[t].at # "wallet"
    BY <1>2 DEF WalletCommit, Commit, WalletInHand
  <2>2. walletPaid' * Total = walletPaid * Total + Total
    BY <2>1, TotalPositive, OneMore
  <2>3. Total' = Total /\ walletPaid * Total \in Nat
    BY TotalPositive DEF Total
  <2> QED
    BY <2>1, <2>2, <2>3, TotalPositive DEF WalletInHand, WalletConserved
<1>3. ASSUME NEW w \in Workers, NEW i \in Invoices, NEW event \in {"settled", "expired"},
             WebhookRead(w, i, event)
      PROVE  WalletLeft
  BY <1>3 DEF WebhookRead, WalletLeft, tables
<1>4. ASSUME NEW w \in Workers, WebhookSettle(w) \/ WebhookCommit(w) \/ WebhookExpire(w)
      PROVE  WalletLeft
  BY <1>4 DEF WebhookSettle, WebhookCommit, WebhookExpire, Commit, WalletLeft, tables, history
<1>5. ASSUME NEW w \in Workers, Suspend(w) \/ Unsuspend(w) \/ OverrideSave(w) PROVE WalletLeft
  BY <1>5 DEF Suspend, Unsuspend, SetStatus, OverrideSave, Commit, WalletLeft, history
<1>6. ASSUME NEW w \in Workers, NEW status \in Statuses, OverrideRead(w, status)
      PROVE  WalletLeft
  BY <1>6 DEF OverrideRead, WalletLeft, tables, history
<1>7. ASSUME NEW w \in Workers, LoadRead(w) \/ LoadStore(w) PROVE WalletLeft
  BY <1>7 DEF LoadRead, LoadStore, WalletLeft, tables, history
<1>8. ASSUME DunningStep PROVE WalletLeft
  BY <1>8 DEF DunningStep, DunningList, DunningRead, DunningSave, Commit, WalletLeft, tables, history
<1>9. ASSUME NEW t \in Threads, Invalidate(t) \/ Abort(t) PROVE WalletLeft
  BY <1>9 DEF Invalidate, Abort, WalletLeft, tables, history
<1>10. CASE \/ \E i \in Invoices : GatewayCheckout(i)
            \/ FetchOffer \/ FetchTenant \/ EntryExpires \/ Tick
            \/ UNCHANGED vars
  <2>1. WalletLeft
    BY <1>10 DEF GatewayCheckout, FetchOffer, FetchTenant, EntryExpires, Tick, vars, WalletLeft,
       tables, history
  <2> QED
    BY <2>1, WalletLeftKeeps
<1> QED
  BY <1>1, <1>2, <1>3, <1>4, <1>5, <1>6, <1>7, <1>8, <1>9, <1>10, WalletLeftKeeps
  DEF Next, WorkerStep

-----------------------------------------------------------------------------
(* The webhook *)

\* A step in which no handler takes an invoice, and none is credited.
InvoicesLeft ==
    /\ credits' = credits
    /\ overlapped' = overlapped
    /\ \A i \in Invoices : invoice[i] = "PAID" => invoice'[i] = "PAID"
    /\ \A t \in Threads, i \in Invoices : InHandOf(t, i)' => InHandOf(t, i)

LEMMA InvoicesLeftKeeps ==
    ASSUME OverlapsSeen, CreditsFollowStatus, InvoicesLeft
    PROVE  OverlapsSeen' /\ CreditsFollowStatus'
<1>1. OverlapsSeen'
  BY DEF OverlapsSeen, InvoicesLeft
<1> QED
  BY <1>1 DEF CreditsFollowStatus, InvoicesLeft

LEMMA InvoiceStep ==
    ASSUME Inv, [Next]_vars
    PROVE  OverlapsSeen' /\ CreditsFollowStatus'
<1> Workers \subseteq Threads /\ Ticker \in Threads
  BY DEF Threads
<1> Idle.at = "idle" /\ Committed.at = "committed"
  BY DEF Idle, Committed
<1> TypeOK /\ OverlapsSeen /\ CreditsFollowStatus
  BY DEF Inv
<1> USE DEF TypeOK
<1>1. ASSUME NEW w \in Workers, NEW i \in Invoices, NEW event \in {"settled", "expired"},
             WebhookRead(w, i, event)
      PROVE  OverlapsSeen' /\ CreditsFollowStatus'
  <2>1. /\ invoice[i] # "PAID" /\ invoice' = invoice /\ credits' = credits
        /\ overlapped \subseteq overlapped'
        /\ (\E t \in Threads : InHandOf(t, i)) => i \in overlapped'
        /\ \A t \in Threads, k \in Invoices :
              InHandOf(t, k)' => InHandOf(t, k) \/ (t = w /\ k = i)
    BY <1>1 DEF WebhookRead, Unpaid, InHand, InHandOf, tables
  <2>2. OverlapsSeen'
    BY <2>1 DEF OverlapsSeen
  <2> QED
    BY <2>1, <2>2 DEF CreditsFollowStatus
<1>2. ASSUME NEW w \in Workers, WebhookCommit(w) PROVE OverlapsSeen' /\ CreditsFollowStatus'
  <2> DEFINE i == job[w].inv
  <2>1. i \in Invoices /\ InHandOf(w, i)
    BY <1>2, JobFields DEF WebhookCommit, InHandOf
  <2>2. /\ overlapped' = overlapped
        /\ invoice' = [invoice EXCEPT ![i] = "PAID"]
        /\ credits' = [credits EXCEPT ![i] = @ + 1]
        /\ job' = [job EXCEPT ![w] = Committed]
    BY <1>2 DEF WebhookCommit, Commit
  <2>3. \A t \in Threads, k \in Invoices : InHandOf(t, k)' => InHandOf(t, k) /\ t # w
    BY <2>2 DEF InHandOf
  <2>4. OverlapsSeen'
    BY <2>2, <2>3 DEF OverlapsSeen
  <2>5. i \notin overlapped => credits[i] = 0 /\ \A t \in Threads \ {w} : ~InHandOf(t, i)
    BY <2>1 DEF CreditsFollowStatus, OverlapsSeen
  <2> QED
    BY <2>1, <2>2, <2>3, <2>4, <2>5 DEF CreditsFollowStatus
<1>3. ASSUME NEW w \in Workers, WebhookExpire(w) PROVE OverlapsSeen' /\ CreditsFollowStatus'
  <2> DEFINE i == job[w].inv
  <2>1. i \in Invoices /\ InHandOf(w, i)
    BY <1>3, JobFields DEF WebhookExpire, InHandOf
  <2>2. /\ overlapped' = overlapped /\ credits' = credits
        /\ invoice' = [invoice EXCEPT ![i] = "EXPIRED"]
        /\ job' = [job EXCEPT ![w] = Idle]
    BY <1>3 DEF WebhookExpire, history
  <2>3. \A t \in Threads, k \in Invoices : InHandOf(t, k)' => InHandOf(t, k) /\ t # w
    BY <2>2 DEF InHandOf
  <2>4. OverlapsSeen'
    BY <2>2, <2>3 DEF OverlapsSeen
  <2>5. i \notin overlapped => credits[i] = 0
    BY <2>1 DEF CreditsFollowStatus
  <2> QED
    BY <2>1, <2>2, <2>3, <2>4, <2>5 DEF CreditsFollowStatus
<1>4. ASSUME NEW w \in Workers, WebhookSettle(w) PROVE InvoicesLeft
  BY <1>4 DEF WebhookSettle, InvoicesLeft, InHandOf, tables, history
<1>5. ASSUME NEW w \in Workers, WalletRead(w) \/ WalletCommit(w) PROVE InvoicesLeft
  BY <1>5 DEF WalletRead, WalletCommit, Commit, InvoicesLeft, InHandOf, tables, history
<1>6. ASSUME NEW w \in Workers, Suspend(w) \/ Unsuspend(w) \/ OverrideSave(w)
      PROVE  InvoicesLeft
  BY <1>6 DEF Suspend, Unsuspend, SetStatus, OverrideSave, Commit, InvoicesLeft, InHandOf, history
<1>7. ASSUME NEW w \in Workers, NEW status \in Statuses, OverrideRead(w, status)
      PROVE  InvoicesLeft
  BY <1>7 DEF OverrideRead, InvoicesLeft, InHandOf, tables, history
<1>8. ASSUME NEW w \in Workers, LoadRead(w) \/ LoadStore(w) PROVE InvoicesLeft
  BY <1>8 DEF LoadRead, LoadStore, InvoicesLeft, InHandOf, tables, history
<1>9. ASSUME DunningStep PROVE InvoicesLeft
  BY <1>9 DEF DunningStep, DunningList, DunningRead, DunningSave, Commit, InvoicesLeft, InHandOf,
     tables, history
<1>10. ASSUME NEW t \in Threads, Invalidate(t) \/ Abort(t) PROVE InvoicesLeft
  BY <1>10 DEF Invalidate, Abort, InvoicesLeft, InHandOf, tables, history
<1>11. ASSUME NEW i \in Invoices, GatewayCheckout(i) PROVE InvoicesLeft
  BY <1>11 DEF GatewayCheckout, InvoicesLeft, InHandOf, history
<1>12. ASSUME FetchOffer \/ FetchTenant \/ EntryExpires \/ Tick \/ UNCHANGED vars
       PROVE  InvoicesLeft
  BY <1>12 DEF FetchOffer, FetchTenant, EntryExpires, Tick, vars, InvoicesLeft, InHandOf, tables,
     history
<1> QED
  BY <1>1, <1>2, <1>3, <1>4, <1>5, <1>6, <1>7, <1>8, <1>9, <1>10, <1>11, <1>12,
     InvoicesLeftKeeps DEF Next, WorkerStep

-----------------------------------------------------------------------------
(* The dunning job *)

\* A step after which a thread has listed or is about to lapse only what it was before.
LapsesLeft ==
    /\ now' = now
    /\ \A t \in Threads : job'[t].at \in {"listed", "lapse"} => job'[t] = job[t]

LEMMA LapseStep ==
    ASSUME Inv, [Next]_vars
    PROVE  LapsesDue'
<1> Workers \subseteq Threads /\ Ticker \in Threads
  BY DEF Threads
<1> Idle.at = "idle" /\ Committed.at = "committed"
  BY DEF Idle, Committed
<1> TypeOK /\ LapsesDue
  BY DEF Inv
<1>0. ASSUME LapsesLeft PROVE LapsesDue'
  BY <1>0 DEF LapsesLeft, LapsesDue, Due, Deadline, LapsedBefore, Lifetime
<1>1. CASE DunningRead
  <2>1. /\ now' = now /\ \A t \in Threads \ {Ticker} : job'[t] = job[t]
        /\ job[Ticker].at = "listed" /\ job'[Ticker].at # "listed"
    BY <1>1 DEF DunningRead, TypeOK
  <2>2. job'[Ticker].at = "lapse" =>
           /\ job'[Ticker].start = job[Ticker].start
           /\ Due(job'[Ticker].row, job'[Ticker].from, job'[Ticker].start)
    BY <1>1 DEF DunningRead, StillDue, TypeOK
  <2> QED
    BY <2>1, <2>2 DEF LapsesDue, Due, Deadline, LapsedBefore, Lifetime
<1>2. CASE Tick
  <2>1. now' = now + 1 /\ job' = job
    BY <1>2 DEF Tick
  <2>2. ASSUME NEW t \in Threads, job[t].at \in {"listed", "lapse"} PROVE job[t].start <= now'
    <3>1. job[t].start \in Nat /\ job[t].start <= now
      BY <2>2, JobFields DEF LapsesDue, TypeOK
    <3> QED
      BY <2>1, <3>1 DEF TypeOK
  <2> QED
    BY <2>1, <2>2 DEF LapsesDue, Due, Deadline, LapsedBefore, Lifetime
<1>12. ASSUME NEW from \in {"ACTIVE", "PAST_DUE"}, DunningList(from) PROVE LapsesDue'
  <2>1. PICK start \in 0..now :
           job' = [job EXCEPT ![Ticker] = [at |-> "listed", from |-> from, start |-> start]]
    BY <1>12 DEF DunningList
  <2>2. /\ now' = now /\ \A t \in Threads \ {Ticker} : job'[t] = job[t]
        /\ job'[Ticker].at = "listed" /\ job'[Ticker].start <= now
    BY <1>12, <2>1 DEF DunningList, TypeOK
  <2> QED
    BY <2>2 DEF LapsesDue, Due, Deadline, LapsedBefore, Lifetime
<1> USE DEF TypeOK
<1>3. ASSUME NEW w \in Workers, WalletRead(w) \/ WalletCommit(w) PROVE LapsesLeft
  BY <1>3 DEF WalletRead, WalletCommit, Commit, LapsesLeft
<1>4. ASSUME NEW w \in Workers, NEW i \in Invoices, NEW event \in {"settled", "expired"},
             WebhookRead(w, i, event)
      PROVE  LapsesLeft
  BY <1>4 DEF WebhookRead, LapsesLeft
<1>5. ASSUME NEW w \in Workers, WebhookSettle(w) \/ WebhookCommit(w) \/ WebhookExpire(w)
      PROVE  LapsesLeft
  BY <1>5 DEF WebhookSettle, WebhookCommit, WebhookExpire, Commit, LapsesLeft
<1>6. ASSUME NEW w \in Workers, Suspend(w) \/ Unsuspend(w) \/ OverrideSave(w) PROVE LapsesLeft
  BY <1>6 DEF Suspend, Unsuspend, SetStatus, OverrideSave, Commit, LapsesLeft
<1>7. ASSUME NEW w \in Workers, NEW status \in Statuses, OverrideRead(w, status)
      PROVE  LapsesLeft
  BY <1>7 DEF OverrideRead, LapsesLeft
<1>8. ASSUME NEW w \in Workers, LoadRead(w) \/ LoadStore(w) PROVE LapsesLeft
  BY <1>8 DEF LoadRead, LoadStore, LapsesLeft
<1>9. ASSUME DunningSave PROVE LapsesLeft
  BY <1>9 DEF DunningSave, Commit, LapsesLeft
<1>10. ASSUME NEW t \in Threads, Invalidate(t) \/ Abort(t) PROVE LapsesLeft
  BY <1>10 DEF Invalidate, Abort, LapsesLeft
<1>11. ASSUME \/ \E i \in Invoices : GatewayCheckout(i)
              \/ FetchOffer \/ FetchTenant \/ EntryExpires \/ UNCHANGED vars
       PROVE  LapsesLeft
  BY <1>11 DEF GatewayCheckout, FetchOffer, FetchTenant, EntryExpires, vars, LapsesLeft
<1> QED
  BY <1>0, <1>1, <1>2, <1>3, <1>4, <1>5, <1>6, <1>7, <1>8, <1>9, <1>10, <1>11, <1>12
  DEF Next, WorkerStep, DunningStep

-----------------------------------------------------------------------------
(* The policy cache *)

\* A step that leaves the row's status and the entry, and every writer that has yet
\* to invalidate.
EntryLeft ==
    /\ sub'.status = sub.status
    /\ cache' = cache
    /\ raced' = raced
    /\ \A t \in Threads : job[t] = Committed => job'[t] = Committed

\* A step after which someone has to invalidate the entry, or there is none.
EntryWatched == cache' = "none" \/ \E t \in Threads : job'[t] = Committed

LEMMA CacheStep ==
    ASSUME Inv, [Next]_vars
    PROVE  StaleOnlyByRace'
<1> Workers \subseteq Threads /\ Ticker \in Threads
  BY DEF Threads
<1> Idle.at = "idle" /\ Committed.at = "committed"
  BY DEF Idle, Committed
<1> TypeOK /\ StaleOnlyByRace
  BY DEF Inv
<1>0. ASSUME EntryLeft \/ EntryWatched PROVE StaleOnlyByRace'
  BY <1>0 DEF EntryLeft, EntryWatched, StaleOnlyByRace
<1>1. ASSUME NEW w \in Workers, LoadStore(w) PROVE StaleOnlyByRace'
  <2>1. cache' = job[w].status /\ raced' = (job[w].status # sub.status) /\ sub' = sub
    BY <1>1 DEF LoadStore, tables
  <2> QED
    BY <2>1 DEF StaleOnlyByRace
<1> USE DEF TypeOK
<1>2. ASSUME NEW w \in Workers,
             \/ WalletCommit(w) \/ WebhookCommit(w)
             \/ Suspend(w) \/ Unsuspend(w) \/ OverrideSave(w)
      PROVE  EntryWatched
  BY <1>2 DEF WalletCommit, WebhookCommit, Suspend, Unsuspend, SetStatus, OverrideSave, Commit,
     EntryWatched
<1>3. ASSUME DunningSave PROVE EntryWatched
  BY <1>3 DEF DunningSave, Commit, EntryWatched
<1>4. ASSUME NEW t \in Threads, Invalidate(t) PROVE EntryWatched
  BY <1>4 DEF Invalidate, DropEntry, EntryWatched
<1>5. ASSUME EntryExpires PROVE EntryWatched
  BY <1>5 DEF EntryExpires, EntryWatched
<1>6. ASSUME NEW w \in Workers, WalletRead(w) PROVE EntryLeft
  BY <1>6 DEF WalletRead, CanStart, EntryLeft, tables, history
<1>7. ASSUME NEW w \in Workers, NEW i \in Invoices, NEW event \in {"settled", "expired"},
             WebhookRead(w, i, event)
      PROVE  EntryLeft
  BY <1>7 DEF WebhookRead, CanStart, EntryLeft, tables
<1>8. ASSUME NEW w \in Workers, WebhookSettle(w) \/ WebhookExpire(w) PROVE EntryLeft
  BY <1>8 DEF WebhookSettle, WebhookExpire, EntryLeft, tables, history
<1>9. ASSUME NEW w \in Workers, NEW status \in Statuses, OverrideRead(w, status)
      PROVE  EntryLeft
  BY <1>9 DEF OverrideRead, CanStart, EntryLeft, tables, history
<1>10. ASSUME NEW w \in Workers, LoadRead(w) PROVE EntryLeft
  BY <1>10 DEF LoadRead, CanStart, EntryLeft, tables, history
<1>11. ASSUME DunningRead \/ \E from \in {"ACTIVE", "PAST_DUE"} : DunningList(from)
       PROVE  EntryLeft
  BY <1>11 DEF DunningRead, DunningList, CanStart, EntryLeft, tables, history
<1>12. ASSUME NEW t \in Threads, Abort(t) PROVE EntryLeft
  BY <1>12 DEF Abort, EntryLeft, tables, history
<1>13. ASSUME \/ \E i \in Invoices : GatewayCheckout(i)
              \/ FetchOffer \/ FetchTenant \/ Tick \/ UNCHANGED vars
       PROVE  EntryLeft
  BY <1>13 DEF GatewayCheckout, FetchOffer, FetchTenant, Tick, vars, EntryLeft, tables, history
<1> QED
  BY <1>0, <1>1, <1>2, <1>3, <1>4, <1>5, <1>6, <1>7, <1>8, <1>9, <1>10, <1>11, <1>12, <1>13
  DEF Next, WorkerStep, DunningStep

-----------------------------------------------------------------------------
(* Paid time *)

\* A payment that was not overlapped adds at least a month.
LEMMA PaymentAdds ==
    ASSUME Inv, NEW t \in Threads, job[t].at \in {"wallet", "settle"}, job'[t] = Committed,
           sub' = [status |-> "ACTIVE", expiry |-> Extended(job[t].row.expiry)]
    PROVE  TimeLost => FormOrOverlap
<1>1. CASE job[t].row # sub
  BY <1>1 DEF FormOrOverlap, SavesOver
<1>2. CASE job[t].row = sub
  <2>1. sub \in Rows
    BY DEF Inv, TypeOK
  <2>2. Extended(sub.expiry) \in Nat /\ Extended(sub.expiry) >= sub.expiry + Month
    BY <2>1, ExtendedTyped DEF Inv
  <2>3. sub'.status = "ACTIVE" /\ sub'.expiry = Extended(sub.expiry)
    BY <1>2
  <2>4. sub.expiry \in Int
    BY <2>1 DEF Rows, Lifetime
  <2> QED
    BY <2>2, <2>3, <2>4, SubscriptionAssumption DEF TimeLost
<1> QED
  BY <1>1, <1>2

\* What the dunning job lapses without an overlap had run out.
LEMMA LapseIsDue ==
    ASSUME Inv, DunningSave
    PROVE  TimeLost => FormOrOverlap
<1> DEFINE j == job[Ticker]
<1>1. Ticker \in Threads /\ j.at = "lapse" /\ job'[Ticker] = Committed
  BY DEF DunningSave, Commit, Threads, Inv, TypeOK
<1>2. CASE j.row # sub
  BY <1>1, <1>2 DEF FormOrOverlap, SavesOver
<1>3. CASE j.row = sub
  <2>1. /\ sub \in Rows /\ j.from \in {"ACTIVE", "PAST_DUE"} /\ j.start \in Nat
        /\ j.start <= now /\ Due(sub, j.from, j.start)
    BY <1>1, <1>3, JobFields DEF Inv, TypeOK, LapsesDue
  <2>2. /\ sub.expiry \in Int /\ now \in Int /\ sub.status = j.from
        /\ sub.expiry <= Deadline(j.from, j.start) /\ Deadline(j.from, j.start) <= Deadline(j.from, now)
    BY <2>1, SubscriptionAssumption DEF Rows, Lifetime, Due, Deadline, LapsedBefore, Inv, TypeOK
  <2>3. walletPaid' = walletPaid /\ credits' = credits
    BY DEF DunningSave, history
  <2>4. sub'.expiry \in {sub.expiry, Lifetime}
    BY <1>3, <2>1 DEF DunningSave, Rows
  <2> QED
    BY <2>1, <2>2, <2>3, <2>4, SubscriptionAssumption DEF TimeLost, Deadline
<1> QED
  BY <1>2, <1>3

\* A step that leaves the row, or changes its status by hand, loses no time.
LEMMA NoTimeLost ==
    ASSUME Inv, sub'.expiry = sub.expiry, sub'.status \in {sub.status, "ACTIVE", "SUSPENDED"},
           UNCHANGED <<walletPaid, credits>>
    PROVE  ~TimeLost
<1>1. sub.expiry \in Int
  BY DEF Inv, TypeOK, Rows, Lifetime
<1> QED
  BY <1>1 DEF TimeLost

LEMMA PaidTimeStep ==
    ASSUME Inv, [Next]_vars
    PROVE  TimeLost => FormOrOverlap
<1> Workers \subseteq Threads /\ Ticker \in Threads
  BY DEF Threads
<1>1. ASSUME NEW w \in Workers, WalletCommit(w) \/ WebhookCommit(w)
      PROVE  TimeLost => FormOrOverlap
  <2>1. /\ job[w].at \in {"wallet", "settle"} /\ job'[w] = Committed
        /\ sub' = [status |-> "ACTIVE", expiry |-> Extended(job[w].row.expiry)]
    BY <1>1 DEF WalletCommit, WebhookCommit, Commit, Inv, TypeOK
  <2> QED
    BY <2>1, PaymentAdds
<1>2. ASSUME NEW w \in Workers, OverrideSave(w) PROVE FormOrOverlap
  BY <1>2 DEF OverrideSave, Commit, FormOrOverlap, Inv, TypeOK
<1>3. ASSUME NEW w \in Workers, Suspend(w) \/ Unsuspend(w) PROVE ~TimeLost
  <2>1. /\ sub'.expiry = sub.expiry /\ sub'.status \in {"ACTIVE", "SUSPENDED"}
        /\ UNCHANGED <<walletPaid, credits>>
    BY <1>3 DEF Suspend, Unsuspend, SetStatus, history, Inv, TypeOK, Rows
  <2> QED
    BY <2>1, NoTimeLost
<1>4. ASSUME UNCHANGED <<sub, walletPaid, credits>> PROVE ~TimeLost
  BY <1>4, NoTimeLost
<1> USE DEF tables, history
<1>5. ASSUME NEW w \in Workers,
             \/ WalletRead(w) \/ WebhookSettle(w) \/ WebhookExpire(w)
             \/ LoadRead(w) \/ LoadStore(w)
             \/ \E i \in Invoices, event \in {"settled", "expired"} : WebhookRead(w, i, event)
             \/ \E status \in Statuses : OverrideRead(w, status)
      PROVE  UNCHANGED <<sub, walletPaid, credits>>
  BY <1>5 DEF WalletRead, WebhookRead, WebhookSettle, WebhookExpire, OverrideRead, LoadRead,
     LoadStore
<1>6. ASSUME DunningRead \/ \E from \in {"ACTIVE", "PAST_DUE"} : DunningList(from)
      PROVE  UNCHANGED <<sub, walletPaid, credits>>
  BY <1>6 DEF DunningRead, DunningList
<1>7. ASSUME \/ \E t \in Threads : Invalidate(t) \/ Abort(t)
             \/ \E i \in Invoices : GatewayCheckout(i)
             \/ FetchOffer \/ FetchTenant \/ EntryExpires \/ Tick \/ UNCHANGED vars
      PROVE  UNCHANGED <<sub, walletPaid, credits>>
  BY <1>7 DEF Invalidate, Abort, GatewayCheckout, FetchOffer, FetchTenant, EntryExpires, Tick, vars
<1> QED
  BY <1>1, <1>2, <1>3, <1>4, <1>5, <1>6, <1>7, LapseIsDue DEF Next, WorkerStep, DunningStep

-----------------------------------------------------------------------------
(* The theorems *)

LEMMA InvStep == Inv /\ [Next]_vars => Inv'
BY TypeStep, WalletStep, InvoiceStep, LapseStep, CacheStep DEF Inv

LEMMA InvAlways == Spec => []Inv
<1>1. Init => Inv
  BY InvInit
<1>2. Inv /\ [Next]_vars => Inv'
  BY InvStep
<1> QED
  BY <1>1, <1>2, PTL DEF Spec

\* The variables keep their types: in particular the wallet is never overdrawn, with
\* any number of checkouts at once (CheckoutSubscription).
THEOREM TypeCorrect == Spec => []TypeOK
<1>1. Inv => TypeOK
  BY DEF Inv
<1> QED
  BY <1>1, InvAlways, PTL

\* The wallet has paid for the wallet invoices there are, and for nothing else
\* (CheckoutSubscription).
THEOREM WalletIsConserved == Spec => []WalletConserved
<1>1. Inv => WalletConserved
  BY DEF Inv
<1> QED
  BY <1>1, InvAlways, PTL

\* However often and in whatever order the hub delivers its webhooks, an invoice
\* extends the subscription once, as long as no two handlers found it unpaid at the
\* same time (HandlePaymentWebhook).
THEOREM InvoicesCreditedOnce == Spec => []CreditedOnce
<1>1. Inv => CreditedOnce
  BY DEF Inv, CreditsFollowStatus, CreditedOnce, TypeOK
<1> QED
  BY <1>1, InvAlways, PTL

\* A wrong policy stays in the cache only when a load overlapped a write
\* (policyEngine).
THEOREM StalenessExplained == Spec => []StaleOnlyByRace
<1>1. Inv => StaleOnlyByRace
  BY DEF Inv
<1> QED
  BY <1>1, InvAlways, PTL

\* Nobody but the landlord's form, and no writer that was alone, takes paid time away
\* (calcSubscriptionExpiry, RunDunningCheck, HandlePaymentWebhook).
THEOREM PaidTimeIsKept == Spec => PaidTimeKept
<1>1. Inv /\ [Next]_vars => [TimeLost => FormOrOverlap]_vars
  BY PaidTimeStep
<1> QED
  BY <1>1, InvAlways, PTL DEF Spec, PaidTimeKept
=============================================================================
