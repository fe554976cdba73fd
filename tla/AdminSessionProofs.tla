------------------------- MODULE AdminSessionProofs -------------------------
(***************************************************************************)
(* The safety properties of the admin session, for any number of tabs and  *)
(* businesses.                                                             *)
(*                                                                         *)
(* What makes them inductive: a request whose answer the cache still wants *)
(* names the business of the session (Wanted), and a login form is shown   *)
(* only where no business is known, which is PagesHaveTokens.              *)
(***************************************************************************)
EXTENDS AdminSession, TLAPS

\* An answer that will be stored is one for the business of the session.
Wanted ==
    \A t \in Tabs : request[t] # Quiet /\ request[t].wanted =>
                        request[t].header = session[t].business

Inv ==
    /\ TypeOK
    /\ Wanted
    /\ OwnDataOnly
    /\ PagesHaveTokens
    /\ LogoutReachesAll
    /\ RenewalScheduled

Session ==
    [access : Holder, age : Ages, refresh : Holder, business : Holder, expired : BOOLEAN]

\* Goodbye and a renewal are sequences of messages.
LEMMA MessagesTyped ==
    /\ Goodbye \in Seq(Messages)
    /\ <<>> \in Seq(Messages)
    /\ \A a \in Accounts : <<[type |-> "token-refreshed", access |-> a]>> \in Seq(Messages)
BY DEF Goodbye, Messages

\* What is posted in tab t arrives in the others, behind what is under way.
LEMMA PostedTyped ==
    ASSUME TypeOK, NEW t \in Tabs, NEW messages \in Seq(Messages)
    PROVE  Posted(t, messages) \in [Tabs -> Seq(Messages)]
BY DEF Posted, TypeOK

\* A logout under way stays so when more is posted behind it.
LEMMA AppendKeepsPending ==
    ASSUME NEW s \in Seq(Messages), NEW m \in Seq(Messages),
           \E k \in 1..Len(s) : s[k].type = "logout"
    PROVE  \E k \in 1..Len(s \o m) : (s \o m)[k].type = "logout"
<1>1. PICK k \in 1..Len(s) : s[k].type = "logout"
  OBVIOUS
<1>2. k \in 1..Len(s \o m) /\ (s \o m)[k] = s[k]
  OBVIOUS
<1> QED
  BY <1>1, <1>2

\* A posted goodbye is under way.
LEMMA GoodbyeIsPending ==
    ASSUME NEW s \in Seq(Messages), NEW m \in Seq(Messages)
    PROVE  \E k \in 1..Len(s \o (m \o Goodbye)) : (s \o (m \o Goodbye))[k].type = "logout"
<1> DEFINE k == Len(s) + Len(m) + 1
<1>1. m \o Goodbye \in Seq(Messages) /\ Len(m \o Goodbye) = Len(m) + 1
      /\ (m \o Goodbye)[Len(m) + 1] = [type |-> "logout"]
  BY DEF Goodbye, Messages
<1>2. k \in 1..Len(s \o (m \o Goodbye))
  BY <1>1
<1>3. (s \o (m \o Goodbye))[k] = [type |-> "logout"]
  BY <1>1
<1> QED
  BY <1>2, <1>3

\* A logout that is not at the head stays under way when the head is taken.
LEMMA TailKeepsPending ==
    ASSUME NEW s \in Seq(Messages), s # <<>>, Head(s).type # "logout",
           \E k \in 1..Len(s) : s[k].type = "logout"
    PROVE  \E k \in 1..Len(Tail(s)) : Tail(s)[k].type = "logout"
<1>1. PICK k \in 1..Len(s) : s[k].type = "logout"
  OBVIOUS
<1>2. k # 1
  BY <1>1
<1>3. k - 1 \in 1..Len(Tail(s)) /\ Tail(s)[k - 1] = s[k]
  BY <1>2
<1> QED
  BY <1>1, <1>3

-----------------------------------------------------------------------------
(* Type correctness *)

\* What a request becomes is a request: not wanted any more, waiting for a
\* refresh after a refusal, sent.
LEMMA RequestTyped ==
    ASSUME NEW r \in Requests, r # Quiet
    PROVE  /\ [r EXCEPT !.wanted = FALSE] \in Requests
           /\ [at |-> "waiting", header |-> r.header, retried |-> TRUE, wanted |-> r.wanted]
                 \in Requests
           /\ \A a \in Accounts, age \in Ages : Sent(r, a, age) \in Requests
<1>1. CASE r \in [at : {"waiting"}, header : Accounts, retried : BOOLEAN, wanted : BOOLEAN]
  BY <1>1 DEF Requests, Sent, Quiet
<1>2. CASE r \in [at : {"sent"}, header : Accounts, retried : BOOLEAN, wanted : BOOLEAN,
                  token : Accounts, expired : BOOLEAN]
  BY <1>2 DEF Requests, Sent, Quiet
<1> QED
  BY <1>1, <1>2 DEF Requests

LEMMA RequestHeader ==
    ASSUME NEW r \in Requests, r # Quiet
    PROVE  r.header \in Accounts
BY DEF Requests, Quiet

LEMMA SentTyped ==
    ASSUME NEW r \in Requests, r.at = "sent"
    PROVE  r # Quiet /\ r.token \in Accounts /\ r.expired \in BOOLEAN
BY DEF Requests, Quiet

LEMMA SignedOutTyped == SignedOut \in Session /\ Expelled \in Session /\ Quiet \in Requests
BY DEF SignedOut, Expelled, Session, Holder, Ages, Quiet, Requests

\* A renewal changes the access token, its age and the status.
LEMMA WithTokenTyped ==
    ASSUME NEW s \in Session, NEW a \in Accounts
    PROVE  /\ WithToken(s, a) \in Session
           /\ WithToken(s, a).access = a
           /\ WithToken(s, a).refresh = s.refresh
           /\ WithToken(s, a).business = s.business
BY DEF WithToken, Session, Holder, Ages

\* A tab that loads a page keeps the types.
LEMMA PageLoadType ==
    ASSUME TypeOK, NEW t \in Tabs, NEW s \in Session, PageLoad(t, s)
    PROVE  /\ timer' \in [Tabs -> BOOLEAN]
           /\ flight' \in [Tabs -> Holder \cup {Stuck}]
           /\ request' \in [Tabs -> Requests]
           /\ shown' \in [Tabs -> Holder]
           /\ unhydrated' \subseteq Tabs
BY SignedOutTyped DEF PageLoad, Scheduled, TypeOK, Holder

LEMMA HardLogoutType ==
    ASSUME TypeOK, NEW t \in Tabs, NEW before \in Seq(Messages), HardLogout(t, before),
           UNCHANGED suspended
    PROVE  TypeOK'
<1>1. before \o Goodbye \in Seq(Messages)
  BY DEF Goodbye, Messages
<1>2. channel' \in [Tabs -> Seq(Messages)]
  <2>1. Posted(t, before \o Goodbye) \in [Tabs -> Seq(Messages)]
    BY <1>1, PostedTyped
  <2> QED
    BY <2>1 DEF HardLogout
<1>3. session' \in [Tabs -> Session] /\ stored' \in Holder
  BY SignedOutTyped DEF HardLogout, SetStore, TypeOK, Session, SignedOut, Holder
<1>4. ended' \subseteq Tabs
  BY DEF HardLogout, TypeOK
<1> QED
  BY <1>2, <1>3, <1>4, SignedOutTyped, PageLoadType DEF HardLogout, TypeOK, Session

\* A refresh is under way, or was rejected.
LEMMA StartRefreshType ==
    ASSUME TypeOK, NEW t \in Tabs, StartRefresh(t)
    PROVE  /\ session' = session
           /\ stored' \in Holder
           /\ flight' \in [Tabs -> Holder \cup {Stuck}]
           /\ \A u \in Tabs \ {t} : flight'[u] = flight[u]
           /\ flight'[t] # NoOne
<1>1. CASE flight[t] = NoOne /\ session[t].refresh # NoOne
  BY <1>1 DEF StartRefresh, SetStore, TypeOK
<1>2. CASE ~(flight[t] = NoOne /\ session[t].refresh # NoOne)
  BY <1>2, AdminSessionAssumption DEF StartRefresh, TypeOK
<1> QED
  BY <1>1, <1>2

LEMMA AwaitRefreshType ==
    ASSUME TypeOK, NEW t \in Tabs, NEW r \in Requests, AwaitRefresh(t, r)
    PROVE  /\ session' = session
           /\ stored' \in Holder
           /\ flight' \in [Tabs -> Holder \cup {Stuck}]
           /\ request' \in [Tabs -> Requests]
BY StartRefreshType, SignedOutTyped DEF AwaitRefresh, TypeOK

\* Every action keeps the types.
LEMMA TypeStep == TypeOK /\ [Next]_vars => TypeOK'
<1> SUFFICES ASSUME TypeOK, [Next]_vars PROVE TypeOK'
  OBVIOUS
<1>1. ASSUME NEW t \in Tabs, NEW a \in Accounts, Login(t, a) PROVE TypeOK'
  BY <1>1 DEF Login, SetStore, TypeOK, Holder, Ages
<1>2. ASSUME NEW t \in Tabs, Logout(t) PROVE TypeOK'
  BY <1>2, MessagesTyped, HardLogoutType DEF Logout
<1>3. ASSUME NEW t \in Tabs, ChooseOutlet(t) PROVE TypeOK'
  BY <1>3 DEF ChooseOutlet, SetStore, TypeOK
<1>4. ASSUME NEW t \in Tabs, Reload(t) PROVE TypeOK'
  <2>1. Rehydrated(session[t]) \in Session
    <3>1. session[t] \in Session
      BY DEF TypeOK, Session
    <3>2. [session[t] EXCEPT !.refresh = stored] \in Session
      BY <3>1 DEF TypeOK, Session
    <3> QED
      BY <3>2, SignedOutTyped DEF Rehydrated
  <2>2. session' \in [Tabs -> Session] /\ session'[t] \in Session
    BY <1>4, <2>1 DEF Reload, TypeOK, Session
  <2>3. channel' \in [Tabs -> Seq(Messages)] /\ ended' \subseteq Tabs
    BY <1>4 DEF Reload, TypeOK
  <2> QED
    BY <1>4, <2>2, <2>3, PageLoadType DEF Reload, TypeOK, Session
<1>16. ASSUME NEW t \in Tabs, NewTab(t) PROVE TypeOK'
  <2>1. session' \in [Tabs -> Session]
    BY <1>16, SignedOutTyped DEF NewTab, TypeOK, Session
  <2>2. channel' \in [Tabs -> Seq(Messages)]
    BY <1>16 DEF NewTab, TypeOK
  <2> QED
    BY <1>16, <2>1, <2>2, SignedOutTyped, PageLoadType DEF NewTab, TypeOK, Session
<1>5. ASSUME NEW t \in Tabs, TimerFires(t) PROVE TypeOK'
  BY <1>5, StartRefreshType DEF TimerFires, TypeOK
<1>6. ASSUME NEW t \in Tabs, RefreshDone(t) PROVE TypeOK'
  <2> DEFINE a == flight[t]
             renewal == <<[type |-> "token-refreshed", access |-> a]>>
             lost == request[t].at = "waiting" /\ request[t].retried /\ session[t].refresh = NoOne
  <2>1. a \in Accounts /\ renewal \in Seq(Messages)
    BY <1>6, MessagesTyped DEF RefreshDone
  <2>2. CASE lost
    BY <1>6, <2>1, <2>2, HardLogoutType DEF RefreshDone
  <2>3. CASE ~lost
    <3>1. WithToken(session[t], a) \in Session
      BY <2>1, WithTokenTyped DEF TypeOK, Session
    <3>5. session' = [session EXCEPT ![t] = WithToken(session[t], a)]
          /\ stored' = WithToken(session[t], a).refresh
      BY <1>6, <2>3 DEF RefreshDone, SetStore
    <3>2. session' \in [Tabs -> Session] /\ stored' \in Holder
      BY <3>1, <3>5 DEF TypeOK, Session
    <3>3. request' \in [Tabs -> Requests]
      <4>1. request[t].at = "waiting" => Sent(request[t], a, "fresh") \in Requests
        <5>1. request[t] \in Requests /\ (request[t].at = "waiting" => request[t] # Quiet)
          BY DEF TypeOK, Quiet
        <5>2. "fresh" \in Ages
          BY DEF Ages
        <5> QED
          BY <2>1, <5>1, <5>2, RequestTyped
      <4> QED
        BY <1>6, <2>3, <4>1 DEF RefreshDone, TypeOK
    <3>4. channel' \in [Tabs -> Seq(Messages)]
      BY <1>6, <2>1, <2>3, PostedTyped DEF RefreshDone
    <3> QED
      BY <1>6, <2>3, <3>2, <3>3, <3>4 DEF RefreshDone, TypeOK, Session, Holder
  <2> QED
    BY <2>2, <2>3
<1>7. ASSUME NEW t \in Tabs, RefreshFails(t) PROVE TypeOK'
  BY <1>7, MessagesTyped, HardLogoutType DEF RefreshFails
<1>8. ASSUME NEW t \in Tabs, Deliver(t) PROVE TypeOK'
  <2>1. channel' \in [Tabs -> Seq(Messages)] /\ Head(channel[t]) \in Messages
    BY <1>8 DEF Deliver, TypeOK
  <2>2. CASE Renewed(Head(channel[t]))
    <3>1. Head(channel[t]).access \in Accounts
      BY <2>1, <2>2 DEF Renewed, Messages
    <3>2. WithToken(session[t], Head(channel[t]).access) \in Session
      BY <3>1, WithTokenTyped DEF TypeOK, Session
    <3>3. session' \in [Tabs -> Session] /\ stored' \in Holder
      BY <1>8, <2>2, <3>2 DEF Deliver, SetStore, TypeOK, Session
    <3> QED
      BY <1>8, <2>1, <2>2, <3>3 DEF Deliver, TypeOK, Session
  <2>3. CASE ~Renewed(Head(channel[t]))
    <3>1. request' \in [Tabs -> Requests]
      <4>1. request[t] # Quiet => [request[t] EXCEPT !.wanted = FALSE] \in Requests
        BY RequestTyped DEF TypeOK
      <4> QED
        BY <1>8, <2>3, <4>1 DEF Deliver, TypeOK
    <3> QED
      BY <1>8, <2>1, <2>3, <3>1, SignedOutTyped, ZenonT(60)
      DEF Deliver, SetStore, Cleared, ClearCache, TypeOK, Session, SignedOut, Holder
  <2> QED
    BY <2>2, <2>3
<1>9. ASSUME NEW t \in Tabs, Ask(t) PROVE TypeOK'
  <2> DEFINE r == [at |-> "waiting", header |-> session[t].business,
                   retried |-> FALSE, wanted |-> TRUE]
  <2>1. r \in Requests /\ r # Quiet /\ session[t].access \in Accounts
    BY <1>9 DEF Ask, HasHeader, Usable, TypeOK, Requests, Holder, Quiet
  <2>2. Sent(r, session[t].access, session[t].age) \in Requests
    BY <2>1, RequestTyped DEF TypeOK
  <2>3. CASE ~Complete(t)
    BY <1>9, <2>3, MessagesTyped, HardLogoutType DEF Ask
  <2>4. CASE Complete(t) /\ session[t].age = "old"
    BY <1>9, <2>1, <2>4, AwaitRefreshType DEF Ask, TypeOK
  <2>5. CASE Complete(t) /\ session[t].age # "old"
    BY <1>9, <2>2, <2>5 DEF Ask, TypeOK
  <2> QED
    BY <2>3, <2>4, <2>5
<1>10. ASSUME NEW t \in Tabs, Unauthorized(t) PROVE TypeOK'
  <2> DEFINE r == [at |-> "waiting", header |-> request[t].header,
                   retried |-> TRUE, wanted |-> request[t].wanted]
  <2>1. r \in Requests
    BY <1>10, RequestTyped, SentTyped DEF Unauthorized, TypeOK
  <2> QED
    BY <1>10, <2>1, AwaitRefreshType DEF Unauthorized, TypeOK
<1>11. ASSUME NEW t \in Tabs, Suspended(t) PROVE TypeOK'
  <2>1. session' \in [Tabs -> Session] /\ stored' \in Holder
    BY <1>11, SignedOutTyped DEF Suspended, SetStore, TypeOK, Session
  <2>2. channel' \in [Tabs -> Seq(Messages)] /\ ended' \subseteq Tabs
    BY <1>11 DEF Suspended, TypeOK
  <2> QED
    BY <1>11, <2>1, <2>2, SignedOutTyped, PageLoadType DEF Suspended, TypeOK, Session
<1>12. ASSUME NEW t \in Tabs, Answered(t) PROVE TypeOK'
  <2>1. request[t].token \in Accounts
    BY <1>12, SentTyped DEF Answered, TypeOK
  <2> QED
    BY <1>12, <2>1, SignedOutTyped DEF Answered, TypeOK, Holder
<1>13. ASSUME NEW a \in Accounts, SuspendAccount(a) PROVE TypeOK'
  BY <1>13 DEF SuspendAccount, inTab, TypeOK
<1>14. ASSUME NEW t \in Tabs, Age(t) PROVE TypeOK'
  BY <1>14 DEF Age, TypeOK
<1>15. CASE UNCHANGED vars
  BY <1>15 DEF vars, inTab, TypeOK
<1> QED
  BY <1>1, <1>2, <1>3, <1>4, <1>5, <1>6, <1>7, <1>8, <1>9, <1>10, <1>11, <1>12,
     <1>13, <1>14, <1>15, <1>16 DEF Next, TabStep

LEMMA TypeInit == Init => TypeOK
BY AdminSessionAssumption DEF Init, TypeOK, SignedOut, Quiet, Requests, Holder, Ages

-----------------------------------------------------------------------------
(* The invariant *)

LEMMA InvInit == Init => Inv
BY TypeInit DEF Init, Inv, Wanted, OwnDataOnly, PagesHaveTokens, LogoutReachesAll,
   RenewalScheduled, Complete, Usable, SignedOut, Quiet

\* What another tab does to a tab: nothing but to append to its channel.
OnlyTab(t) ==
    \A u \in Tabs \ {t} :
        /\ session'[u] = session[u]
        /\ timer'[u] = timer[u]
        /\ flight'[u] = flight[u]
        /\ request'[u] = request[u]
        /\ shown'[u] = shown[u]
        /\ u \in unhydrated' <=> u \in unhydrated

\* The parts of the invariant about one tab.
TabInv(t) ==
    /\ request[t] # Quiet /\ request[t].wanted => request[t].header = session[t].business
    /\ shown[t] \in {NoOne, session[t].business}
    /\ Complete(t) => timer[t] \/ flight[t] # NoOne
    /\ t \notin unhydrated /\ session[t].business # NoOne => Complete(t)
    /\ t \in ended /\ session[t].business # NoOne => LogoutPending(t)

LEMMA InvByTab == Inv <=> TypeOK /\ \A t \in Tabs : TabInv(t)
BY DEF Inv, TabInv, Wanted, OwnDataOnly, PagesHaveTokens, LogoutReachesAll, RenewalScheduled,
   TypeOK

\* A tab that no step touches keeps its part, as long as a logout that is under
\* way to it stays so.
LEMMA OtherTabs ==
    ASSUME NEW t \in Tabs, NEW u \in Tabs, u # t, OnlyTab(t), TabInv(u),
           u \in ended' => u \in ended \/ LogoutPending(u)',
           LogoutPending(u) => LogoutPending(u)'
    PROVE  TabInv(u)'
BY DEF OnlyTab, TabInv, Complete, Usable

\* A logout of tab t: the tab starts over, and every other is told.
LEMMA HardLogoutInv ==
    ASSUME Inv, NEW t \in Tabs, NEW before \in Seq(Messages), HardLogout(t, before)
    PROVE  \A u \in Tabs : TabInv(u)'
<1> USE DEF Inv
<1>1. TabInv(t)'
  BY DEF HardLogout, SetStore, PageLoad, TabInv, TypeOK, SignedOut, Quiet, Complete, Usable
<1>2. ASSUME NEW u \in Tabs \ {t} PROVE TabInv(u)'
  <2>1. LogoutPending(u)'
    <3>1. channel'[u] = channel[u] \o (before \o Goodbye)
      BY <1>2 DEF HardLogout, Posted, TypeOK
    <3>2. channel[u] \in Seq(Messages)
      BY <1>2 DEF TypeOK
    <3>3. \E k \in 1..Len(channel'[u]) : channel'[u][k].type = "logout"
      BY <3>1, <3>2, GoodbyeIsPending
    <3> QED
      BY <3>3 DEF LogoutPending
  <2>2. OnlyTab(t)
    BY DEF HardLogout, SetStore, PageLoad, OnlyTab, TypeOK
  <2> QED
    BY <1>2, <2>1, <2>2, InvByTab, OtherTabs
<1> QED
  BY <1>1, <1>2

\* A step of tab t that tells the others nothing.
LEMMA QuietTabs ==
    ASSUME Inv, NEW t \in Tabs, OnlyTab(t), TabInv(t)', ended' \subseteq ended,
           \A u \in Tabs \ {t} : channel'[u] = channel[u]
    PROVE  \A u \in Tabs : TabInv(u)'
<1>1. ASSUME NEW u \in Tabs \ {t} PROVE TabInv(u)'
  <2>1. LogoutPending(u)' <=> LogoutPending(u)
    BY <1>1 DEF LogoutPending
  <2> QED
    BY <1>1, <2>1, InvByTab, OtherTabs
<1> QED
  BY <1>1

LEMMA LoginInv ==
    ASSUME Inv, NEW t \in Tabs, NEW a \in Accounts, Login(t, a)
    PROVE  \A u \in Tabs : TabInv(u)'
<1>1. session[t].business = NoOne
  BY DEF Inv, PagesHaveTokens, Complete, Login
<1>2. request[t] # Quiet => ~request[t].wanted
  <2>1. request[t] # Quiet => request[t].header \in Accounts
    BY RequestHeader DEF Inv, TypeOK
  <2> QED
    BY <1>1, <2>1, AdminSessionAssumption DEF Inv, Wanted
<1>3. shown[t] = NoOne
  BY <1>1 DEF Inv, OwnDataOnly
<1>4. TabInv(t)'
  BY <1>2, <1>3, AdminSessionAssumption
  DEF Inv, Login, SetStore, TabInv, Complete, Usable, TypeOK
<1>5. OnlyTab(t)
  BY DEF Login, SetStore, OnlyTab, Inv, TypeOK
<1> QED
  BY <1>4, <1>5, QuietTabs DEF Login

LEMMA ReloadInv ==
    ASSUME Inv, NEW t \in Tabs, Reload(t)
    PROVE  \A u \in Tabs : TabInv(u)'
<1> USE DEF Inv, TypeOK
<1>1. session'[t] = Rehydrated(session[t])
  BY DEF Reload
<1>2. request'[t] = Quiet /\ shown'[t] = NoOne /\ timer'[t] = (session'[t].access # NoOne)
  BY DEF Reload, PageLoad, Scheduled
<1>3. t \in ended' /\ session'[t].business # NoOne => LogoutPending(t)'
  BY <1>1 DEF Reload, LogoutReachesAll, Rehydrated, SignedOut
<1>5. Complete(t)' => timer'[t]
  BY <1>2 DEF Complete, Usable
<1>6. t \notin unhydrated' /\ session'[t].business # NoOne => Complete(t)'
  <2>1. t \notin unhydrated' => ~HydrationFails(session'[t])
    BY DEF Reload, PageLoad
  <2>2. session'[t] = SignedOut \/ session'[t].access # NoOne \/ session'[t].expired
    BY <1>1 DEF Rehydrated
  <2> QED
    BY <2>1, <2>2 DEF HydrationFails, Complete, Usable, SignedOut
<1>7. OnlyTab(t)
  BY DEF Reload, PageLoad, OnlyTab
<1> QED
  BY <1>2, <1>3, <1>5, <1>6, <1>7, QuietTabs DEF TabInv, Reload

LEMMA NewTabInv ==
    ASSUME Inv, NEW t \in Tabs, NewTab(t)
    PROVE  \A u \in Tabs : TabInv(u)'
<1> USE DEF Inv, TypeOK
<1>1. TabInv(t)'
  BY DEF NewTab, PageLoad, TabInv, SignedOut, Quiet, Complete, Usable
<1>2. OnlyTab(t) /\ ended' = ended
  BY DEF NewTab, PageLoad, OnlyTab
<1>3. \A u \in Tabs \ {t} : channel'[u] = channel[u]
  BY DEF NewTab
<1> QED
  BY <1>1, <1>2, <1>3, QuietTabs

\* A renewal gives the tab an access token, and sends it to the others.
LEMMA RefreshDoneInv ==
    ASSUME Inv, NEW t \in Tabs, RefreshDone(t)
    PROVE  \A u \in Tabs : TabInv(u)'
<1> DEFINE a == flight[t]
           renewal == <<[type |-> "token-refreshed", access |-> a]>>
           lost == request[t].at = "waiting" /\ request[t].retried /\ session[t].refresh = NoOne
<1>1. a \in Accounts /\ a # NoOne /\ renewal \in Seq(Messages)
  BY MessagesTyped, AdminSessionAssumption DEF RefreshDone
<1>2. CASE lost
  BY <1>1, <1>2, HardLogoutInv DEF RefreshDone
<1>3. CASE ~lost
  <2>1. /\ session' = [session EXCEPT ![t] = WithToken(session[t], a)]
        /\ timer' = [timer EXCEPT ![t] = TRUE]
        /\ flight' = [flight EXCEPT ![t] = NoOne]
        /\ request' = [request EXCEPT ![t] =
                          IF @.at = "waiting" THEN Sent(@, a, "fresh") ELSE @]
        /\ channel' = Posted(t, renewal)
        /\ shown' = shown /\ unhydrated' = unhydrated /\ ended' = ended
    BY <1>3 DEF RefreshDone, SetStore
  <2>2. /\ session'[t].business = session[t].business
        /\ session'[t].refresh = session[t].refresh
        /\ session'[t].access = a
    BY <1>1, <2>1, WithTokenTyped DEF Inv, TypeOK, Session
  <2>3. request'[t] # Quiet /\ request'[t].wanted =>
            request[t] # Quiet /\ request[t].wanted /\ request'[t].header = request[t].header
    <3>1. request[t].at = "waiting" => request[t] # Quiet
      BY DEF Quiet
    <3> QED
      BY <2>1, <3>1 DEF Inv, TypeOK, Sent
  <2>4. LogoutPending(t)' <=> LogoutPending(t)
    BY <2>1 DEF Posted, LogoutPending, Inv, TypeOK
  <2>5. timer'[t] /\ shown'[t] = shown[t]
    BY <2>1 DEF Inv, TypeOK
  <2>6. TabInv(t)
    BY InvByTab
  <2>7. TabInv(t)'
    BY <1>1, <2>1, <2>2, <2>3, <2>4, <2>5, <2>6 DEF TabInv, Complete, Usable
  <2>8. ASSUME NEW u \in Tabs \ {t} PROVE TabInv(u)'
    <3>1. OnlyTab(t)
      BY <2>1 DEF OnlyTab, Inv, TypeOK
    <3>2. channel'[u] = channel[u] \o renewal /\ channel[u] \in Seq(Messages)
      BY <2>1, <2>8 DEF Posted, Inv, TypeOK
    <3>3. LogoutPending(u) => LogoutPending(u)'
      BY <1>1, <3>2, AppendKeepsPending DEF LogoutPending
    <3> QED
      BY <2>1, <2>8, <3>1, <3>3, InvByTab, OtherTabs
  <2> QED
    BY <2>7, <2>8
<1> QED
  BY <1>2, <1>3

\* A message renews the access token, or ends the session.
LEMMA DeliverInv ==
    ASSUME Inv, NEW t \in Tabs, Deliver(t)
    PROVE  \A u \in Tabs : TabInv(u)'
<1>1. channel[t] \in Seq(Messages) /\ channel[t] # <<>> /\ Head(channel[t]) \in Messages
      /\ channel'[t] = Tail(channel[t])
  BY DEF Deliver, Inv, TypeOK
<1>2. OnlyTab(t) /\ \A u \in Tabs \ {t} : channel'[u] = channel[u]
  BY DEF Deliver, SetStore, OnlyTab, Inv, TypeOK
<1>3. TabInv(t)
  BY InvByTab
<1>4. CASE Renewed(Head(channel[t]))
  <2>1. Head(channel[t]).access \in Accounts /\ Head(channel[t]).type # "logout"
    BY <1>1, <1>4 DEF Renewed, Messages
  <2>2. /\ session' = [session EXCEPT ![t] = WithToken(session[t], Head(channel[t]).access)]
        /\ timer' = [timer EXCEPT ![t] = TRUE]
        /\ request' = request /\ shown' = shown
        /\ unhydrated' = unhydrated /\ ended' = ended
    BY <1>4 DEF Deliver, SetStore
  <2>5. /\ session'[t].business = session[t].business
        /\ session'[t].refresh = session[t].refresh
        /\ session'[t].access = Head(channel[t]).access
        /\ timer'[t]
    BY <2>1, <2>2, WithTokenTyped DEF Inv, TypeOK, Session
  <2>6. session'[t].access # NoOne
    BY <2>1, <2>5, AdminSessionAssumption
  <2>3. LogoutPending(t) => LogoutPending(t)'
    BY <1>1, <2>1, TailKeepsPending DEF LogoutPending
  <2>4. TabInv(t)'
    BY <1>3, <2>2, <2>3, <2>5, <2>6 DEF TabInv, Complete, Usable
  <2> QED
    BY <1>2, <2>2, <2>4, QuietTabs
<1>5. CASE ~Renewed(Head(channel[t]))
  <2>1. session'[t] = SignedOut /\ shown'[t] = NoOne /\ ended' = ended
    BY <1>5 DEF Deliver, SetStore, Cleared, ClearCache, Inv, TypeOK
  <2>2. request'[t] # Quiet => ~request'[t].wanted
    <3>1. CASE request[t] = Quiet
      BY <1>5, <3>1 DEF Deliver, Inv, TypeOK
    <3>2. CASE request[t] # Quiet
      <4>1. request[t] \in Requests /\ request'[t] = [request[t] EXCEPT !.wanted = FALSE]
        BY <1>5, <3>2 DEF Deliver, Inv, TypeOK
      <4>2. [request[t] EXCEPT !.wanted = FALSE].wanted = FALSE
        BY <3>2, <4>1 DEF Requests, Quiet
      <4> QED
        BY <4>1, <4>2
    <3> QED
      BY <3>1, <3>2
  <2>3. TabInv(t)'
    BY <2>1, <2>2 DEF TabInv, SignedOut, Complete, Usable
  <2> QED
    BY <1>2, <2>1, <2>3, QuietTabs
<1> QED
  BY <1>4, <1>5

\* A tab that starts a refresh, or waits for one.
LEMMA StartRefreshInv ==
    ASSUME Inv, NEW t \in Tabs, StartRefresh(t), OnlyTab(t), shown' = shown, channel' = channel,
           unhydrated' = unhydrated, ended' = ended,
           request'[t] # Quiet /\ request'[t].wanted =>
               request'[t].header = session[t].business
    PROVE  \A u \in Tabs : TabInv(u)'
<1>1. session' = session /\ flight'[t] # NoOne
  BY StartRefreshType DEF Inv
<1>2. TabInv(t)
  BY InvByTab
<1>3. TabInv(t)'
  BY <1>1, <1>2 DEF TabInv, Complete, Usable, LogoutPending
<1> QED
  BY <1>3, QuietTabs

LEMMA TimerFiresInv ==
    ASSUME Inv, NEW t \in Tabs, TimerFires(t)
    PROVE  \A u \in Tabs : TabInv(u)'
<1>1. StartRefresh(t) /\ request' = request /\ shown' = shown /\ channel' = channel
      /\ unhydrated' = unhydrated /\ ended' = ended
  BY DEF TimerFires
<1>2. OnlyTab(t)
  BY <1>1, StartRefreshType DEF TimerFires, OnlyTab, Inv, TypeOK
<1> QED
  BY <1>1, <1>2, StartRefreshInv DEF Inv, Wanted

LEMMA AskInv ==
    ASSUME Inv, NEW t \in Tabs, Ask(t)
    PROVE  \A u \in Tabs : TabInv(u)'
<1> DEFINE r == [at |-> "waiting", header |-> session[t].business,
                 retried |-> FALSE, wanted |-> TRUE]
<1>1. CASE ~Complete(t)
  BY <1>1, MessagesTyped, HardLogoutInv DEF Ask
<1>2. CASE Complete(t) /\ session[t].age = "old"
  <2>1. AwaitRefresh(t, r) /\ timer' = timer /\ shown' = shown /\ channel' = channel
        /\ unhydrated' = unhydrated /\ ended' = ended
    BY <1>2 DEF Ask
  <2>2. OnlyTab(t)
    BY <2>1, StartRefreshType DEF AwaitRefresh, OnlyTab, Inv, TypeOK
  <2>3. request'[t] # Quiet => request'[t] = r
    BY <2>1 DEF AwaitRefresh, Inv, TypeOK
  <2> QED
    BY <2>1, <2>2, <2>3, StartRefreshInv DEF AwaitRefresh
<1>3. CASE Complete(t) /\ session[t].age # "old"
  <2>1. /\ request' = [request EXCEPT ![t] = Sent(r, session[t].access, session[t].age)]
        /\ UNCHANGED <<session, stored, timer, flight, shown, unhydrated, channel, ended>>
    BY <1>3 DEF Ask
  <2>2. request'[t].header = session[t].business
    BY <2>1 DEF Sent, Inv, TypeOK
  <2>3. TabInv(t)
    BY InvByTab
  <2>4. TabInv(t)'
    BY <2>1, <2>2, <2>3 DEF TabInv, Complete, Usable, LogoutPending
  <2>5. OnlyTab(t)
    BY <2>1 DEF OnlyTab, Inv, TypeOK
  <2> QED
    BY <2>1, <2>4, <2>5, QuietTabs
<1> QED
  BY <1>1, <1>2, <1>3

LEMMA UnauthorizedInv ==
    ASSUME Inv, NEW t \in Tabs, Unauthorized(t)
    PROVE  \A u \in Tabs : TabInv(u)'
<1> DEFINE r == [at |-> "waiting", header |-> request[t].header,
                 retried |-> TRUE, wanted |-> request[t].wanted]
<1>1. AwaitRefresh(t, r) /\ timer' = timer /\ shown' = shown /\ channel' = channel
      /\ unhydrated' = unhydrated /\ ended' = ended
  BY DEF Unauthorized
<1>2. OnlyTab(t)
  BY <1>1, StartRefreshType DEF AwaitRefresh, OnlyTab, Inv, TypeOK
<1>3. request'[t] # Quiet => request'[t] = r
  BY <1>1 DEF AwaitRefresh, Inv, TypeOK
<1>4. request[t] # Quiet
  BY SentTyped DEF Unauthorized, Inv, TypeOK
<1> QED
  BY <1>1, <1>2, <1>3, <1>4, StartRefreshInv DEF AwaitRefresh, Inv, Wanted

\* The server's answers: data of the session's own business, or the end.
LEMMA AnswersInv ==
    ASSUME Inv, NEW t \in Tabs, Answered(t) \/ Suspended(t)
    PROVE  \A u \in Tabs : TabInv(u)'
<1>1. TabInv(t)
  BY InvByTab
<1>2. CASE Answered(t)
  <2>1. /\ request'[t] = Quiet
        /\ shown'[t] \in {NoOne, session[t].business}
        /\ UNCHANGED <<session, timer, flight, unhydrated, channel, ended>>
    <3>1. request[t] # Quiet
      BY <1>2, SentTyped DEF Answered, Inv, TypeOK
    <3>2. request[t].wanted /\ request[t].header = request[t].token =>
              request[t].token = session[t].business
      BY <3>1 DEF Inv, Wanted
    <3> QED
      BY <1>1, <1>2, <3>2 DEF Answered, TabInv, Inv, TypeOK
  <2>2. TabInv(t)'
    BY <1>1, <2>1 DEF TabInv, Complete, Usable, LogoutPending
  <2>3. OnlyTab(t)
    BY <1>2 DEF Answered, OnlyTab, Inv, TypeOK
  <2> QED
    BY <2>1, <2>2, <2>3, QuietTabs
<1>3. CASE Suspended(t)
  <2>1. TabInv(t)'
    BY <1>3 DEF Suspended, SetStore, PageLoad, TabInv, Expelled, SignedOut, Complete, Usable,
                Inv, TypeOK
  <2>2. OnlyTab(t) /\ \A u \in Tabs \ {t} : channel'[u] = channel[u]
    BY <1>3 DEF Suspended, SetStore, PageLoad, OnlyTab, Inv, TypeOK
  <2> QED
    BY <1>3, <2>1, <2>2, QuietTabs DEF Suspended
<1> QED
  BY <1>2, <1>3

\* A step that leaves every tab as it is, but for the store's write-back or the age
\* of its token.
LEMMA StillTabs ==
    ASSUME Inv, \A u \in Tabs : /\ session'[u].access = session[u].access
                                /\ session'[u].refresh = session[u].refresh
                                /\ session'[u].business = session[u].business,
           UNCHANGED <<timer, flight, request, shown, unhydrated, channel, ended>>
    PROVE  \A u \in Tabs : TabInv(u)'
BY InvByTab DEF TabInv, Complete, Usable, LogoutPending

LEMMA StillActions ==
    ASSUME Inv, \/ UNCHANGED vars
                \/ \E t \in Tabs : ChooseOutlet(t) \/ Age(t)
                \/ \E a \in Accounts : SuspendAccount(a)
    PROVE  \A u \in Tabs : TabInv(u)'
<1>1. CASE UNCHANGED vars
  BY <1>1, StillTabs DEF vars, inTab
<1>2. ASSUME NEW t \in Tabs, ChooseOutlet(t) PROVE \A u \in Tabs : TabInv(u)'
  <2>1. session' = session
    BY <1>2 DEF ChooseOutlet, SetStore, Inv, TypeOK
  <2> QED
    BY <1>2, <2>1, StillTabs DEF ChooseOutlet
<1>3. ASSUME NEW t \in Tabs, Age(t) PROVE \A u \in Tabs : TabInv(u)'
  <2>1. \A u \in Tabs : /\ session'[u].access = session[u].access
                         /\ session'[u].refresh = session[u].refresh
                         /\ session'[u].business = session[u].business
    BY <1>3 DEF Age, Inv, TypeOK
  <2> QED
    BY <1>3, <2>1, StillTabs DEF Age
<1>4. ASSUME NEW a \in Accounts, SuspendAccount(a) PROVE \A u \in Tabs : TabInv(u)'
  BY <1>4, StillTabs DEF SuspendAccount, inTab
<1> QED
  BY <1>1, <1>2, <1>3, <1>4

\* The invariant is inductive.
LEMMA InvStep == Inv /\ [Next]_vars => Inv'
<1> SUFFICES ASSUME Inv, [Next]_vars PROVE Inv'
  OBVIOUS
<1>1. TypeOK'
  BY TypeStep DEF Inv
<1>2. \A u \in Tabs : TabInv(u)'
  <2>1. ASSUME NEW t \in Tabs, TabStep(t) PROVE \A u \in Tabs : TabInv(u)'
    <3>1. CASE \E a \in Accounts : Login(t, a)
      BY <3>1, LoginInv
    <3>2. CASE Logout(t) \/ RefreshFails(t)
      BY <3>2, MessagesTyped, HardLogoutInv DEF Logout, RefreshFails
    <3>3. CASE ChooseOutlet(t)
      BY <3>3, StillActions
    <3>4. CASE Reload(t)
      BY <3>4, ReloadInv
    <3>11. CASE NewTab(t)
      BY <3>11, NewTabInv
    <3>5. CASE TimerFires(t)
      BY <3>5, TimerFiresInv
    <3>6. CASE RefreshDone(t)
      BY <3>6, RefreshDoneInv
    <3>7. CASE Deliver(t)
      BY <3>7, DeliverInv
    <3>8. CASE Ask(t)
      BY <3>8, AskInv
    <3>9. CASE Unauthorized(t)
      BY <3>9, UnauthorizedInv
    <3>10. CASE Suspended(t) \/ Answered(t)
      BY <3>10, AnswersInv
    <3> QED
      BY <2>1, <3>1, <3>2, <3>3, <3>4, <3>5, <3>6, <3>7, <3>8, <3>9, <3>10, <3>11
      DEF TabStep
  <2> QED
    BY <2>1, StillActions DEF Next
<1> QED
  BY <1>1, <1>2
  DEF Inv, TabInv, Wanted, OwnDataOnly, PagesHaveTokens, LogoutReachesAll,
      RenewalScheduled, TypeOK

LEMMA InvAlways == Spec => []Inv
<1>1. Init => Inv
  BY InvInit
<1>2. Inv /\ [Next]_vars => Inv'
  BY InvStep
<1> QED
  BY <1>1, <1>2, PTL DEF Spec

-----------------------------------------------------------------------------
(* The theorems *)

\* The variables keep their types: a token or a header never becomes "no one" in a
\* request, whichever tab takes the session away under it (businessIdHeader).
THEOREM TypeCorrect == Spec => []TypeOK
<1>1. Inv => TypeOK
  BY DEF Inv
<1> QED
  BY <1>1, InvAlways, PTL

\* No tab keeps or receives data of another business than its session's, although
\* the tokens of several meet in one browser (queryClient.clear, BusinessMiddleware).
THEOREM OwnData == Spec => []OwnDataOnly
<1>1. Inv => OwnDataOnly
  BY DEF Inv
<1> QED
  BY <1>1, InvAlways, PTL

\* A page that does not wait for its hydration has both tokens if it knows its
\* business, whatever reloads, lost logouts and renewals of other tabs do to the
\* storages (onRehydrateStorage).
THEOREM NoHalfPages == Spec => []PagesHaveTokens
<1>1. Inv => PagesHaveTokens
  BY DEF Inv
<1> QED
  BY <1>1, InvAlways, PTL

\* A tab whose session another tab's logout ended knows no business once the message is
\* delivered, until its own next login: no renewal and no reload brings the session
\* back (hardLogout, the handler of authChannel).
THEOREM LogoutSpreads == Spec => []LogoutReachesAll
<1>1. Inv => LogoutReachesAll
  BY DEF Inv
<1> QED
  BY <1>1, InvAlways, PTL

\* No complete session is left without a scheduled renewal
\* (scheduleProactiveRefresh, RootProviders).
THEOREM RenewalKept == Spec => []RenewalScheduled
<1>1. Inv => RenewalScheduled
  BY DEF Inv
<1> QED
  BY <1>1, InvAlways, PTL
=============================================================================
