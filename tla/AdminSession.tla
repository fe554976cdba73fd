---------------------------- MODULE AdminSession ----------------------------
(***************************************************************************)
(* The admin session of the browser: tabs that each hold a session in      *)
(* memory and in their sessionStorage, one refresh token in the            *)
(* localStorage they share, and a BroadcastChannel between them            *)
(* (posgodinov-fe/lib/auth).                                               *)
(*                                                                         *)
(* A step is one turn of a tab's event loop, with the microtasks it leads  *)
(* to.  Tokens are named by the business they are for, so two tokens of    *)
(* one business are equal.  The tab's sessionStorage equals its memory     *)
(* but for the refresh token, and needs no variable of its own; `status`   *)
(* is authenticated or refreshing exactly when there is an access token.   *)
(* Leaving a page for /login, which the code does with location.assign or  *)
(* location.replace, loads it anew: the tab's memory starts over.          *)
(* zustand's persist reads both storages while create() still runs, so     *)
(* that a listener of the hydration that names the store throws, and the   *)
(* hydration does not count as finished.                                   *)
(*                                                                         *)
(* Left out: the OAuth and impersonation pages, which set a session like a *)
(* login, registration, and the refresh token's own seven days, which end  *)
(* like a refused refresh.                                                 *)
(***************************************************************************)
EXTENDS Naturals, Sequences

CONSTANTS
    Tabs, Accounts,
    NoOne,              \* no token, no business
    Stuck,              \* an inFlightRefresh that was rejected and stays
    Suspendable,        \* accounts that may be suspended
    Asking,             \* bounds: tabs whose pages send requests,
    MaxMessages         \* and messages to a tab when a user acts

ASSUME AdminSessionAssumption ==
    /\ NoOne \notin Accounts
    /\ Stuck \notin Accounts \cup {NoOne}
    /\ Suspendable \subseteq Accounts
    /\ Asking \subseteq Tabs
    /\ MaxMessages \in Nat

VARIABLES
    session,    \* useSessionStore: access token and its age, refresh token, business
    stored,     \* localStorage: the refresh token
    timer,      \* refreshTimer is set
    flight,     \* inFlightRefresh: with whose refresh token, or Stuck
    request,    \* an adminRequest under way
    shown,      \* queryClient: whose data the tab has
    unhydrated, \* tabs whose page waits for a hydration that never finishes
    channel,    \* messages under way to a tab, oldest first
    suspended,  \* server: suspended accounts
    \* history for the properties
    ended       \* tabs that knew their business when another tab logged out, until
                \* their own next login, or a page load that loses the message

inTab == <<session, timer, flight, request, shown, unhydrated>>
vars  == <<inTab, stored, channel, suspended, ended>>

Holder == Accounts \cup {NoOne}

\* An access token is fresh, expired at the server earlier than the tab's
\* clock thinks (late), or so old by the tab's clock that it must be renewed.
Ages == {"fresh", "late", "old"}

SignedOut ==
    [access |-> NoOne, age |-> "old", refresh |-> NoOne, business |-> NoOne, expired |-> FALSE]

\* clear('expired') without clearSessionStorage: the status stays in sessionStorage.
Expelled == [SignedOut EXCEPT !.expired = TRUE]

Quiet == [at |-> "none"]

Requests ==
    {Quiet}
    \cup [at : {"waiting"}, header : Accounts, retried : BOOLEAN, wanted : BOOLEAN]
    \cup [at : {"sent"}, header : Accounts, retried : BOOLEAN, wanted : BOOLEAN,
          token : Accounts, expired : BOOLEAN]

Messages ==
    [type : {"token-refreshed"}, access : Accounts] \cup [type : {"logout"}]

TypeOK ==
    /\ session \in [Tabs -> [access : Holder, age : Ages, refresh : Holder, business : Holder,
                             expired : BOOLEAN]]
    /\ stored \in Holder
    /\ timer \in [Tabs -> BOOLEAN]
    /\ flight \in [Tabs -> Holder \cup {Stuck}]
    /\ request \in [Tabs -> Requests]
    /\ shown \in [Tabs -> Holder]
    /\ unhydrated \subseteq Tabs
    /\ channel \in [Tabs -> Seq(Messages)]
    /\ suspended \subseteq Accounts
    /\ ended \subseteq Tabs

Init ==
    /\ session = [t \in Tabs |-> SignedOut]
    /\ stored = NoOne
    /\ timer = [t \in Tabs |-> FALSE]
    /\ flight = [t \in Tabs |-> NoOne]
    /\ request = [t \in Tabs |-> Quiet]
    /\ shown = [t \in Tabs |-> NoOne]
    /\ unhydrated = {}
    /\ channel = [t \in Tabs |-> <<>>]
    /\ suspended = {}
    /\ ended = {}

-----------------------------------------------------------------------------
Usable(t)   == session[t].access # NoOne
Complete(t) == Usable(t) /\ session[t].refresh # NoOne

\* A user does not act while messages pile up.
Room == \A t \in Tabs : Len(channel[t]) < MaxMessages

\* The store of tab t becomes s; persist writes its refresh token, or removes
\* the one that is there, for all tabs (splitStorage.setItem).
SetStore(t, s) ==
    /\ session' = [session EXCEPT ![t] = s]
    /\ stored' = s.refresh

\* postMessage reaches every other tab.
Posted(t, messages) ==
    [u \in Tabs |-> IF u = t THEN channel[u] ELSE channel[u] \o messages]

Renewed(message) == message.type = "token-refreshed"

LogoutPending(t) == \E k \in 1..Len(channel[t]) : channel[t][k].type = "logout"

\* Mutant: a loaded page does not schedule the renewal again.
NeverScheduled(s) == FALSE

\* Mutant: half a session that is found is shown like any other.
NeverFails(s) == FALSE

\* onRehydrateStorage wants to discard half a session, and one that expired, with
\* useSessionStore.setState: the store does not exist yet, the error ends the
\* hydration, and the session stays as it was found.
HydrationFails(s) ==
    /\ s.access # NoOne \/ s.expired
    /\ s.access = NoOne \/ s.refresh = NoOne

\* RootProviders schedules the renewal from the session a loaded page finds.
Scheduled(s) == s.access # NoOne

\* What a page load leaves of a tab whose session is s then.
PageLoad(t, s) ==
    /\ timer' = [timer EXCEPT ![t] = Scheduled(s)]
    /\ flight' = [flight EXCEPT ![t] = NoOne]
    /\ request' = [request EXCEPT ![t] = Quiet]
    /\ shown' = [shown EXCEPT ![t] = NoOne]
    /\ unhydrated' = IF HydrationFails(s) THEN unhydrated \cup {t} ELSE unhydrated \ {t}

\* hardLogout's broadcast.
Goodbye == <<[type |-> "logout"]>>

\* hardLogout, after `before` was posted: the store and both storages are
\* cleared, the others are told, and the login page is loaded.
HardLogout(t, before) ==
    /\ SetStore(t, SignedOut)
    /\ PageLoad(t, SignedOut)
    /\ channel' = [Posted(t, before \o Goodbye) EXCEPT ![t] = <<>>]
    /\ ended' = ended \cup {u \in Tabs \ {t} : session[u].business # NoOne}

-----------------------------------------------------------------------------
(* Login, logout, reload *)

\* useAuthFlow.login: the form is there while the tab has no session; one that
\* has got only an access token meanwhile is overwritten by the answer.  Other
\* tabs are not told.
Login(t, a) ==
    /\ Room
    /\ t \notin unhydrated
    /\ session[t].refresh = NoOne
    /\ a \notin suspended
    /\ SetStore(t, [access |-> a, age |-> "fresh", refresh |-> a, business |-> a,
                    expired |-> FALSE])
    /\ timer' = [timer EXCEPT ![t] = TRUE]
    /\ ended' = ended \ {t}
    /\ UNCHANGED <<flight, request, shown, unhydrated, channel, suspended>>

\* AdminHeader's button, in AdminShell.
Logout(t) ==
    /\ Room
    /\ t \notin unhydrated
    /\ Usable(t)
    /\ HardLogout(t, <<>>)
    /\ UNCHANGED suspended

\* setActiveOutlet: like every write to the store it writes the tab's refresh
\* token back.
ChooseOutlet(t) ==
    /\ t \notin unhydrated
    /\ Usable(t)
    /\ SetStore(t, session[t])
    /\ UNCHANGED <<timer, flight, request, shown, unhydrated, channel, suspended, ended>>

\* getItem joins what the tab's storage holds, if anything, with the shared refresh
\* token.
Rehydrated(s) ==
    IF s.access # NoOne \/ s.expired THEN [s EXCEPT !.refresh = stored] ELSE SignedOut

Reload(t) ==
    /\ session' = [session EXCEPT ![t] = Rehydrated(@)]
    /\ PageLoad(t, session'[t])
    /\ channel' = [channel EXCEPT ![t] = <<>>]
    /\ ended' = IF LogoutPending(t) THEN ended \ {t} ELSE ended
    /\ UNCHANGED <<stored, suspended>>

\* The tab is closed and another opened, with a sessionStorage of its own.
NewTab(t) ==
    /\ session' = [session EXCEPT ![t] = SignedOut]
    /\ PageLoad(t, SignedOut)
    /\ channel' = [channel EXCEPT ![t] = <<>>]
    /\ UNCHANGED <<stored, suspended, ended>>

-----------------------------------------------------------------------------
(* The refresh of the access token: one at a time in a tab *)

\* refreshAccessToken in tab t: the refresh under way, or a new one, for which
\* setStatus writes to the store.  Without a refresh token the promise rejects
\* before the try and stays for ever.
StartRefresh(t) ==
    IF flight[t] = NoOne /\ session[t].refresh # NoOne
    THEN flight' = [flight EXCEPT ![t] = session[t].refresh] /\ SetStore(t, session[t])
    ELSE /\ flight' = [flight EXCEPT ![t] = IF @ = NoOne THEN Stuck ELSE @]
         /\ UNCHANGED <<session, stored>>

\* A request that becomes r waits for it, or fails with it at once.
AwaitRefresh(t, r) ==
    /\ StartRefresh(t)
    /\ request' = [request EXCEPT ![t] = IF flight'[t] \in Accounts THEN r ELSE Quiet]

\* scheduleProactiveRefresh: an hour before the end of the access token, also
\* in a tab that was logged out by a message and still has the timer.
TimerFires(t) ==
    /\ timer[t]
    /\ session[t].age = "old"
    /\ timer' = [timer EXCEPT ![t] = FALSE]
    /\ StartRefresh(t)
    /\ UNCHANGED <<request, shown, unhydrated, channel, suspended, ended>>

Sent(r, token, age) ==
    [at |-> "sent", header |-> r.header, retried |-> r.retried, wanted |-> r.wanted,
     token |-> token, expired |-> (age # "fresh")]

\* setAccessToken.
WithToken(s, a) == [s EXCEPT !.access = a, !.age = "fresh", !.expired = FALSE]

\* The refresh succeeds: the token goes into the store whatever became of the
\* session meanwhile, and to the other tabs.  A request that waits for it is
\* sent; one that was refused before looks at the session again.
RefreshDone(t) ==
    /\ flight[t] \in Accounts
    /\ LET a == flight[t]
           renewal == <<[type |-> "token-refreshed", access |-> a]>>
           lost == request[t].at = "waiting" /\ request[t].retried /\ session[t].refresh = NoOne
       IN  /\ a \notin suspended
           /\ IF lost
              THEN HardLogout(t, renewal)
              ELSE /\ SetStore(t, WithToken(session[t], a))
                   /\ timer' = [timer EXCEPT ![t] = TRUE]
                   /\ flight' = [flight EXCEPT ![t] = NoOne]
                   /\ request' = [request EXCEPT ![t] =
                                    IF @.at = "waiting" THEN Sent(@, a, "fresh") ELSE @]
                   /\ channel' = Posted(t, renewal)
                   /\ UNCHANGED <<shown, unhydrated, ended>>
    /\ UNCHANGED suspended

\* Any error, of the server or of the network, ends the session in all tabs.
RefreshFails(t) ==
    /\ flight[t] \in Accounts
    /\ HardLogout(t, <<>>)
    /\ UNCHANGED suspended

-----------------------------------------------------------------------------
(* Messages *)

\* Mutant: the cache survives a logout in another tab.
KeepCache(t) == shown[t]

\* Mutant: only the tokens are forgotten.
TokensDropped(s) == [s EXCEPT !.access = NoOne, !.refresh = NoOne]

\* clear() and clearSessionStorage() in the handler of a logout message.
Cleared(s) == SignedOut

\* queryClient.clear() in the handler of a logout message.
ClearCache(t) == NoOne

Deliver(t) ==
    /\ channel[t] # <<>>
    /\ channel' = [channel EXCEPT ![t] = Tail(@)]
    /\ LET message == Head(channel[t])
       IN  IF Renewed(message)
           THEN /\ SetStore(t, WithToken(session[t], message.access))
                /\ timer' = [timer EXCEPT ![t] = TRUE]
                /\ UNCHANGED <<request, shown>>
           ELSE /\ SetStore(t, Cleared(session[t]))
                /\ shown' = [shown EXCEPT ![t] = ClearCache(t)]
                /\ request' = [request EXCEPT ![t] =
                                 IF @ = Quiet THEN @ ELSE [@ EXCEPT !.wanted = FALSE]]
                /\ UNCHANGED timer
    /\ UNCHANGED <<flight, unhydrated, suspended, ended>>

-----------------------------------------------------------------------------
(* Requests of the admin pages *)

\* Mutant: the header is sent whatever it is.
HeaderUnchecked(t) == TRUE

\* businessIdHeader throws without a business.
HasHeader(t) == session[t].business # NoOne

\* adminRequest: without a business it throws before anything else; then
\* getValidAccessToken.
Ask(t) ==
    /\ request[t] = Quiet
    /\ t \in Asking \ unhydrated
    /\ Usable(t) /\ HasHeader(t)
    /\ LET r == [at |-> "waiting", header |-> session[t].business,
                 retried |-> FALSE, wanted |-> TRUE]
       IN  CASE ~Complete(t) -> HardLogout(t, <<>>)
             [] Complete(t) /\ session[t].age = "old" ->
                    AwaitRefresh(t, r) /\ UNCHANGED <<timer, shown, unhydrated, channel, ended>>
             [] OTHER ->
                    /\ request' = [request EXCEPT ![t] =
                                     Sent(r, session[t].access, session[t].age)]
                    /\ UNCHANGED <<session, stored, timer, flight, shown, unhydrated, channel, ended>>
    /\ UNCHANGED suspended

\* 401: once, after a refresh, it is sent again (and then with a token that the
\* server accepts).
Unauthorized(t) ==
    /\ request[t].at = "sent"
    /\ request[t].expired
    /\ ~request[t].retried
    /\ LET r == request[t]
       IN  AwaitRefresh(t, [at |-> "waiting", header |-> r.header,
                            retried |-> TRUE, wanted |-> r.wanted])
    /\ UNCHANGED <<timer, shown, unhydrated, channel, suspended, ended>>

\* 403 SUSPENDED: the tab is signed out; the others are not told.
Suspended(t) ==
    /\ request[t].at = "sent"
    /\ ~request[t].expired
    /\ request[t].token \in suspended
    /\ SetStore(t, Expelled)
    /\ PageLoad(t, Expelled)
    /\ channel' = [channel EXCEPT ![t] = <<>>]
    /\ UNCHANGED <<suspended, ended>>

\* BusinessMiddleware: the header must name the token's business.
Answered(t) ==
    /\ request[t].at = "sent"
    /\ ~request[t].expired
    /\ request[t].token \notin suspended
    /\ request' = [request EXCEPT ![t] = Quiet]
    /\ shown' = [shown EXCEPT ![t] =
                   IF request[t].wanted /\ request[t].header = request[t].token
                   THEN request[t].token ELSE @]
    /\ UNCHANGED <<session, timer, flight, unhydrated, stored, channel, suspended, ended>>

-----------------------------------------------------------------------------
(* The server and the clock *)

SuspendAccount(a) ==
    /\ a \in Suspendable \ suspended
    /\ suspended' = suspended \cup {a}
    /\ UNCHANGED <<inTab, stored, channel, ended>>

\* Hours pass: long enough for every message to arrive.
Age(t) ==
    /\ Usable(t)
    /\ \A u \in Tabs : channel[u] = <<>>
    /\ \E age \in Ages :
          /\ <<session[t].age, age>> \in {<<"fresh", "late">>, <<"fresh", "old">>, <<"late", "old">>}
          /\ session' = [session EXCEPT ![t].age = age]
    /\ UNCHANGED <<timer, flight, request, shown, unhydrated, stored, channel, suspended, ended>>

TabStep(t) ==
    \/ \E a \in Accounts : Login(t, a)
    \/ Logout(t)
    \/ ChooseOutlet(t)
    \/ Reload(t)
    \/ NewTab(t)
    \/ TimerFires(t)
    \/ RefreshDone(t)
    \/ RefreshFails(t)
    \/ Deliver(t)
    \/ Ask(t)
    \/ Unauthorized(t)
    \/ Suspended(t)
    \/ Answered(t)

Next ==
    \/ \E t \in Tabs : TabStep(t) \/ Age(t)
    \/ \E a \in Accounts : SuspendAccount(a)

Spec == Init /\ [][Next]_vars

-----------------------------------------------------------------------------
(* What the session promises *)

\* Data of a business is in a tab's cache only while the tab's session is that
\* business's, although the tokens of several businesses meet in one browser
\* (queryClient.clear, BusinessMiddleware).
OwnDataOnly == \A t \in Tabs : shown[t] \in {NoOne, session[t].business}

\* An admin page that knows its business has both tokens to work with, although the
\* storages they come from part when a page load loses a logout: half a session with a
\* business is found only by pages that then wait for their hydration
\* (onRehydrateStorage).
PagesHaveTokens ==
    \A t \in Tabs \ unhydrated : session[t].business # NoOne => Complete(t)

\* A logout in one tab ends the sessions of all: once the message has been delivered, a
\* tab that had a session knows no business until its own next login, whatever
\* renewals were under way to it or in it, and however its pages are loaded again
\* (the handler of authChannel).
LogoutReachesAll ==
    \A t \in ended : session[t].business # NoOne => LogoutPending(t)

\* Whoever has a session has its renewal before it: the timer is set, or a
\* refresh is under way (or stuck), after any reload, and whatever renewals and
\* logouts of other tabs came in between (scheduleProactiveRefresh,
\* RootProviders).
RenewalScheduled == \A t \in Tabs : Complete(t) => timer[t] \/ flight[t] # NoOne
=============================================================================
