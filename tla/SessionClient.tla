---------------------------- MODULE SessionClient ----------------------------
(***************************************************************************)
(* The session of one browser tab of the single-page application:          *)
(*                                                                         *)
(*   utils/http.ts        the axios interceptors: refresh and replay of a  *)
(*                        request that was answered 401, retry of reads,   *)
(*                        deduplication of writes in flight                *)
(*   utils/refresh.ts     POST /auth/refresh                               *)
(*   store/auth.ts        the session kept in memory, initializeAuth,      *)
(*   store/authPolicy.ts  fetchUser                                        *)
(*   App.tsx, components/ProtectedRoute.tsx                                *)
(*                        where an expired session leads                   *)
(*   Layout, Login, Register, Profile   what opens and ends a session      *)
(*                                                                         *)
(* The chat's stream refreshes outside http.ts: that is in AskChat.        *)
(*                                                                         *)
(* The server (module AuthSession) is what the client depends on: one live *)
(* refresh token, replaced by each refresh, in a cookie the tabs share.    *)
(***************************************************************************)
EXTENDS Naturals, FiniteSets

CONSTANTS
  Users,
  Calls,      \* concurrent requests of the mounted page
  Me,         \* the request of fetchUser
  NoUser,
  MaxSerial,  \* bound on the token pairs issued
  MaxFaults   \* bound on lost answers, revocations, reloads and other tabs

ASSUME SessionAssumption ==
  /\ NoUser \notin Users /\ Me \notin Calls
  /\ {"none", "init"} \cap (Calls \cup {Me}) = {}
  /\ MaxSerial \in Nat /\ MaxFaults \in Nat

VARIABLES
  srv,       \* the server's view: live refresh token, access tokens, whose they are
  jar,       \* the refresh token in the cookie jar, 0: none
  store,     \* useAuthStore
  task,      \* refreshTokenTask: the flight calls wait on, or "none"
  flight,    \* requests to /auth/refresh
  init,      \* initializeAuthTask
  call,      \* requests through http
  guard,     \* sessionExpiredHandled
  route,     \* the location and the return address in its state
  drafts,    \* users with an editor draft in localStorage
  told,      \* 1 once an expiry has been told of since the session was opened
  lost,      \* something other than this tab's own refreshes ended the session
  faults

vars == <<srv, jar, store, task, flight, init, call, guard, route, drafts, told, lost, faults>>
session == <<store, guard, drafts, told>>

AllCalls == Calls \cup {Me}
Flights  == AllCalls \cup {"init"}
Public   == {"home", "login"}
Guarded  == {"profile", "editor"}

NoCall   == [phase |-> "idle", op |-> "get", token |-> 0, retry |-> FALSE, net |-> FALSE,
             status |-> "none", lead |-> "none", wait |-> "none", runs |-> 0, who |-> NoUser]
NoFlight == [phase |-> "idle", cookie |-> 0, token |-> 0]
NoStore  == [user |-> NoUser, token |-> 0, fetching |-> FALSE, ready |-> FALSE]

\* A visitor comes with the cookie of an earlier session, or without one.
Init ==
  /\ \E u \in Users, c \in {0, 1} :
       /\ srv = [live |-> c, access |-> {}, owner |-> u, serial |-> c]
       /\ jar = c
  /\ store = NoStore /\ task = "none" /\ init = "idle" /\ guard = FALSE
  /\ flight = [f \in Flights |-> NoFlight]
  /\ call = [c \in AllCalls |-> NoCall]
  /\ \E p \in Public \cup Guarded : route = [at |-> p, from |-> "none", expired |-> "none"]
  /\ drafts = {} /\ told = 0 /\ lost = FALSE /\ faults = 0

------------------------------------------------------------------------------
(* The store.                                                              *)

\* clearEditorDraftsForUser, for a user the store lets go of.
DraftsWithout(u) == drafts \ {u}
LetGo(u) == IF store.user # u THEN DraftsWithout(store.user) ELSE drafts

\* Broken variant: the drafts of who signs out are left behind.
KeepDrafts == /\ store' = [NoStore EXCEPT !.ready = TRUE]
              /\ guard' = FALSE /\ UNCHANGED drafts

\* logout: also tells http.ts, which takes the expiry as not handled yet.
ClearSession ==
  /\ store' = [NoStore EXCEPT !.ready = TRUE]
  /\ drafts' = DraftsWithout(store.user)
  /\ guard' = FALSE

\* What setAuth(null, token) of Login and Register leaves in the store.
SetAuth(token) == [store EXCEPT !.user = NoUser, !.token = token, !.ready = TRUE]

\* Broken variant: navigates again from the login page.
ToLoginAgain(r) ==
  [at |-> "login", from |-> r.at,
   expired |-> IF r.expired = "none" /\ r.at # "login" THEN r.at ELSE r.expired]

\* The handler App registers: to the login page, with the way back, unless there.
ToLogin(r) ==
  IF r.at = "login" THEN r
  ELSE [at |-> "login", from |-> r.at,
        expired |-> IF r.expired = "none" THEN r.at ELSE r.expired]

------------------------------------------------------------------------------
(* Requests.                                                               *)

\* The request interceptor puts the token of the moment on every request.
HeaderToken(given) == IF store.token # 0 THEN store.token ELSE given

\* buildDedupeKey: a write that is no replay may be shared while it is in flight.
Shared(c, token) ==
  {d \in Calls \ {c} : /\ call[d].op = "write" /\ call[d].phase \in {"sent", "answered"}
                       /\ call[d].lead = "none" /\ ~call[d].retry
                       /\ call[d].token = token}

\* A page sends a request: the home page without a session too.
Send(c, op) ==
  /\ call[c].phase = "idle" /\ route.at # "login"
  /\ route.at \in Public => op = "get"
  /\ route.at \in Guarded => store.token # 0 /\ store.user # NoUser /\ ~store.fetching
  /\ LET lead == IF op = "write" THEN Shared(c, store.token) ELSE {} IN
     call' = [call EXCEPT ![c] = [NoCall EXCEPT
               !.op = op, !.token = store.token,
               !.phase = IF lead = {} THEN "sent" ELSE "joined",
               !.lead = IF lead = {} THEN "none" ELSE CHOOSE d \in lead : TRUE]]
  /\ UNCHANGED <<srv, jar, session, task, flight, init, route, lost, faults>>

\* The server takes a token it knows, and reads without any.
Taken(k) == k.token \in srv.access \/ (k.token = 0 /\ k.op = "get")

\* The server answers; a token it does not take is refused before anything is done.
\* runs: how often it has carried a write out.
ServedAs(k, status, who) ==
  [k EXCEPT !.phase = "answered", !.who = who,
            !.status = IF Taken(k) THEN status ELSE "401",
            !.runs = @ + (IF k.op = "write" /\ Taken(k) /\ status = "200" THEN 1 ELSE 0)]

\* Which other answer a page's request gets is no matter of the session.
Serve(c) ==
  /\ call[c].phase = "sent"
  /\ \E status \in {"200", "err"} :
       /\ status = "200" \/ (Taken(call[c]) /\ c = Me)
       /\ call' = [call EXCEPT ![c] = ServedAs(@, status, IF c = Me THEN srv.owner ELSE NoUser)]
  /\ UNCHANGED <<srv, jar, session, task, flight, init, route, lost, faults>>

\* The connection breaks, before or after the server has done the work.
Break(c) ==
  /\ faults < MaxFaults /\ faults' = faults + 1
  /\ \/ call[c].phase = "sent"
     \/ call[c].phase = "answered" /\ call[c].status # "net"
  /\ call' = [call EXCEPT ![c] = [@ EXCEPT !.phase = "answered", !.status = "net"]]
  /\ UNCHANGED <<srv, jar, session, task, flight, init, route, lost>>

\* The answer of a shared write reaches the callers that joined it; a 401 has been
\* marked as retried by the first of them.
Joined(c) == {d \in Calls : call[d].phase = "joined" /\ call[d].lead = c}
Settled(c) == [d \in AllCalls |-> IF d = c \/ d \in Joined(c) THEN NoCall ELSE call[d]]
SettledFollowers(c) == [d \in AllCalls |-> IF d \in Joined(c) THEN NoCall ELSE call[d]]

Again(k, token) == [k EXCEPT !.phase = "sent", !.token = HeaderToken(token), !.status = "none"]

\* Broken variant: writes are sent again, too.
NetworkRetryAny(c) == ~call[c].net

\* shouldNetworkRetry: reads only, once.
NetworkRetry(c) == call[c].op = "get" /\ ~call[c].net

\* The answer of a request other than fetchUser's that is not retried.
Finish(c) ==
  /\ c # Me /\ call[c].phase = "answered"
  /\ \/ call[c].status \in {"200", "err"}
     \/ call[c].status = "401" /\ call[c].retry
     \/ call[c].status = "net" /\ ~NetworkRetry(c)
  /\ call' = Settled(c)
  /\ UNCHANGED <<srv, jar, session, task, flight, init, route, lost, faults>>

RetryRead(c) ==
  /\ call[c].phase = "answered" /\ call[c].status = "net" /\ NetworkRetry(c)
  /\ call' = [call EXCEPT ![c] = [Again(@, @.token) EXCEPT !.net = TRUE]]
  /\ UNCHANGED <<srv, jar, session, task, flight, init, route, lost, faults>>

Rejected401(c) == call[c].phase = "answered" /\ call[c].status = "401" /\ ~call[c].retry

\* A 401 of a token the tab has already replaced: replayed with the new one.
Stale(c) == call[c].token # 0 /\ store.token # 0 /\ call[c].token # store.token
Replay(c) ==
  /\ Rejected401(c) /\ Stale(c)
  /\ call' = [SettledFollowers(c) EXCEPT ![c] = [Again(@, store.token) EXCEPT !.retry = TRUE]]
  /\ UNCHANGED <<srv, jar, session, task, flight, init, route, lost, faults>>

\* Broken variant: each 401 refreshes for itself.
FlightForEach(c) == c

\* getRefreshTokenTask: the flight under way, or a new one with the cookie of now.
FlightFor(c) == IF task # "none" THEN task ELSE c

Depart(f) == [flight EXCEPT ![f] = [phase |-> "sent", cookie |-> jar, token |-> 0]]

AwaitRefresh(c) ==
  /\ Rejected401(c) /\ ~Stale(c)
  /\ LET f == FlightFor(c) IN
     /\ call' = [SettledFollowers(c) EXCEPT
                 ![c] = [@ EXCEPT !.phase = "refreshing", !.status = "none", !.token = 0,
                                  !.retry = TRUE, !.wait = f]]
     /\ task' = f
     /\ flight' = IF flight[f].phase = "idle" THEN Depart(f) ELSE flight
  /\ UNCHANGED <<srv, jar, session, init, route, lost, faults>>

------------------------------------------------------------------------------
(* Refreshing.                                                             *)

\* The server replaces the refresh token it was shown, if it is the live one; past
\* the bound the session is too old to be refreshed.
ServeRefresh(f) ==
  /\ flight[f].phase = "sent"
  /\ LET in    == flight[f].cookie # 0 /\ flight[f].cookie = srv.live
         fresh == srv.serial + 1 IN
     IF in /\ fresh <= MaxSerial
     THEN /\ srv' = [srv EXCEPT !.live = fresh, !.serial = fresh, !.access = @ \cup {fresh}]
          /\ flight' = [flight EXCEPT ![f] = [@ EXCEPT !.phase = "good", !.token = fresh]]
          /\ UNCHANGED lost
     ELSE /\ flight' = [flight EXCEPT ![f] = [@ EXCEPT !.phase = "refused"]]
          /\ lost' = (lost \/ in) /\ UNCHANGED srv
  /\ UNCHANGED <<jar, session, task, init, call, route, faults>>

\* The refresh times out, before or after the server has replaced the token.
BreakRefresh(f) ==
  /\ faults < MaxFaults /\ faults' = faults + 1
  /\ flight[f].phase \in {"sent", "good"}
  /\ flight' = [flight EXCEPT ![f] = [@ EXCEPT !.phase = "broken"]] /\ lost' = TRUE
  /\ UNCHANGED <<srv, jar, session, task, init, call, route>>

Landed(f) == flight' = [flight EXCEPT ![f] = NoFlight]
Waiting(f) == {c \in AllCalls : call[c].phase = "refreshing" /\ call[c].wait = f}

\* refreshAccessTokenInStore, and the calls that waited go out with the new token.
Refreshed(f) ==
  /\ f # "init" /\ flight[f].phase = "good"
  /\ jar' = flight[f].token /\ Landed(f)
  /\ store' = [store EXCEPT !.token = flight[f].token, !.ready = TRUE] /\ guard' = FALSE
  /\ task' = IF task = f THEN "none" ELSE task
  /\ call' = [c \in AllCalls |->
               IF c \in Waiting(f)
               THEN [call[c] EXCEPT !.phase = "sent", !.token = flight[f].token,
                                    !.status = "none", !.wait = "none"]
               ELSE call[c]]
  /\ UNCHANGED <<srv, init, route, drafts, told, lost, faults>>

\* The refresh failed, for whatever reason: each waiting call goes on by itself.
RefreshFailed(f) ==
  /\ f # "init" /\ flight[f].phase \in {"refused", "broken"}
  /\ Landed(f)
  /\ task' = IF task = f THEN "none" ELSE task
  /\ call' = [c \in AllCalls |->
               IF c \in Waiting(f)
               THEN [call[c] EXCEPT !.phase = "expired", !.wait = "none"]
               ELSE call[c]]
  /\ UNCHANGED <<srv, jar, session, init, route, lost, faults>>

\* handleSessionExpired for one of them: the flag that is to keep the second from
\* doing it again is taken back by the event of the logout it calls.
SessionExpired(c) ==
  /\ c # Me /\ call[c].phase = "expired"
  /\ ClearSession
  /\ told' = IF guard THEN told ELSE 1
  /\ route' = IF guard THEN route ELSE ToLogin(route)
  /\ call' = Settled(c)
  /\ UNCHANGED <<srv, jar, task, flight, init, lost, faults>>

------------------------------------------------------------------------------
(* initializeAuth and fetchUser.                                           *)

\* Once per load of the page; the second run of StrictMode shares the task.
InitializeAuth ==
  /\ init = "idle" /\ ~store.ready
  /\ init' = "refresh" /\ flight' = Depart("init")
  /\ UNCHANGED <<srv, jar, session, task, call, route, lost, faults>>

AskWhoAmI == call' = [call EXCEPT ![Me] = [NoCall EXCEPT !.phase = "sent", !.token = store'.token]]

InitRefreshed ==
  /\ flight["init"].phase = "good"
  /\ jar' = flight["init"].token /\ Landed("init")
  /\ store' = [store EXCEPT !.token = flight["init"].token, !.ready = TRUE, !.fetching = TRUE]
  /\ init' = "fetch" /\ AskWhoAmI
  /\ UNCHANGED <<srv, task, guard, route, drafts, told, lost, faults>>

InitFailed ==
  /\ flight["init"].phase \in {"refused", "broken"}
  /\ Landed("init") /\ init' = "idle" /\ ClearSession
  /\ UNCHANGED <<srv, jar, task, call, route, told, lost, faults>>

FetchDone == /\ call' = [call EXCEPT ![Me] = NoCall]
             /\ init' = IF init = "fetch" THEN "idle" ELSE init

UserFetched ==
  /\ call[Me].phase = "answered" /\ call[Me].status = "200" /\ FetchDone
  /\ store' = [store EXCEPT !.user = call[Me].who, !.ready = TRUE, !.fetching = FALSE]
  /\ drafts' = LetGo(call[Me].who)
  /\ UNCHANGED <<srv, jar, task, flight, guard, route, told, lost, faults>>

\* resolveFetchUserFailure: 401 and 403 end the session, anything else leaves it.
ForgetUser ==
  /\ store' = [store EXCEPT !.user = NoUser, !.token = 0, !.ready = TRUE, !.fetching = FALSE]
  /\ drafts' = LetGo(NoUser)

FetchFailed ==
  /\ call[Me].phase = "answered" /\ FetchDone
  /\ \/ call[Me].status = "401" /\ call[Me].retry /\ ForgetUser /\ route' = ToLogin(route)
     \/ /\ call[Me].status = "err"
        /\ \/ ForgetUser /\ route' = ToLogin(route) /\ lost' = TRUE
           \/ /\ store' = [store EXCEPT !.ready = TRUE, !.fetching = FALSE]
              /\ UNCHANGED <<drafts, route, lost>>
     \/ /\ call[Me].status = "net" /\ call[Me].net
        /\ store' = [store EXCEPT !.ready = TRUE, !.fetching = FALSE]
        /\ UNCHANGED <<drafts, route>>
  /\ call[Me].status # "err" => UNCHANGED lost
  /\ UNCHANGED <<srv, jar, task, flight, guard, told, faults>>

\* The refresh it waited for failed: handleSessionExpired, then the failure of fetchUser.
FetchExpired ==
  /\ call[Me].phase = "expired" /\ FetchDone
  /\ ClearSession
  /\ told' = IF guard THEN told ELSE 1
  /\ route' = ToLogin(route)
  /\ UNCHANGED <<srv, jar, task, flight, lost, faults>>

------------------------------------------------------------------------------
(* The pages.                                                              *)

\* submitLogin: the form shows once the session of an earlier visit has been looked
\* for; the server opens a session and the page asks whose it is.
Login(u) ==
  /\ route.at = "login" /\ store.ready /\ ~store.fetching
  /\ store.token = 0 \/ store.user = NoUser
  /\ call[Me].phase = "idle" /\ srv.serial < MaxSerial
  /\ LET fresh == srv.serial + 1 IN
     /\ srv' = [live |-> fresh, access |-> srv.access \cup {fresh}, owner |-> u, serial |-> fresh]
     /\ jar' = fresh
     /\ store' = [SetAuth(fresh) EXCEPT !.fetching = TRUE]
     /\ drafts' = LetGo(NoUser) /\ guard' = FALSE
  /\ AskWhoAmI
  \* what is under way for the earlier session may still end this one
  /\ told' = 0 /\ lost' = (\/ \E f \in Flights : flight[f].phase # "idle"
                           \/ \E c \in Calls : call[c].phase # "idle")
  /\ UNCHANGED <<task, flight, init, route, faults>>

\* The login page leads back once there is a user; an address of its own is no way back.
LoginRedirect ==
  /\ route.at = "login"
  /\ store.ready /\ ~store.fetching /\ store.token # 0 /\ store.user # NoUser
  /\ route' = [at |-> IF route.from \in {"none", "login"} THEN "home" ELSE route.from,
               from |-> "none", expired |-> "none"]
  /\ UNCHANGED <<srv, jar, session, task, flight, init, call, lost, faults>>

\* ProtectedRoute without a session.
RouteGuard ==
  /\ route.at \in Guarded /\ store.ready /\ ~store.fetching
  /\ store.token = 0 \/ store.user = NoUser
  /\ route' = ToLogin(route)
  /\ UNCHANGED <<srv, jar, session, task, flight, init, call, lost, faults>>

\* The reader follows a link.
Navigate(p) ==
  /\ route.at # p
  /\ route.at = "login" => store.token = 0 \/ store.user = NoUser
  /\ route' = [at |-> p, from |-> "none", expired |-> "none"]
  /\ UNCHANGED <<srv, jar, session, task, flight, init, call, lost, faults>>

\* handleLogout of the header: the session stays where the server could not be told.
HandleLogout ==
  /\ store.user # NoUser
  /\ \/ /\ srv' = IF jar = srv.live THEN [srv EXCEPT !.live = 0] ELSE srv
        /\ jar' = 0 /\ lost' = TRUE /\ ClearSession /\ UNCHANGED faults
        /\ route' = [at |-> "home", from |-> "none", expired |-> "none"]
     \/ /\ srv.live = 0 /\ lost' = TRUE /\ ClearSession /\ UNCHANGED <<srv, jar, faults>>
        /\ route' = [at |-> "home", from |-> "none", expired |-> "none"]
     \/ /\ faults < MaxFaults /\ faults' = faults + 1 /\ lost' = TRUE
        /\ srv' = IF jar = srv.live THEN [srv EXCEPT !.live = 0] ELSE srv
        /\ UNCHANGED <<jar, store, drafts, guard, route>>
  /\ UNCHANGED <<task, flight, init, call, told>>

\* updateCurrentUser of the profile page, which reads the user again.
UpdateProfile ==
  /\ route.at = "profile" /\ store.user # NoUser /\ ~store.fetching
  /\ store.token \in srv.access /\ call[Me].phase = "idle"
  /\ store' = [store EXCEPT !.fetching = TRUE] /\ AskWhoAmI
  /\ UNCHANGED <<srv, jar, task, flight, init, guard, route, drafts, told, lost, faults>>

\* handleUpdatePassword: every session of the account is over, this one included.
UpdatePassword ==
  /\ route.at = "profile" /\ store.user # NoUser /\ ~store.fetching
  /\ store.token \in srv.access
  /\ srv' = [srv EXCEPT !.live = 0, !.access = {}] /\ lost' = TRUE
  /\ ClearSession
  /\ route' = [at |-> "login", from |-> "none", expired |-> "none"]
  /\ UNCHANGED <<jar, task, flight, init, call, told, faults>>

\* The editor keeps a draft of its user in localStorage.
SaveDraft ==
  /\ route.at = "editor" /\ store.user # NoUser /\ store.token # 0 /\ ~store.fetching
  /\ store.user \notin drafts
  /\ drafts' = drafts \cup {store.user}
  /\ UNCHANGED <<srv, jar, store, task, flight, init, call, guard, route, told, lost, faults>>

------------------------------------------------------------------------------
(* The rest of the world.                                                  *)

\* Everything in memory is gone; an answer under way may still set its cookie.
Reload ==
  /\ faults < MaxFaults /\ faults' = faults + 1
  /\ jar' \in {jar} \cup {flight[f].token : f \in {g \in Flights : flight[g].phase = "good"}}
  /\ lost' = (lost \/ \E f \in Flights : flight[f].phase # "idle")
  /\ store' = NoStore /\ task' = "none" /\ init' = "idle" /\ guard' = FALSE /\ told' = 0
  /\ flight' = [f \in Flights |-> NoFlight] /\ call' = [c \in AllCalls |-> NoCall]
  /\ UNCHANGED <<srv, route, drafts>>

\* Access tokens live for minutes.
AccessExpires ==
  /\ srv.access # {} /\ srv' = [srv EXCEPT !.access = {}]
  /\ UNCHANGED <<jar, session, task, flight, init, call, route, lost, faults>>

\* An administrator, or a change of the password elsewhere, ends the session.
RevokeSession ==
  /\ faults < MaxFaults /\ faults' = faults + 1 /\ srv.live # 0
  /\ srv' = [srv EXCEPT !.live = 0, !.access = {}] /\ lost' = TRUE
  /\ UNCHANGED <<jar, session, task, flight, init, call, route>>

\* Another tab refreshes with the cookie of both.
OtherTab ==
  /\ faults < MaxFaults /\ faults' = faults + 1
  /\ jar # 0 /\ jar = srv.live /\ srv.serial < MaxSerial
  /\ srv' = [srv EXCEPT !.live = srv.serial + 1, !.serial = @ + 1]
  /\ jar' = srv.serial + 1 /\ lost' = TRUE
  /\ UNCHANGED <<session, task, flight, init, call, route>>

\* What the response interceptor makes of an answer.
Answer(c) == Finish(c) \/ RetryRead(c) \/ Replay(c) \/ AwaitRefresh(c) \/ SessionExpired(c)
Land(f)   == Refreshed(f) \/ RefreshFailed(f)

Next ==
  \/ \E c \in Calls : \E op \in {"get", "write"} : Send(c, op)
  \/ \E c \in AllCalls : Serve(c) \/ Break(c) \/ Answer(c)
  \/ \E f \in Flights : ServeRefresh(f) \/ BreakRefresh(f) \/ Land(f)
  \/ InitializeAuth \/ InitRefreshed \/ InitFailed
  \/ UserFetched \/ FetchFailed \/ FetchExpired
  \/ \E u \in Users : Login(u)
  \/ LoginRedirect \/ RouteGuard
  \/ \E p \in Public \cup Guarded : Navigate(p)
  \/ HandleLogout \/ UpdateProfile \/ UpdatePassword \/ SaveDraft
  \/ Reload \/ AccessExpires \/ RevokeSession \/ OtherTab

Spec == Init /\ [][Next]_vars

------------------------------------------------------------------------------
\* Whatever is replayed after a refresh, repeated after a broken connection or shared
\* while in flight, the server carries out a submitted write at most once per
\* submission (the response interceptor and the adapter of http.ts).
WriteOnce == \A c \in Calls : call[c].op = "write" => call[c].runs <= 1

\* The refreshes of http.ts and initializeAuth, which replace the token they are made with,
\* never end the tab's own session: it takes a revocation, another tab, a broken refresh or
\* the end of the session (getRefreshTokenTask, and the comparison of tokens before it).
OwnRotationKeepsSession == told > 0 => lost

\* However many failures report the expiry, and whether the route guard or the handler
\* is first, the login page knows the page to return to (App's handler, ProtectedRoute).
ReturnsWhereItExpired ==
  route.at = "login" /\ route.expired # "none" => route.from = route.expired

\* Whichever way the tab lets go of a user - logout, expiry, another user, a user the
\* server no longer knows - no draft of that user is left in the browser.
DraftsEndWithSession ==
  [][store.user # NoUser /\ store'.user # store.user /\ store' # NoStore
     => store.user \notin drafts']_vars
=============================================================================
