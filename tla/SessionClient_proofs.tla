------------------------ MODULE SessionClient_proofs ------------------------
(***************************************************************************)
(* Proofs about SessionClient for any number of users, requests, token     *)
(* pairs and faults.                                                       *)
(***************************************************************************)
EXTENDS SessionClient, TLAPS

Phases   == {"idle", "sent", "joined", "answered", "refreshing", "expired"}
Statuses == {"none", "200", "err", "401", "net"}
Requests == [phase : Phases, op : {"get", "write"}, token : Nat, retry : BOOLEAN,
             net : BOOLEAN, status : Statuses, lead : Calls \cup {"none"},
             wait : Flights \cup {"none"}, runs : Nat, who : Users \cup {NoUser}]
Refreshes == [phase : {"idle", "sent", "good", "refused", "broken"}, cookie : Nat, token : Nat]
Pages == Public \cup Guarded \cup {"none"}

Srv    == [live : Nat, access : SUBSET Nat, owner : Users, serial : Nat]
Store  == [user : Users \cup {NoUser}, token : Nat, fetching : BOOLEAN, ready : BOOLEAN]
Routes == [at : Public \cup Guarded, from : Pages, expired : Pages]

TypeOK ==
  /\ srv \in Srv /\ jar \in Nat /\ store \in Store
  /\ task \in AllCalls \cup {"none"}
  /\ flight \in [Flights -> Refreshes]
  /\ init \in {"idle", "refresh", "fetch"}
  /\ call \in [AllCalls -> Requests]
  /\ guard \in BOOLEAN /\ route \in Routes /\ drafts \in SUBSET Users
  /\ told \in 0 .. 1 /\ lost \in BOOLEAN /\ faults \in Nat

\* What has not been answered yet, or was refused, the server has not carried out.
WriteOf(k) ==
  k.op = "write" =>
    /\ k.runs <= 1
    /\ \/ k.phase \in {"sent", "joined", "refreshing"}
       \/ k.phase = "answered" /\ k.status = "401"
       => k.runs = 0
WriteInv == \A c \in Calls : WriteOf(call[c])

\* Only the login page has been led to by an expiry.
WayInv ==
  /\ ReturnsWhereItExpired
  /\ route.at # "login" => route.expired = "none"

\* A tab in which nobody is signed in, and nothing was sent in anybody's name.
Fresh ==
  /\ store.token = 0 /\ store.user = NoUser /\ task = "none" /\ call[Me].phase = "idle"
  /\ \A c \in Calls :
       /\ call[c].phase \in {"idle", "sent", "answered"} /\ call[c].status # "401"
       /\ call[c].op = "get" /\ call[c].token = 0

Flying(f) == flight[f].phase # "idle"

\* One refresh at a time; that of initializeAuth is over before anything else may refresh.
FlightInv ==
  /\ \A f \in AllCalls : Flying(f) => task = f
  /\ Flying("init") => ~store.ready /\ init = "refresh"
  /\ ~store.ready => Fresh

\* The browser has no cookie, or the one of a live session, unless a refresh under way
\* has just replaced it.
Visiting ==
  /\ jar = 0 /\ Fresh
  /\ \A f \in Flights : Flying(f) => flight[f].phase \in {"sent", "refused"} /\ flight[f].cookie = 0
SignedIn ==
  /\ srv.live # 0
  /\ \A f \in Flights : Flying(f) =>
       \/ flight[f].phase = "sent" /\ flight[f].cookie = srv.live /\ jar = srv.live
       \/ flight[f].phase = "good" /\ flight[f].token = srv.live
  /\ (\A f \in Flights : ~Flying(f)) => jar = srv.live

KeptInv ==
  ~lost => /\ told = 0 /\ \A c \in AllCalls : call[c].phase # "expired"
           /\ Visiting \/ SignedIn

------------------------------------------------------------------------------
(* Types.                                                                  *)

LEMMA ShapesOfNothing ==
  NoCall \in Requests /\ NoFlight \in Refreshes /\ NoStore \in Store
BY DEF NoCall, NoFlight, NoStore, Requests, Refreshes, Store, Phases, Statuses

LEMMA OneRequest ==
  ASSUME NEW g \in [AllCalls -> Requests], NEW c \in AllCalls, NEW r \in Requests
  PROVE  [g EXCEPT ![c] = r] \in [AllCalls -> Requests]
OBVIOUS

LEMMA SettledType ==
  ASSUME TypeOK, NEW c \in AllCalls
  PROVE  Settled(c) \in [AllCalls -> Requests] /\ SettledFollowers(c) \in [AllCalls -> Requests]
BY ShapesOfNothing DEF TypeOK, Settled, SettledFollowers

LEMMA DepartType ==
  ASSUME TypeOK, NEW f \in Flights
  PROVE  Depart(f) \in [Flights -> Refreshes]
<1>1. [phase |-> "sent", cookie |-> jar, token |-> 0] \in Refreshes
  BY DEF TypeOK, Refreshes
<1> QED
  BY <1>1 DEF TypeOK, Depart

LEMMA LandedType ==
  ASSUME TypeOK, NEW f \in Flights, Landed(f)
  PROVE  flight' \in [Flights -> Refreshes]
BY ShapesOfNothing DEF TypeOK, Landed

LEMMA AgainType ==
  ASSUME TypeOK, NEW k \in Requests, NEW t \in Nat
  PROVE  Again(k, t) \in Requests
<1>1. HeaderToken(t) \in Nat
  BY DEF TypeOK, Store, HeaderToken
<1> DEFINE h == HeaderToken(t)
<1>2. [k EXCEPT !.phase = "sent", !.token = h, !.status = "none"] \in Requests
  BY <1>1 DEF Requests, Phases, Statuses
<1> QED
  BY <1>2 DEF Again

LEMMA ServedType ==
  ASSUME NEW k \in Requests, NEW status \in {"200", "err"}, NEW u \in Users \cup {NoUser}
  PROVE  ServedAs(k, status, u) \in Requests
<1> DEFINE s == IF Taken(k) THEN status ELSE "401"
           n == k.runs + (IF k.op = "write" /\ Taken(k) /\ status = "200" THEN 1 ELSE 0)
<1>1. s \in Statuses /\ n \in Nat
  BY DEF Requests, Statuses
<1>2. ServedAs(k, status, u) = [k EXCEPT !.phase = "answered", !.who = u, !.status = s, !.runs = n]
  BY DEF ServedAs
<1> HIDE DEF s, n
<1>3. [k EXCEPT !.phase = "answered", !.who = u, !.status = s, !.runs = n] \in Requests
  BY <1>1 DEF Requests, Phases
<1> QED
  BY <1>2, <1>3

LEMMA ToLoginType ==
  ASSUME TypeOK
  PROVE  ToLogin(route) \in Routes
BY DEF TypeOK, ToLogin, Routes, Pages, Public

LEMMA ClearSessionType ==
  ASSUME TypeOK, ClearSession
  PROVE  store' \in Store /\ drafts' \in SUBSET Users /\ guard' \in BOOLEAN
BY ShapesOfNothing DEF TypeOK, ClearSession, NoStore, Store, DraftsWithout

LEMMA LetGoType ==
  ASSUME TypeOK, NEW u
  PROVE  LetGo(u) \in SUBSET Users
BY DEF TypeOK, LetGo, DraftsWithout

LEMMA AskType ==
  ASSUME TypeOK, AskWhoAmI, store' \in Store
  PROVE  call' \in [AllCalls -> Requests]
<1>1. [NoCall EXCEPT !.phase = "sent", !.token = store'.token] \in Requests
  BY ShapesOfNothing DEF Requests, Phases, Store
<1>2. Me \in AllCalls
  BY DEF AllCalls
<1> QED
  BY <1>1, <1>2, OneRequest DEF TypeOK, AskWhoAmI

LEMMA FetchDoneType ==
  ASSUME TypeOK, FetchDone
  PROVE  call' \in [AllCalls -> Requests] /\ init' \in {"idle", "refresh", "fetch"}
BY ShapesOfNothing, OneRequest DEF TypeOK, FetchDone, AllCalls

LEMMA TypeInit == Init => TypeOK
<1> SUFFICES ASSUME Init PROVE TypeOK
  OBVIOUS
<1>1. srv \in Srv /\ jar \in Nat
  BY DEF Init, Srv
<1>2. route \in Routes
  BY DEF Init, Routes, Pages
<1>3. call \in [AllCalls -> Requests] /\ flight \in [Flights -> Refreshes] /\ store \in Store
  BY ShapesOfNothing DEF Init
<1>4. guard \in BOOLEAN /\ lost \in BOOLEAN /\ drafts \in SUBSET Users
  BY DEF Init
<1>5. told \in 0 .. 1 /\ faults \in Nat
  BY DEF Init
<1>6. task \in AllCalls \cup {"none"} /\ init \in {"idle", "refresh", "fetch"}
  BY DEF Init
<1> QED
  BY <1>1, <1>2, <1>3, <1>4, <1>5, <1>6 DEF TypeOK

LEMMA TypeOfAnswer ==
  ASSUME TypeOK, NEW c \in AllCalls,
         \/ Serve(c) \/ Break(c) \/ Answer(c)
         \/ c \in Calls /\ \E o \in {"get", "write"} : Send(c, o)
  PROVE  TypeOK'
<1> USE SessionAssumption
<1>k. call[c] \in Requests /\ call[c].token \in Nat /\ call[c].runs \in Nat
  BY DEF TypeOK, Requests
<1>1. ASSUME NEW o \in {"get", "write"}, Send(c, o), c \in Calls
      PROVE  TypeOK'
  <2> DEFINE lead == IF o = "write" THEN Shared(c, store.token) ELSE {}
             r == [NoCall EXCEPT !.op = o, !.token = store.token,
                                 !.phase = IF lead = {} THEN "sent" ELSE "joined",
                                 !.lead = IF lead = {} THEN "none" ELSE CHOOSE d \in lead : TRUE]
  <2>1. lead # {} => (CHOOSE d \in lead : TRUE) \in Calls
    BY DEF Shared
  <2>2. store.token \in Nat
    BY DEF TypeOK, Store
  <2>3. r \in Requests
    BY <2>1, <2>2, ShapesOfNothing DEF Requests, Phases
  <2>4. call' = [call EXCEPT ![c] = r]
    BY <1>1 DEF Send
  <2>5. UNCHANGED <<srv, jar, session, task, flight, init, route, lost, faults>>
    BY <1>1 DEF Send
  <2> QED
    BY <2>3, <2>4, <2>5, OneRequest DEF TypeOK, session
<1>2. CASE Serve(c)
  <2> DEFINE u == IF c = Me THEN srv.owner ELSE NoUser
  <2>1. u \in Users \cup {NoUser}
    BY DEF TypeOK, Srv
  <2>2. PICK status \in {"200", "err"} : call' = [call EXCEPT ![c] = ServedAs(call[c], status, u)]
    BY <1>2 DEF Serve
  <2>3. ServedAs(call[c], status, u) \in Requests
    BY <2>1, <2>2, <1>k, ServedType
  <2>4. UNCHANGED <<srv, jar, session, task, flight, init, route, lost, faults>>
    BY <1>2 DEF Serve
  <2> QED
    BY <2>2, <2>3, <2>4, OneRequest DEF TypeOK, session
<1>3. CASE Break(c)
  <2>1. [call[c] EXCEPT !.phase = "answered", !.status = "net"] \in Requests
    BY <1>k DEF Requests, Phases, Statuses
  <2>2. call' = [call EXCEPT ![c] = [call[c] EXCEPT !.phase = "answered", !.status = "net"]]
    BY <1>3 DEF Break
  <2>3. UNCHANGED <<srv, jar, session, task, flight, init, route, lost>> /\ faults' \in Nat
    BY <1>3 DEF Break, TypeOK
  <2> QED
    BY <2>1, <2>2, <2>3, OneRequest DEF TypeOK, session
<1>4. CASE Finish(c)
  BY <1>4, SettledType DEF TypeOK, Finish, session
<1>5. CASE RetryRead(c)
  <2>1. Again(call[c], call[c].token) \in Requests
    BY <1>k, AgainType
  <2>2. [Again(call[c], call[c].token) EXCEPT !.net = TRUE] \in Requests
    BY <2>1 DEF Requests
  <2>3. call' = [call EXCEPT ![c] = [Again(call[c], call[c].token) EXCEPT !.net = TRUE]]
    BY <1>5 DEF RetryRead
  <2>4. UNCHANGED <<srv, jar, session, task, flight, init, route, lost, faults>>
    BY <1>5 DEF RetryRead
  <2> QED
    BY <2>2, <2>3, <2>4, OneRequest DEF TypeOK, session
<1>6. CASE Replay(c)
  <2>1. SettledFollowers(c)[c] \in Requests /\ store.token \in Nat
    BY SettledType DEF TypeOK, Store
  <2>2. Again(SettledFollowers(c)[c], store.token) \in Requests
    BY <2>1, AgainType
  <2>3. [Again(SettledFollowers(c)[c], store.token) EXCEPT !.retry = TRUE] \in Requests
    BY <2>2 DEF Requests
  <2>4. call' = [SettledFollowers(c) EXCEPT ![c] =
                   [Again(SettledFollowers(c)[c], store.token) EXCEPT !.retry = TRUE]]
    BY <1>6 DEF Replay
  <2>5. UNCHANGED <<srv, jar, session, task, flight, init, route, lost, faults>>
    BY <1>6 DEF Replay
  <2> QED
    BY <2>3, <2>4, <2>5, SettledType, OneRequest DEF TypeOK, session
<1>7. CASE AwaitRefresh(c)
  <2>1. FlightFor(c) \in AllCalls /\ FlightFor(c) \in Flights
    BY DEF TypeOK, FlightFor, Flights
  <2>2. SettledFollowers(c)[c] \in Requests
    BY SettledType
  <2> DEFINE f == FlightFor(c)
             r == [SettledFollowers(c)[c] EXCEPT !.phase = "refreshing", !.status = "none",
                                                 !.token = 0, !.retry = TRUE, !.wait = f]
  <2>3. r \in Requests
    BY <2>1, <2>2 DEF Requests, Phases, Statuses
  <2>4. call' = [SettledFollowers(c) EXCEPT ![c] = r]
    BY <1>7 DEF AwaitRefresh
  <2>5. call' \in [AllCalls -> Requests]
    BY <2>3, <2>4, SettledType, OneRequest
  <2>6. flight' \in [Flights -> Refreshes] /\ task' \in AllCalls
    BY <1>7, <2>1, DepartType DEF TypeOK, AwaitRefresh
  <2>7. UNCHANGED <<srv, jar, session, init, route, lost, faults>>
    BY <1>7 DEF AwaitRefresh
  <2> QED
    BY <2>5, <2>6, <2>7 DEF TypeOK, session
<1>8. CASE SessionExpired(c)
  BY <1>8, SettledType, ToLoginType, ClearSessionType DEF TypeOK, SessionExpired
<1> QED
  BY <1>1, <1>2, <1>3, <1>4, <1>5, <1>6, <1>7, <1>8 DEF Answer

LEMMA TypeOfFlight ==
  ASSUME TypeOK, NEW f \in Flights, ServeRefresh(f) \/ BreakRefresh(f) \/ Land(f)
  PROVE  TypeOK'
<1> USE SessionAssumption
<1>f. flight[f] \in Refreshes /\ flight[f].token \in Nat
  BY DEF TypeOK, Refreshes
<1>1. CASE ServeRefresh(f)
  <2> DEFINE fresh == srv.serial + 1
             in == flight[f].cookie # 0 /\ flight[f].cookie = srv.live
  <2>1. fresh \in Nat
    BY DEF TypeOK, Srv
  <2>2. UNCHANGED <<jar, session, task, init, call, route, faults>>
    BY <1>1 DEF ServeRefresh
  <2>3. CASE in /\ fresh <= MaxSerial
    <3>1. /\ srv' = [srv EXCEPT !.live = fresh, !.serial = fresh, !.access = @ \cup {fresh}]
          /\ flight' = [flight EXCEPT ![f] = [@ EXCEPT !.phase = "good", !.token = fresh]]
          /\ UNCHANGED lost
      BY <1>1, <2>3 DEF ServeRefresh
    <3>2. srv' \in Srv
      BY <3>1, <2>1 DEF TypeOK, Srv
    <3>3. [flight[f] EXCEPT !.phase = "good", !.token = fresh] \in Refreshes
      BY <1>f, <2>1 DEF Refreshes
    <3>4. flight' \in [Flights -> Refreshes]
      BY <3>1, <3>3 DEF TypeOK
    <3> QED
      BY <2>2, <3>1, <3>2, <3>4 DEF TypeOK, session
  <2>4. CASE ~(in /\ fresh <= MaxSerial)
    <3>1. /\ flight' = [flight EXCEPT ![f] = [@ EXCEPT !.phase = "refused"]]
          /\ lost' = (lost \/ in) /\ UNCHANGED srv
      BY <1>1, <2>4 DEF ServeRefresh
    <3>2. [flight[f] EXCEPT !.phase = "refused"] \in Refreshes
      BY <1>f DEF Refreshes
    <3>3. flight' \in [Flights -> Refreshes]
      BY <3>1, <3>2 DEF TypeOK
    <3>4. lost' \in BOOLEAN
      BY <3>1
    <3> QED
      BY <2>2, <3>1, <3>3, <3>4 DEF TypeOK, session
  <2> QED
    BY <2>3, <2>4
<1>2. CASE BreakRefresh(f)
  <2>1. [flight[f] EXCEPT !.phase = "broken"] \in Refreshes
    BY <1>f DEF Refreshes
  <2>2. flight' = [flight EXCEPT ![f] = [flight[f] EXCEPT !.phase = "broken"]]
    BY <1>2 DEF BreakRefresh
  <2>3. UNCHANGED <<srv, jar, session, task, init, call, route>> /\ faults' \in Nat
    BY <1>2 DEF BreakRefresh, TypeOK
  <2>4. lost' \in BOOLEAN
    BY <1>2 DEF BreakRefresh
  <2> QED
    BY <2>1, <2>2, <2>3, <2>4 DEF TypeOK, session
<1>3. CASE Refreshed(f)
  <2> DEFINE t == flight[f].token
             g(c) == [call[c] EXCEPT !.phase = "sent", !.token = t, !.status = "none", !.wait = "none"]
  <2>1. ASSUME NEW c \in AllCalls
        PROVE  g(c) \in Requests
    <3>1. call[c] \in Requests
      BY DEF TypeOK
    <3> QED
      BY <1>f, <3>1 DEF Requests, Phases, Statuses
  <2>2. call' = [c \in AllCalls |-> IF c \in Waiting(f) THEN g(c) ELSE call[c]]
    BY <1>3 DEF Refreshed
  <2> HIDE DEF g
  <2>3. call' \in [AllCalls -> Requests]
    BY <2>1, <2>2 DEF TypeOK
  <2> USE DEF g
  <2>4. store' = [store EXCEPT !.token = flight[f].token, !.ready = TRUE] /\ jar' = flight[f].token
    BY <1>3 DEF Refreshed
  <2>5. store' \in Store
    BY <1>f, <2>4 DEF TypeOK, Store
  <2>6. flight' \in [Flights -> Refreshes]
    BY <1>3, LandedType DEF Refreshed
  <2>7. task' \in AllCalls \cup {"none"}
    BY <1>3 DEF TypeOK, Refreshed
  <2>8. guard' \in BOOLEAN
    BY <1>3 DEF Refreshed
  <2>9. UNCHANGED <<srv, init, route, drafts, told, lost, faults>>
    BY <1>3 DEF Refreshed
  <2> QED
    BY <1>f, <2>3, <2>4, <2>5, <2>6, <2>7, <2>8, <2>9 DEF TypeOK
<1>4. CASE RefreshFailed(f)
  <2> DEFINE g(c) == [call[c] EXCEPT !.phase = "expired", !.wait = "none"]
  <2>1. ASSUME NEW c \in AllCalls
        PROVE  g(c) \in Requests
    BY DEF TypeOK, Requests, Phases
  <2>2. call' = [c \in AllCalls |-> IF c \in Waiting(f) THEN g(c) ELSE call[c]]
    BY <1>4 DEF RefreshFailed
  <2> HIDE DEF g
  <2>3. call' \in [AllCalls -> Requests]
    BY <2>1, <2>2 DEF TypeOK
  <2>4. flight' \in [Flights -> Refreshes]
    BY <1>4, LandedType DEF RefreshFailed
  <2>5. task' \in AllCalls \cup {"none"} /\ UNCHANGED <<srv, jar, session, init, route, lost, faults>>
    BY <1>4 DEF TypeOK, RefreshFailed
  <2> QED
    BY <2>3, <2>4, <2>5 DEF TypeOK, session
<1> QED
  BY <1>1, <1>2, <1>3, <1>4 DEF Land

LEMMA TypeOfUser ==
  ASSUME TypeOK,
         \/ InitializeAuth \/ InitRefreshed \/ InitFailed
         \/ UserFetched \/ FetchFailed \/ FetchExpired \/ \E u \in Users : Login(u)
  PROVE  TypeOK'
<1> USE SessionAssumption
<1>i. "init" \in Flights /\ Me \in AllCalls
  BY DEF Flights, AllCalls
<1>1. CASE InitializeAuth
  BY <1>1, <1>i, DepartType DEF TypeOK, InitializeAuth, session
<1>2. CASE InitRefreshed
  <2>1. flight["init"].token \in Nat
    BY <1>i DEF TypeOK, Refreshes
  <2>2. store' \in Store
    BY <1>2, <2>1 DEF TypeOK, InitRefreshed, Store
  <2>3. call' \in [AllCalls -> Requests] /\ flight' \in [Flights -> Refreshes]
    BY <1>2, <1>i, <2>2, AskType, LandedType DEF InitRefreshed
  <2>4. jar' \in Nat /\ init' = "fetch" /\ UNCHANGED <<srv, task, guard, route, drafts, told, lost, faults>>
    BY <1>2, <2>1 DEF InitRefreshed
  <2> QED
    BY <2>2, <2>3, <2>4 DEF TypeOK
<1>3. CASE InitFailed
  BY <1>3, <1>i, LandedType, ClearSessionType DEF TypeOK, InitFailed
<1>4. CASE UserFetched
  <2>1. store' \in Store
    BY <1>4, <1>i DEF TypeOK, UserFetched, Store, Requests
  <2>2. drafts' \in SUBSET Users
    BY <1>4, LetGoType DEF UserFetched
  <2>3. call' \in [AllCalls -> Requests] /\ init' \in {"idle", "refresh", "fetch"}
    BY <1>4, FetchDoneType DEF UserFetched
  <2>4. UNCHANGED <<srv, jar, task, flight, guard, route, told, lost, faults>>
    BY <1>4 DEF UserFetched
  <2> QED
    BY <2>1, <2>2, <2>3, <2>4 DEF TypeOK
<1>5. CASE FetchFailed
  <2>1. store' \in Store
    <3>1. \/ store' = [store EXCEPT !.user = NoUser, !.token = 0, !.ready = TRUE, !.fetching = FALSE]
          \/ store' = [store EXCEPT !.ready = TRUE, !.fetching = FALSE]
      BY <1>5 DEF FetchFailed, ForgetUser
    <3>2. store \in Store
      BY DEF TypeOK
    <3>3. [store EXCEPT !.user = NoUser, !.token = 0, !.ready = TRUE, !.fetching = FALSE] \in Store
      BY <3>2 DEF Store
    <3>4. [store EXCEPT !.ready = TRUE, !.fetching = FALSE] \in Store
      BY <3>2 DEF Store
    <3> QED
      BY <3>1, <3>3, <3>4
  <2>2. drafts' \in SUBSET Users
    BY <1>5, LetGoType DEF TypeOK, FetchFailed, ForgetUser
  <2>3. call' \in [AllCalls -> Requests] /\ init' \in {"idle", "refresh", "fetch"}
    BY <1>5, FetchDoneType DEF FetchFailed
  <2>4. route' \in Routes
    BY <1>5, ToLoginType DEF TypeOK, FetchFailed
  <2>5. lost' \in BOOLEAN
    BY <1>5 DEF TypeOK, FetchFailed
  <2>6. UNCHANGED <<srv, jar, task, flight, guard, told, faults>>
    BY <1>5 DEF FetchFailed
  <2> QED
    BY <2>1, <2>2, <2>3, <2>4, <2>5, <2>6 DEF TypeOK
<1>6. CASE FetchExpired
  <2>1. told' \in 0 .. 1
    BY <1>6 DEF TypeOK, FetchExpired
  <2>2. route' \in Routes /\ UNCHANGED <<srv, jar, task, flight, lost, faults>>
    BY <1>6, ToLoginType DEF FetchExpired
  <2>3. /\ call' \in [AllCalls -> Requests] /\ init' \in {"idle", "refresh", "fetch"}
        /\ store' \in Store /\ drafts' \in SUBSET Users /\ guard' \in BOOLEAN
    BY <1>6, FetchDoneType, ClearSessionType DEF FetchExpired
  <2> QED
    BY <2>1, <2>2, <2>3 DEF TypeOK
<1>7. ASSUME NEW u \in Users, Login(u)
      PROVE  TypeOK'
  <2> DEFINE fresh == srv.serial + 1
  <2>1. fresh \in Nat
    BY DEF TypeOK, Srv
  <2>2. /\ srv' = [live |-> fresh, access |-> srv.access \cup {fresh}, owner |-> u, serial |-> fresh]
        /\ jar' = fresh
        /\ store' = [SetAuth(fresh) EXCEPT !.fetching = TRUE]
        /\ drafts' = LetGo(NoUser)
    BY <1>7 DEF Login
  <2> HIDE DEF fresh
  <2>3. srv' \in Srv
    BY <2>1, <2>2 DEF TypeOK, Srv
  <2>4. store' \in Store
    BY <2>1, <2>2 DEF TypeOK, Store, SetAuth
  <2>5. call' \in [AllCalls -> Requests] /\ drafts' \in SUBSET Users
    BY <1>7, <2>2, <2>4, AskType, LetGoType DEF Login
  <2>6. guard' \in BOOLEAN
    BY <1>7 DEF Login
  <2>7. lost' \in BOOLEAN
    BY <1>7 DEF Login
  <2>8. told' \in 0 .. 1 /\ UNCHANGED <<task, flight, init, route, faults>>
    BY <1>7 DEF Login
  <2> QED
    BY <2>1, <2>2, <2>3, <2>4, <2>5, <2>6, <2>7, <2>8 DEF TypeOK
<1> QED
  BY <1>1, <1>2, <1>3, <1>4, <1>5, <1>6, <1>7

LEMMA TypeOfPage ==
  ASSUME TypeOK,
         \/ LoginRedirect \/ RouteGuard \/ \E p \in Public \cup Guarded : Navigate(p)
         \/ HandleLogout \/ UpdateProfile \/ UpdatePassword \/ SaveDraft
  PROVE  TypeOK'
<1> USE SessionAssumption
<1>1. CASE LoginRedirect
  <2>1. route' \in Routes
    BY <1>1 DEF TypeOK, LoginRedirect, Routes, Pages, Public
  <2> QED
    BY <1>1, <2>1 DEF TypeOK, LoginRedirect, session
<1>2. CASE RouteGuard
  BY <1>2, ToLoginType DEF TypeOK, RouteGuard, session
<1>3. ASSUME NEW p \in Public \cup Guarded, Navigate(p)
      PROVE  TypeOK'
  <2>1. route' \in Routes
    BY <1>3 DEF Navigate, Routes, Pages
  <2> QED
    BY <1>3, <2>1 DEF TypeOK, Navigate, session
<1>4. CASE HandleLogout
  <2>1. srv' \in Srv
    BY <1>4 DEF TypeOK, HandleLogout, Srv
  <2>2. store' \in Store /\ drafts' \in SUBSET Users /\ guard' \in BOOLEAN
    BY <1>4, ClearSessionType DEF TypeOK, HandleLogout
  <2>3. route' \in Routes
    BY <1>4 DEF TypeOK, HandleLogout, Routes, Pages, Public
  <2>4. jar' \in Nat /\ faults' \in Nat
    BY <1>4 DEF TypeOK, HandleLogout
  <2>5. lost' \in BOOLEAN
    BY <1>4 DEF HandleLogout
  <2>6. UNCHANGED <<task, flight, init, call, told>>
    BY <1>4 DEF HandleLogout
  <2> QED
    BY <2>1, <2>2, <2>3, <2>4, <2>5, <2>6 DEF TypeOK
<1>5. CASE UpdateProfile
  <2>1. store' \in Store
    BY <1>5 DEF TypeOK, UpdateProfile, Store
  <2>2. call' \in [AllCalls -> Requests]
    BY <1>5, <2>1, AskType DEF UpdateProfile
  <2>3. UNCHANGED <<srv, jar, task, flight, init, guard, route, drafts, told, lost, faults>>
    BY <1>5 DEF UpdateProfile
  <2> QED
    BY <2>1, <2>2, <2>3 DEF TypeOK
<1>6. CASE UpdatePassword
  <2>1. srv' \in Srv
    BY <1>6 DEF TypeOK, UpdatePassword, Srv
  <2>2. store' \in Store /\ drafts' \in SUBSET Users /\ guard' \in BOOLEAN
    BY <1>6, ClearSessionType DEF UpdatePassword
  <2>3. route' \in Routes
    BY <1>6 DEF UpdatePassword, Routes, Pages, Public
  <2>4. lost' \in BOOLEAN
    BY <1>6 DEF UpdatePassword
  <2>5. UNCHANGED <<jar, task, flight, init, call, told, faults>>
    BY <1>6 DEF UpdatePassword
  <2> QED
    BY <2>1, <2>2, <2>3, <2>4, <2>5 DEF TypeOK
<1>7. CASE SaveDraft
  <2>1. drafts' \in SUBSET Users
    BY <1>7 DEF TypeOK, SaveDraft, Store
  <2> QED
    BY <1>7, <2>1 DEF TypeOK, SaveDraft
<1> QED
  BY <1>1, <1>2, <1>3, <1>4, <1>5, <1>6, <1>7

LEMMA TypeOfWorld ==
  ASSUME TypeOK, Reload \/ AccessExpires \/ RevokeSession \/ OtherTab
  PROVE  TypeOK'
<1> USE SessionAssumption
<1>1. CASE Reload
  <2>1. jar' \in Nat
    BY <1>1 DEF TypeOK, Reload, Refreshes
  <2>2. lost' \in BOOLEAN
    BY <1>1 DEF Reload
  <2>3. store' \in Store /\ flight' \in [Flights -> Refreshes] /\ call' \in [AllCalls -> Requests]
    BY <1>1, ShapesOfNothing DEF Reload
  <2>4. task' = "none" /\ init' = "idle" /\ told' = 0 /\ faults' \in Nat
    BY <1>1 DEF TypeOK, Reload
  <2>5. guard' \in BOOLEAN
    BY <1>1 DEF Reload
  <2>6. UNCHANGED <<srv, route, drafts>>
    BY <1>1 DEF Reload
  <2> QED
    BY <2>1, <2>2, <2>3, <2>4, <2>5, <2>6 DEF TypeOK
<1>2. CASE AccessExpires
  <2>1. srv' \in Srv
    BY <1>2 DEF TypeOK, AccessExpires, Srv
  <2> QED
    BY <1>2, <2>1 DEF TypeOK, AccessExpires, session
<1>3. CASE RevokeSession
  <2>1. srv' = [srv EXCEPT !.live = 0, !.access = {}] /\ faults' \in Nat /\ srv \in Srv
    BY <1>3 DEF TypeOK, RevokeSession
  <2>s. srv' \in Srv
    BY <2>1 DEF Srv
  <2>2. lost' \in BOOLEAN
    BY <1>3 DEF RevokeSession
  <2>3. UNCHANGED <<jar, session, task, flight, init, call, route>>
    BY <1>3 DEF RevokeSession
  <2> QED
    BY <2>1, <2>s, <2>2, <2>3 DEF TypeOK, session
<1>4. CASE OtherTab
  <2>0. /\ srv' = [srv EXCEPT !.live = srv.serial + 1, !.serial = srv.serial + 1]
        /\ jar' = srv.serial + 1 /\ faults' = faults + 1
    BY <1>4 DEF OtherTab
  <2>1. srv' \in Srv /\ jar' \in Nat
    <3>1. srv \in Srv /\ srv.serial + 1 \in Nat
      BY DEF TypeOK, Srv
    <3> QED
      BY <2>0, <3>1 DEF Srv
  <2>2. lost' \in BOOLEAN
    BY <1>4 DEF OtherTab
  <2>3. UNCHANGED <<session, task, flight, init, call, route>>
    BY <1>4 DEF OtherTab
  <2> QED
    BY <2>0, <2>1, <2>2, <2>3 DEF TypeOK, session
<1> QED
  BY <1>1, <1>2, <1>3, <1>4

LEMMA TypeStep ==
  ASSUME TypeOK, [Next]_vars
  PROVE  TypeOK'
<1>1. CASE UNCHANGED vars
  BY <1>1 DEF TypeOK, vars
<1>2. CASE Next
  BY <1>2, TypeOfAnswer, TypeOfFlight, TypeOfUser, TypeOfPage, TypeOfWorld DEF Next, AllCalls
<1> QED
  BY <1>1, <1>2

\* Every value the tab, the server and the pages keep has its type, for any number of users,
\* requests and faults (store/auth.ts, utils/http.ts).
THEOREM TypeCorrect == Spec => []TypeOK
<1>1. Init => TypeOK
  BY TypeInit
<1>2. TypeOK /\ [Next]_vars => TypeOK'
  BY TypeStep
<1> QED
  BY <1>1, <1>2, PTL DEF Spec

------------------------------------------------------------------------------
(* Writes.                                                                 *)

LEMMA WriteOfNothing == WriteOf(NoCall)
BY DEF WriteOf, NoCall

\* A step that leaves each page's request as it is, or drops it.
LEMMA WriteKept ==
  ASSUME WriteInv, \A d \in Calls : call'[d] = call[d] \/ call'[d] = NoCall
  PROVE  WriteInv'
BY WriteOfNothing DEF WriteInv, WriteOf

\* A step of one request, which drops those that joined it.
LEMMA WriteMoved ==
  ASSUME WriteInv, NEW c \in AllCalls, WriteOf(call'[c]),
         \A d \in Calls \ {c} : call'[d] = call[d] \/ call'[d] = NoCall
  PROVE  WriteInv'
BY WriteOfNothing DEF WriteInv, WriteOf

LEMMA WriteStep ==
  ASSUME TypeOK, WriteInv, [Next]_vars
  PROVE  WriteInv'
<1> USE SessionAssumption
<1>d. DOMAIN call = AllCalls /\ Calls \subseteq AllCalls /\ Me \in AllCalls /\ Me \notin Calls
  BY DEF TypeOK, AllCalls
<1>r. ASSUME NEW c \in AllCalls
      PROVE  call[c] \in Requests
  BY DEF TypeOK
<1>1. ASSUME NEW c \in Calls, NEW o \in {"get", "write"}, Send(c, o)
      PROVE  WriteInv'
  <2>1. call'[c].runs = 0
    BY <1>1, <1>d DEF Send, NoCall
  <2>2. \A d \in Calls \ {c} : call'[d] = call[d]
    BY <1>1, <1>d DEF Send
  <2>3. WriteOf(call'[c])
    BY <2>1 DEF WriteOf
  <2> QED
    BY <1>d, <2>2, <2>3, WriteMoved
<1>2. ASSUME NEW c \in AllCalls, Serve(c)
      PROVE  WriteInv'
  <2> DEFINE u == IF c = Me THEN srv.owner ELSE NoUser
  <2>1. PICK status \in {"200", "err"} :
          call' = [call EXCEPT ![c] = ServedAs(call[c], status, u)]
    BY <1>2 DEF Serve
  <2>2. call'[c] = ServedAs(call[c], status, u) /\ call[c].phase = "sent"
    BY <1>2, <1>d, <2>1 DEF Serve
  <2>3. c \in Calls => WriteOf(ServedAs(call[c], status, u))
    BY <1>r, <2>2 DEF WriteInv, WriteOf, ServedAs, Requests
  <2>4. \A d \in Calls \ {c} : call'[d] = call[d]
    BY <1>d, <2>1
  <2> QED
    BY <1>d, <2>2, <2>3, <2>4, WriteKept, WriteMoved DEF AllCalls
<1>3. ASSUME NEW c \in AllCalls, Break(c)
      PROVE  WriteInv'
  <2>1. call' = [call EXCEPT ![c] = [call[c] EXCEPT !.phase = "answered", !.status = "net"]]
    BY <1>3 DEF Break
  <2>2. c \in Calls => WriteOf([call[c] EXCEPT !.phase = "answered", !.status = "net"])
    BY <1>r DEF WriteInv, WriteOf, Requests
  <2>3. \A d \in Calls \ {c} : call'[d] = call[d]
    BY <1>d, <2>1
  <2> QED
    BY <1>d, <2>1, <2>2, <2>3, WriteKept, WriteMoved DEF AllCalls
<1>4. ASSUME NEW c \in AllCalls, Finish(c)
      PROVE  WriteInv'
  BY <1>4, <1>d, WriteKept DEF Finish, Settled
<1>5. ASSUME NEW c \in AllCalls, RetryRead(c)
      PROVE  WriteInv'
  <2>1. call[c].op = "get" /\ call' = [call EXCEPT ![c] = [Again(call[c], call[c].token) EXCEPT !.net = TRUE]]
    BY <1>5 DEF RetryRead, NetworkRetry
  <2>2. call'[c].op = "get"
    BY <1>d, <1>r, <2>1 DEF Again, Requests
  <2>3. \A d \in Calls \ {c} : call'[d] = call[d]
    BY <1>d, <2>1
  <2>4. WriteOf(call'[c])
    BY <2>2 DEF WriteOf
  <2> QED
    BY <2>3, <2>4, WriteMoved
<1>6. ASSUME NEW c \in AllCalls, Replay(c)
      PROVE  WriteInv'
  <2>1. /\ call[c].phase = "answered" /\ call[c].status = "401"
        /\ call' = [SettledFollowers(c) EXCEPT ![c] =
                      [Again(SettledFollowers(c)[c], store.token) EXCEPT !.retry = TRUE]]
    BY <1>6 DEF Replay, Rejected401
  <2>2. SettledFollowers(c)[c] \in {call[c], NoCall} /\ \A d \in Calls : SettledFollowers(c)[d] \in {call[d], NoCall}
    BY <1>d DEF SettledFollowers
  <2>3. \A d \in Calls \ {c} : call'[d] \in {call[d], NoCall}
    BY <1>d, <2>1, <2>2 DEF SettledFollowers
  <2>4. ASSUME c \in Calls
        PROVE  WriteOf(call'[c])
    <3>1. SettledFollowers(c)[c].op = "write" => SettledFollowers(c)[c].runs = 0
      BY <2>1, <2>2, <2>4 DEF WriteInv, WriteOf, NoCall
    <3>2. call'[c] = [Again(SettledFollowers(c)[c], store.token) EXCEPT !.retry = TRUE]
      BY <1>d, <2>1 DEF SettledFollowers
    <3>3. /\ call'[c].op = SettledFollowers(c)[c].op
          /\ call'[c].runs = SettledFollowers(c)[c].runs
      BY <3>2, SettledType DEF Again, Requests
    <3> QED
      BY <3>1, <3>3 DEF WriteOf
  <2> QED
    BY <2>3, <2>4, WriteKept, WriteMoved DEF AllCalls
<1>7. ASSUME NEW c \in AllCalls, AwaitRefresh(c)
      PROVE  WriteInv'
  <2> DEFINE r == [SettledFollowers(c)[c] EXCEPT !.phase = "refreshing", !.status = "none",
                                                 !.token = 0, !.retry = TRUE, !.wait = FlightFor(c)]
  <2>1. /\ call[c].phase = "answered" /\ call[c].status = "401"
        /\ call' = [SettledFollowers(c) EXCEPT ![c] = r]
    BY <1>7 DEF AwaitRefresh, Rejected401
  <2>2. SettledFollowers(c)[c] \in {call[c], NoCall} /\ \A d \in Calls : SettledFollowers(c)[d] \in {call[d], NoCall}
    BY <1>d DEF SettledFollowers
  <2>3. \A d \in Calls \ {c} : call'[d] \in {call[d], NoCall}
    BY <1>d, <2>1, <2>2 DEF SettledFollowers
  <2>4. ASSUME c \in Calls
        PROVE  WriteOf(call'[c])
    <3>1. SettledFollowers(c)[c].op = "write" => SettledFollowers(c)[c].runs = 0
      BY <2>1, <2>2, <2>4 DEF WriteInv, WriteOf, NoCall
    <3>2. call'[c] = r
      BY <1>d, <2>1 DEF SettledFollowers
    <3>3. /\ call'[c].op = SettledFollowers(c)[c].op
          /\ call'[c].runs = SettledFollowers(c)[c].runs
      BY <3>2, SettledType DEF Requests
    <3> QED
      BY <3>1, <3>3 DEF WriteOf
  <2> QED
    BY <2>3, <2>4, WriteKept, WriteMoved DEF AllCalls
<1>8. ASSUME NEW c \in AllCalls, SessionExpired(c)
      PROVE  WriteInv'
  BY <1>8, <1>d, WriteKept DEF SessionExpired, Settled
<1>9. ASSUME NEW f \in Flights, Refreshed(f)
      PROVE  WriteInv'
  <2> SUFFICES ASSUME NEW d \in Calls PROVE WriteOf(call'[d])
    BY DEF WriteInv
  <2>1. CASE d \in Waiting(f)
    <3>1. call[d].phase = "refreshing" /\ WriteOf(call[d])
      BY <2>1 DEF Waiting, WriteInv
    <3>2. call'[d] = [call[d] EXCEPT !.phase = "sent", !.token = flight[f].token,
                                     !.status = "none", !.wait = "none"]
      BY <1>9, <1>d, <2>1 DEF Refreshed
    <3>3. call'[d].op = call[d].op /\ call'[d].runs = call[d].runs
      BY <1>r, <1>d, <3>2 DEF Requests
    <3> QED
      BY <3>1, <3>3 DEF WriteOf
  <2>2. CASE d \notin Waiting(f)
    <3>1. call'[d] = call[d]
      BY <1>9, <1>d, <2>2 DEF Refreshed
    <3> QED
      BY <3>1 DEF WriteInv
  <2> QED
    BY <2>1, <2>2
<1>10. ASSUME NEW f \in Flights, RefreshFailed(f)
      PROVE  WriteInv'
  <2> SUFFICES ASSUME NEW d \in Calls PROVE WriteOf(call'[d])
    BY DEF WriteInv
  <2>1. CASE d \in Waiting(f)
    <3>1. call[d].phase = "refreshing" /\ WriteOf(call[d])
      BY <2>1 DEF Waiting, WriteInv
    <3>2. call'[d] = [call[d] EXCEPT !.phase = "expired", !.wait = "none"]
      BY <1>10, <1>d, <2>1 DEF RefreshFailed
    <3>3. call'[d].op = call[d].op /\ call'[d].runs = call[d].runs
      BY <1>r, <1>d, <3>2 DEF Requests
    <3> QED
      BY <3>1, <3>3 DEF WriteOf
  <2>2. CASE d \notin Waiting(f)
    <3>1. call'[d] = call[d]
      BY <1>10, <1>d, <2>2 DEF RefreshFailed
    <3> QED
      BY <3>1 DEF WriteInv
  <2> QED
    BY <2>1, <2>2
<1>11. CASE AskWhoAmI
  BY <1>11, <1>d, WriteKept DEF AskWhoAmI
<1>12. CASE FetchDone
  BY <1>12, <1>d, WriteKept DEF FetchDone
<1>13. CASE Reload
  BY <1>13, <1>d, WriteKept DEF Reload
<1>14. CASE UNCHANGED call
  BY <1>14, WriteKept
<1>a. ASSUME NEW c \in AllCalls, Answer(c)
      PROVE  WriteInv'
  BY <1>a, <1>4, <1>5, <1>6, <1>7, <1>8 DEF Answer
<1>f. ASSUME NEW f \in Flights, ServeRefresh(f) \/ BreakRefresh(f) \/ Land(f)
      PROVE  WriteInv'
  BY <1>f, <1>9, <1>10, <1>14 DEF Land, ServeRefresh, BreakRefresh
<1>u. CASE InitializeAuth \/ InitRefreshed \/ InitFailed \/ UserFetched \/ FetchFailed \/ FetchExpired
  BY <1>u, <1>11, <1>12, <1>14
     DEF InitializeAuth, InitRefreshed, InitFailed, UserFetched, FetchFailed, FetchExpired
<1>l. ASSUME NEW u \in Users, Login(u)
      PROVE  WriteInv'
  BY <1>l, <1>11 DEF Login
<1>p. CASE \/ LoginRedirect \/ RouteGuard \/ \E p \in Public \cup Guarded : Navigate(p)
           \/ HandleLogout \/ UpdateProfile \/ UpdatePassword \/ SaveDraft
           \/ AccessExpires \/ RevokeSession \/ OtherTab
  BY <1>p, <1>11, <1>14 DEF LoginRedirect, RouteGuard, Navigate, HandleLogout, UpdateProfile,
     UpdatePassword, SaveDraft, AccessExpires, RevokeSession, OtherTab
<1>v. CASE UNCHANGED vars
  BY <1>v, <1>14 DEF vars
<1> QED
  BY <1>1, <1>2, <1>3, <1>a, <1>f, <1>u, <1>l, <1>p, <1>13, <1>v DEF Next

\* Whatever is replayed after a refresh, repeated after a broken connection or shared while in
\* flight, the server carries out a submitted write at most once (utils/http.ts).
THEOREM WritesHappenOnce == Spec => []WriteOnce
<1>1. Init => TypeOK /\ WriteInv
  BY TypeInit, WriteOfNothing DEF Init, WriteInv, AllCalls
<1>2. TypeOK /\ WriteInv /\ [Next]_vars => (TypeOK /\ WriteInv)'
  BY TypeStep, WriteStep
<1>3. WriteInv => WriteOnce
  BY DEF WriteInv, WriteOf, WriteOnce
<1> QED
  BY <1>1, <1>2, <1>3, PTL DEF Spec

------------------------------------------------------------------------------
(* The way back.                                                           *)

LEMMA WayStep ==
  ASSUME TypeOK, WayInv, [Next]_vars
  PROVE  WayInv'
<1>r. route \in Routes /\ "login" \notin Guarded
  BY DEF TypeOK, Guarded
<1>1. CASE UNCHANGED route
  BY <1>1 DEF WayInv, ReturnsWhereItExpired
<1>2. CASE route' = ToLogin(route)
  <2>1. CASE route.at = "login"
    BY <1>2, <2>1 DEF ToLogin, WayInv, ReturnsWhereItExpired
  <2>2. CASE route.at # "login"
    BY <1>2, <2>2 DEF ToLogin, WayInv, ReturnsWhereItExpired
  <2> QED
    BY <2>1, <2>2
<1>3. ASSUME NEW p, route' = [at |-> p, from |-> "none", expired |-> "none"]
      PROVE  WayInv'
  BY <1>3 DEF WayInv, ReturnsWhereItExpired
<1>a. ASSUME NEW c \in AllCalls, Serve(c) \/ Break(c) \/ Answer(c)
      PROVE  WayInv'
  BY <1>a, <1>1, <1>2 DEF Serve, Break, Answer, Finish, RetryRead, Replay, AwaitRefresh, SessionExpired
<1>f. ASSUME NEW f \in Flights, ServeRefresh(f) \/ BreakRefresh(f) \/ Land(f)
      PROVE  WayInv'
  BY <1>f, <1>1 DEF Land, ServeRefresh, BreakRefresh, Refreshed, RefreshFailed
<1>u. CASE InitializeAuth \/ InitRefreshed \/ InitFailed \/ UserFetched \/ FetchFailed \/ FetchExpired
  BY <1>u, <1>1, <1>2
     DEF InitializeAuth, InitRefreshed, InitFailed, UserFetched, FetchFailed, FetchExpired
<1>s. CASE \/ \E c \in Calls, o \in {"get", "write"} : Send(c, o)
           \/ \E u \in Users : Login(u)
           \/ UpdateProfile \/ SaveDraft \/ Reload \/ AccessExpires \/ RevokeSession \/ OtherTab
  BY <1>s, <1>1 DEF Send, Login, UpdateProfile, SaveDraft, Reload, AccessExpires, RevokeSession, OtherTab
<1>l. CASE LoginRedirect
  BY <1>l, <1>3 DEF LoginRedirect
<1>p. CASE \E p \in Public \cup Guarded : Navigate(p)
  BY <1>p, <1>3 DEF Navigate
<1>g. CASE RouteGuard
  BY <1>g, <1>2 DEF RouteGuard
<1>o. CASE HandleLogout \/ UpdatePassword
  BY <1>o, <1>1, <1>3 DEF HandleLogout, UpdatePassword
<1>v. CASE UNCHANGED vars
  BY <1>v, <1>1 DEF vars
<1> QED
  BY <1>a, <1>f, <1>u, <1>s, <1>l, <1>p, <1>g, <1>o, <1>v DEF Next

\* However many failures report the expiry, and whether the route guard or the handler is
\* first, the login page knows the page to return to (App.tsx, ProtectedRoute.tsx).
THEOREM WayBackIsKept == Spec => []ReturnsWhereItExpired
<1>1. Init => TypeOK /\ WayInv
  BY TypeInit DEF Init, WayInv, ReturnsWhereItExpired
<1>2. TypeOK /\ WayInv /\ [Next]_vars => (TypeOK /\ WayInv)'
  BY TypeStep, WayStep
<1>3. WayInv => ReturnsWhereItExpired
  BY DEF WayInv
<1> QED
  BY <1>1, <1>2, <1>3, PTL DEF Spec

------------------------------------------------------------------------------
(* The drafts.                                                             *)

LEMMA DraftsStep ==
  ASSUME TypeOK, [Next]_vars, store.user # NoUser, store'.user # store.user, store' # NoStore
  PROVE  store.user \notin drafts'
<1>s. store \in Store
  BY DEF TypeOK
<1>1. CASE drafts' = DraftsWithout(store.user)
  BY <1>1 DEF DraftsWithout
<1>2. CASE ClearSession
  BY <1>1, <1>2 DEF ClearSession
<1>3. ASSUME NEW u, drafts' = LetGo(u), u # store.user
      PROVE  store.user \notin drafts'
  BY <1>3 DEF LetGo, DraftsWithout
<1>4. CASE UNCHANGED store
  BY <1>4
<1>5. ASSUME NEW t, store' = [store EXCEPT !.token = t, !.ready = TRUE]
      PROVE  FALSE
  BY <1>5, <1>s DEF Store
<1>a. ASSUME NEW c \in AllCalls, Serve(c) \/ Break(c) \/ Answer(c)
      PROVE  store.user \notin drafts'
  BY <1>a, <1>2, <1>4 DEF Serve, Break, Answer, Finish, RetryRead, Replay, AwaitRefresh, SessionExpired, session
<1>f. ASSUME NEW f \in Flights, ServeRefresh(f) \/ BreakRefresh(f) \/ Land(f)
      PROVE  store.user \notin drafts'
  BY <1>f, <1>4, <1>5 DEF Land, ServeRefresh, BreakRefresh, Refreshed, RefreshFailed, session
<1>i. CASE InitializeAuth \/ InitFailed \/ FetchExpired
  BY <1>i, <1>2, <1>4 DEF InitializeAuth, InitFailed, FetchExpired, session
<1>j. CASE InitRefreshed
  <2>1. store' = [store EXCEPT !.token = flight["init"].token, !.ready = TRUE, !.fetching = TRUE]
    BY <1>j DEF InitRefreshed
  <2>2. store'.user = store.user
    BY <1>s, <2>1 DEF Store
  <2> QED
    BY <2>2
<1>k. CASE UserFetched
  <2>1. /\ store' = [store EXCEPT !.user = call[Me].who, !.ready = TRUE, !.fetching = FALSE]
        /\ drafts' = LetGo(call[Me].who)
    BY <1>k DEF UserFetched
  <2>2. store'.user = call[Me].who
    BY <1>s, <2>1 DEF Store
  <2> QED
    BY <1>3, <2>1, <2>2
<1>l. CASE FetchFailed
  <2>1. CASE ForgetUser
    BY <1>3, <2>1 DEF ForgetUser
  <2>2. CASE store' = [store EXCEPT !.ready = TRUE, !.fetching = FALSE]
    <3>1. store'.user = store.user
      BY <1>s, <2>2 DEF Store
    <3> QED
      BY <3>1
  <2> QED
    BY <1>l, <2>1, <2>2 DEF FetchFailed
<1>m. ASSUME NEW u \in Users, Login(u)
      PROVE  store.user \notin drafts'
  BY <1>m, <1>3 DEF Login
<1>n. CASE UpdateProfile
  <2>1. store' = [store EXCEPT !.fetching = TRUE]
    BY <1>n DEF UpdateProfile
  <2>2. store'.user = store.user
    BY <1>s, <2>1 DEF Store
  <2> QED
    BY <2>2
<1>o. CASE HandleLogout \/ UpdatePassword
  BY <1>o, <1>2, <1>4 DEF HandleLogout, UpdatePassword
<1>p. CASE \/ \E c \in Calls, o \in {"get", "write"} : Send(c, o)
           \/ LoginRedirect \/ RouteGuard \/ \E p \in Public \cup Guarded : Navigate(p)
           \/ SaveDraft \/ AccessExpires \/ RevokeSession \/ OtherTab
  BY <1>p, <1>4 DEF Send, LoginRedirect, RouteGuard, Navigate, SaveDraft, AccessExpires,
     RevokeSession, OtherTab, session
<1>q. CASE Reload
  BY <1>q DEF Reload
<1>v. CASE UNCHANGED vars
  BY <1>v, <1>4 DEF vars
<1> QED
  BY <1>a, <1>f, <1>i, <1>j, <1>k, <1>l, <1>m, <1>n, <1>o, <1>p, <1>q, <1>v DEF Next

\* Whichever way the tab lets go of a user, no draft of that user is left in the browser
\* (clearEditorDraftsForUser in store/auth.ts).
THEOREM DraftsAreOver == Spec => DraftsEndWithSession
<1>1. TypeOK /\ [Next]_vars
      => [store.user # NoUser /\ store'.user # store.user /\ store' # NoStore
          => store.user \notin drafts']_vars
  BY DraftsStep
<1> QED
  BY <1>1, TypeCorrect, PTL DEF Spec, DraftsEndWithSession

------------------------------------------------------------------------------
(* The refreshes.                                                          *)

LEMMA OneFlight ==
  ASSUME FlightInv, NEW f \in Flights, NEW g \in Flights, Flying(f), Flying(g)
  PROVE  f = g
BY SessionAssumption DEF FlightInv, Fresh, Flights, AllCalls

\* What a visitor's requests may do leaves the tab without a user.
LEMMA FreshStep ==
  ASSUME TypeOK, Fresh,
         \/ \E c \in Calls, o \in {"get", "write"} : Send(c, o)
         \/ \E c \in AllCalls : Serve(c) \/ Break(c) \/ Answer(c)
  PROVE  Fresh' /\ UNCHANGED <<srv, jar, store, task, flight, init, told, lost>>
<1> USE SessionAssumption
<1>d. /\ DOMAIN call = AllCalls /\ AllCalls = Calls \cup {Me}
      /\ \A c \in AllCalls : call[c] \in Requests
  BY DEF TypeOK, AllCalls
<1> DEFINE Ok(k) == /\ k.phase \in {"idle", "sent", "answered"} /\ k.status # "401"
                    /\ k.op = "get" /\ k.token = 0
<1>n. Ok(NoCall)
  BY DEF NoCall
<1>e. \A c \in Calls : Ok(call[c])
  BY DEF Fresh
<1>x. ASSUME \A d \in Calls : Ok(call'[d]), call'[Me] = call[Me], UNCHANGED <<store, task>>
      PROVE  Fresh'
  BY <1>x DEF Fresh
<1> HIDE DEF Ok
<1>1. ASSUME NEW c \in Calls, NEW o \in {"get", "write"}, Send(c, o)
      PROVE  Fresh' /\ UNCHANGED <<srv, jar, store, task, flight, init, told, lost>>
  <2>1. o = "get"
    BY <1>1 DEF Send, Fresh, TypeOK, Routes
  <2>2. call'[c] = [NoCall EXCEPT !.op = "get", !.token = 0, !.phase = "sent", !.lead = "none"]
    BY <1>1, <1>d, <2>1 DEF Send, Fresh
  <2>3. Ok(call'[c])
    BY <2>2 DEF Ok, NoCall
  <2>4. \A d \in AllCalls \ {c} : call'[d] = call[d]
    BY <1>1, <1>d DEF Send
  <2>5. UNCHANGED <<srv, jar, store, task, flight, init, told, lost>>
    BY <1>1 DEF Send, session
  <2> QED
    BY <1>d, <1>e, <1>x, <2>3, <2>4, <2>5
<1>2. ASSUME NEW c \in AllCalls, Serve(c)
      PROVE  Fresh' /\ UNCHANGED <<srv, jar, store, task, flight, init, told, lost>>
  <2>1. c \in Calls /\ Ok(call[c])
    BY <1>2, <1>d, <1>e DEF Serve, Fresh
  <2>2. PICK u : call' = [call EXCEPT ![c] = ServedAs(call[c], "200", u)]
    BY <1>2, <2>1 DEF Serve
  <2>3. Taken(call[c])
    BY <2>1 DEF Taken, Ok
  <2>4. Ok(call'[c])
    BY <1>d, <2>1, <2>2, <2>3 DEF ServedAs, Ok, Requests
  <2>5. \A d \in AllCalls \ {c} : call'[d] = call[d]
    BY <1>d, <2>2
  <2>6. UNCHANGED <<srv, jar, store, task, flight, init, told, lost>>
    BY <1>2 DEF Serve, session
  <2> QED
    BY <1>d, <1>e, <1>x, <2>1, <2>4, <2>5, <2>6
<1>3. ASSUME NEW c \in AllCalls, Break(c)
      PROVE  Fresh' /\ UNCHANGED <<srv, jar, store, task, flight, init, told, lost>>
  <2>1. c \in Calls /\ Ok(call[c])
    BY <1>3, <1>d, <1>e DEF Break, Fresh
  <2>2. call' = [call EXCEPT ![c] = [call[c] EXCEPT !.phase = "answered", !.status = "net"]]
    BY <1>3 DEF Break
  <2>3. Ok(call'[c])
    BY <1>d, <2>1, <2>2 DEF Ok, Requests
  <2>4. \A d \in AllCalls \ {c} : call'[d] = call[d]
    BY <1>d, <2>2
  <2>5. UNCHANGED <<srv, jar, store, task, flight, init, told, lost>>
    BY <1>3 DEF Break, session
  <2> QED
    BY <1>d, <1>e, <1>x, <2>1, <2>3, <2>4, <2>5
<1>4. ASSUME NEW c \in AllCalls, Finish(c)
      PROVE  Fresh' /\ UNCHANGED <<srv, jar, store, task, flight, init, told, lost>>
  <2>1. \A d \in Calls : call'[d] \in {call[d], NoCall}
    BY <1>4, <1>d DEF Finish, Settled
  <2>2. call'[Me] = call[Me]
    BY <1>4, <1>d DEF Finish, Settled, Joined
  <2>3. UNCHANGED <<srv, jar, store, task, flight, init, told, lost>>
    BY <1>4 DEF Finish, session
  <2> QED
    BY <1>n, <1>e, <1>x, <2>1, <2>2, <2>3
<1>5. ASSUME NEW c \in AllCalls, RetryRead(c)
      PROVE  Fresh' /\ UNCHANGED <<srv, jar, store, task, flight, init, told, lost>>
  <2>1. c \in Calls /\ Ok(call[c]) /\ store.token = 0
    BY <1>5, <1>d, <1>e DEF RetryRead, Fresh
  <2>2. call' = [call EXCEPT ![c] = [Again(call[c], call[c].token) EXCEPT !.net = TRUE]]
    BY <1>5 DEF RetryRead
  <2>3. Ok(call'[c])
    BY <1>d, <2>1, <2>2 DEF Ok, Requests, Again, HeaderToken
  <2>4. \A d \in AllCalls \ {c} : call'[d] = call[d]
    BY <1>d, <2>2
  <2>5. UNCHANGED <<srv, jar, store, task, flight, init, told, lost>>
    BY <1>5 DEF RetryRead, session
  <2> QED
    BY <1>d, <1>e, <1>x, <2>1, <2>3, <2>4, <2>5
<1>6. ASSUME NEW c \in AllCalls, Replay(c) \/ AwaitRefresh(c) \/ SessionExpired(c)
      PROVE  FALSE
  BY <1>6, <1>d, <1>e DEF Replay, AwaitRefresh, SessionExpired, Rejected401, Fresh, Ok
<1> QED
  BY <1>1, <1>2, <1>3, <1>4, <1>5, <1>6 DEF Answer

LEMMA FlightStep ==
  ASSUME TypeOK, FlightInv, [Next]_vars
  PROVE  FlightInv'
<1> USE SessionAssumption
<1>t. /\ store \in Store /\ flight \in [Flights -> Refreshes]
      /\ "init" \notin AllCalls /\ "none" \notin AllCalls
      /\ Flights = AllCalls \cup {"init"} /\ DOMAIN call = AllCalls /\ Me \in AllCalls
      /\ Calls \subseteq AllCalls /\ call \in [AllCalls -> Requests]
  BY DEF TypeOK, Flights, AllCalls
\* Where somebody is signed in or a request is refused, the session has been looked for.
<1>w. ~Fresh => store.ready /\ ~Flying("init")
  BY DEF FlightInv
<1>1. ASSUME \/ \E c \in Calls, o \in {"get", "write"} : Send(c, o)
             \/ \E c \in AllCalls : Serve(c) \/ Break(c) \/ Answer(c)
      PROVE  FlightInv'
  <2>1. CASE Fresh
    BY <1>1, <2>1, FreshStep DEF FlightInv, Flying
  <2>2. CASE ~Fresh
    <3>1. CASE UNCHANGED <<store, task, flight>>
      BY <1>w, <2>2, <3>1 DEF FlightInv, Flying
    <3>2. ASSUME NEW c \in AllCalls, AwaitRefresh(c)
          PROVE  FlightInv'
      <4> DEFINE f == FlightFor(c)
      <4>1. /\ task' = f /\ UNCHANGED <<store, init>>
            /\ flight' = IF flight[f].phase = "idle" THEN Depart(f) ELSE flight
        BY <3>2 DEF AwaitRefresh, session
      <4>2. \A g \in AllCalls \ {f} : ~Flying(g)
        BY <1>t DEF FlightInv, FlightFor
      <4>3. f \in AllCalls /\ f # "init"
        BY <1>t DEF FlightFor, TypeOK
      <4>4. \A g \in Flights \ {f} : flight'[g] = flight[g]
        BY <1>t, <4>1, <4>3 DEF Depart
      <4>5. store'.ready /\ ~Flying("init")'
        BY <1>t, <1>w, <2>2, <4>1, <4>3, <4>4 DEF Flying
      <4>6. \A g \in AllCalls : Flying(g)' => task' = g
        BY <1>t, <4>1, <4>2, <4>4 DEF Flying
      <4> QED
        BY <4>5, <4>6 DEF FlightInv
    <3>3. ASSUME NEW c \in AllCalls, SessionExpired(c)
          PROVE  FlightInv'
      <4>1. store'.ready /\ UNCHANGED <<task, flight>>
        BY <3>3 DEF SessionExpired, ClearSession, NoStore
      <4> QED
        BY <1>w, <2>2, <4>1 DEF FlightInv, Flying
    <3> QED
      BY <1>1, <3>1, <3>2, <3>3 DEF Send, Serve, Break, Answer, Finish, RetryRead, Replay, session
  <2> QED
    BY <2>1, <2>2
<1>2. ASSUME NEW f \in Flights, ServeRefresh(f) \/ BreakRefresh(f)
      PROVE  FlightInv'
  <2>1. Flying(f) /\ UNCHANGED <<store, task, init, call>>
    BY <1>2 DEF ServeRefresh, BreakRefresh, Flying, session
  <2>2. \A g \in Flights \ {f} : flight'[g] = flight[g]
    BY <1>2, <1>t DEF ServeRefresh, BreakRefresh
  <2>3. Fresh => Fresh'
    BY <2>1 DEF Fresh
  <2> QED
    BY <1>t, <2>1, <2>2, <2>3 DEF FlightInv, Flying
<1>3. ASSUME NEW f \in Flights, Land(f)
      PROVE  FlightInv'
  <2>1. /\ f # "init" /\ Flying(f) /\ Landed(f) /\ UNCHANGED init
        /\ task' = IF task = f THEN "none" ELSE task
    BY <1>3 DEF Land, Refreshed, RefreshFailed, Flying
  <2>2. \A g \in Flights : ~Flying(g)'
    BY <1>t, <2>1, OneFlight DEF Landed, Flying, NoFlight
  <2>3. store'.ready
    <3>1. store.ready
      BY <1>t, <2>1 DEF FlightInv, Fresh
    <3> QED
      BY <1>3, <1>t, <3>1 DEF Land, Refreshed, RefreshFailed, session, Store
  <2> QED
    BY <1>t, <2>2, <2>3 DEF FlightInv
<1>4. CASE InitializeAuth
  <2>1. UNCHANGED <<store, task, call>> /\ ~store.ready /\ init' = "refresh" /\ flight' = Depart("init")
    BY <1>4 DEF InitializeAuth, session
  <2>2. \A g \in AllCalls : flight'[g] = flight[g]
    BY <1>t, <2>1 DEF Depart
  <2>3. Fresh => Fresh'
    BY <2>1 DEF Fresh
  <2> QED
    BY <2>1, <2>2, <2>3 DEF FlightInv, Flying
<1>5. CASE InitRefreshed \/ InitFailed
  <2>1. Flying("init") /\ Landed("init") /\ UNCHANGED task
    BY <1>5 DEF InitRefreshed, InitFailed, Flying
  <2>2. \A g \in Flights : ~Flying(g)'
    BY <1>t, <2>1, OneFlight DEF Landed, Flying, NoFlight
  <2>3. store'.ready
    <3>1. CASE InitRefreshed
      BY <1>t, <3>1 DEF InitRefreshed, Store
    <3>2. CASE InitFailed
      BY <3>2 DEF InitFailed, ClearSession, NoStore
    <3> QED
      BY <1>5, <3>1, <3>2
  <2> QED
    BY <1>t, <2>2, <2>3 DEF FlightInv
<1>6. CASE UserFetched \/ FetchFailed \/ FetchExpired
  <2>1. call[Me].phase # "idle" /\ UNCHANGED <<task, flight>>
    BY <1>6 DEF UserFetched, FetchFailed, FetchExpired
  <2>2. store.ready /\ ~Flying("init")
    BY <1>w, <2>1 DEF Fresh
  <2>3. store'.ready
    <3>1. CASE UserFetched
      BY <1>t, <3>1 DEF UserFetched, Store
    <3>2. CASE FetchFailed
      BY <1>t, <3>2 DEF FetchFailed, ForgetUser, Store
    <3>3. CASE FetchExpired
      BY <3>3 DEF FetchExpired, ClearSession, NoStore
    <3> QED
      BY <1>6, <3>1, <3>2, <3>3
  <2> QED
    BY <2>1, <2>2, <2>3 DEF FlightInv, Flying
<1>7. ASSUME NEW u \in Users, Login(u)
      PROVE  FlightInv'
  <2>1. store.ready /\ UNCHANGED <<task, flight, init>>
        /\ store' = [SetAuth(srv.serial + 1) EXCEPT !.fetching = TRUE]
    BY <1>7 DEF Login
  <2>2. store'.ready
    BY <1>t, <2>1 DEF SetAuth, Store
  <2> QED
    BY <2>1, <2>2 DEF FlightInv, Flying
<1>8. CASE HandleLogout \/ UpdatePassword \/ UpdateProfile
  <2>1. store.user # NoUser /\ UNCHANGED <<task, flight>>
    BY <1>8 DEF HandleLogout, UpdatePassword, UpdateProfile
  <2>2. store.ready /\ ~Flying("init")
    BY <1>w, <2>1 DEF Fresh
  <2>3. store'.ready
    <3>1. CASE ClearSession
      BY <3>1 DEF ClearSession, NoStore
    <3>2. CASE UpdateProfile
      BY <1>t, <2>2, <3>2 DEF UpdateProfile, Store
    <3>3. CASE UNCHANGED store
      BY <2>2, <3>3
    <3> QED
      BY <1>8, <3>1, <3>2, <3>3 DEF HandleLogout, UpdatePassword
  <2> QED
    BY <2>1, <2>2, <2>3 DEF FlightInv, Flying
<1>9. CASE UNCHANGED <<store, task, flight, init, call>>
  BY <1>9 DEF FlightInv, Flying, Fresh
<1>10. CASE Reload
  <2>1. Fresh'
    BY <1>10, <1>t DEF Reload, Fresh, NoStore, NoCall
  <2>2. \A g \in Flights : ~Flying(g)'
    BY <1>10 DEF Reload, Flying, NoFlight
  <2> QED
    BY <1>t, <2>1, <2>2 DEF FlightInv
<1>11. CASE \/ LoginRedirect \/ RouteGuard \/ \E p \in Public \cup Guarded : Navigate(p)
            \/ SaveDraft \/ AccessExpires \/ RevokeSession \/ OtherTab \/ UNCHANGED vars
  BY <1>9, <1>11 DEF LoginRedirect, RouteGuard, Navigate, SaveDraft, AccessExpires, RevokeSession,
     OtherTab, session, vars
<1> QED
  BY <1>1, <1>2, <1>3, <1>4, <1>5, <1>6, <1>7, <1>8, <1>10, <1>11 DEF Next

\* A request that comes to no refresh leaves what the tab and the server hold.
LEMMA KeptByRequest ==
  ASSUME TypeOK, KeptInv, ~lost', UNCHANGED <<srv, jar, flight, told, lost>>, Fresh => Fresh',
         \A c \in AllCalls : call'[c].phase # "expired"
  PROVE  KeptInv'
BY DEF KeptInv, Visiting, SignedIn, Flying

LEMMA KeptStep ==
  ASSUME TypeOK, FlightInv, KeptInv, [Next]_vars
  PROVE  KeptInv'
<1> USE SessionAssumption
<1> SUFFICES ASSUME ~lost' PROVE KeptInv'
  BY DEF KeptInv
<1>t. /\ store \in Store /\ flight \in [Flights -> Refreshes]
      /\ "init" \notin AllCalls /\ "none" \notin AllCalls
      /\ Flights = AllCalls \cup {"init"} /\ DOMAIN call = AllCalls /\ Me \in AllCalls
      /\ Calls \subseteq AllCalls /\ call \in [AllCalls -> Requests]
      /\ srv \in Srv
  BY DEF TypeOK, Flights, AllCalls
<1>k. ~lost => /\ told = 0 /\ \A c \in AllCalls : call[c].phase # "expired"
               /\ Visiting \/ SignedIn
  BY DEF KeptInv
<1>1. ASSUME \/ \E c \in Calls, o \in {"get", "write"} : Send(c, o)
             \/ \E c \in AllCalls : Serve(c) \/ Break(c) \/ Answer(c)
      PROVE  KeptInv'
  <2>0. lost' = lost
    BY <1>1 DEF Send, Serve, Break, Answer, Finish, RetryRead, Replay, AwaitRefresh, SessionExpired
  <2>1. ASSUME UNCHANGED <<srv, jar, flight, told>>, \A c \in AllCalls : call'[c].phase # "expired"
        PROVE  KeptInv'
    <3>1. CASE Fresh
      BY <1>1, <2>0, <2>1, <3>1, FreshStep, KeptByRequest
    <3>2. CASE ~Fresh
      BY <2>0, <2>1, <3>2, KeptByRequest
    <3> QED
      BY <3>1, <3>2
  <2>2. ASSUME NEW c \in AllCalls, \A d \in AllCalls \ {c} : call'[d] \in {call[d], NoCall},
               call'[c].phase # "expired", UNCHANGED <<srv, jar, flight, told>>
        PROVE  KeptInv'
    BY <1>k, <2>0, <2>1, <2>2 DEF NoCall
  <2>3. ASSUME NEW c \in Calls, NEW o \in {"get", "write"}, Send(c, o)
        PROVE  KeptInv'
    <3>1. call'[c].phase \in {"sent", "joined"}
      BY <1>t, <2>3 DEF Send, NoCall
    <3>2. \A d \in AllCalls \ {c} : call'[d] = call[d]
      BY <1>t, <2>3 DEF Send
    <3> QED
      BY <1>t, <2>2, <2>3, <3>1, <3>2 DEF Send, session
  <2>4. ASSUME NEW c \in AllCalls, Serve(c)
        PROVE  KeptInv'
    <3>1. PICK status, u : call' = [call EXCEPT ![c] = ServedAs(call[c], status, u)]
      BY <2>4 DEF Serve
    <3>2. call'[c].phase = "answered"
      BY <1>t, <3>1 DEF ServedAs, Requests
    <3>3. \A d \in AllCalls \ {c} : call'[d] = call[d]
      BY <1>t, <3>1
    <3> QED
      BY <2>2, <2>4, <3>2, <3>3 DEF Serve, session
  <2>5. ASSUME NEW c \in AllCalls, Break(c)
        PROVE  KeptInv'
    <3>1. call' = [call EXCEPT ![c] = [call[c] EXCEPT !.phase = "answered", !.status = "net"]]
      BY <2>5 DEF Break
    <3>2. call'[c].phase = "answered"
      BY <1>t, <3>1 DEF Requests
    <3>3. \A d \in AllCalls \ {c} : call'[d] = call[d]
      BY <1>t, <3>1
    <3> QED
      BY <2>2, <2>5, <3>2, <3>3 DEF Break, session
  <2>6. ASSUME NEW c \in AllCalls, Finish(c)
        PROVE  KeptInv'
    <3>1. \A d \in AllCalls : call'[d] \in {call[d], NoCall}
      BY <1>t, <2>6 DEF Finish, Settled
    <3>2. call'[c] = NoCall
      BY <1>t, <2>6 DEF Finish, Settled
    <3> QED
      BY <2>2, <2>6, <3>1, <3>2 DEF Finish, session, NoCall
  <2>7. ASSUME NEW c \in AllCalls, RetryRead(c)
        PROVE  KeptInv'
    <3>1. call' = [call EXCEPT ![c] = [Again(call[c], call[c].token) EXCEPT !.net = TRUE]]
      BY <2>7 DEF RetryRead
    <3>2. call'[c].phase = "sent"
      BY <1>t, <3>1 DEF Again, Requests
    <3>3. \A d \in AllCalls \ {c} : call'[d] = call[d]
      BY <1>t, <3>1
    <3> QED
      BY <2>2, <2>7, <3>2, <3>3 DEF RetryRead, session
  <2>8. ASSUME NEW c \in AllCalls, Replay(c)
        PROVE  KeptInv'
    <3>1. call' = [SettledFollowers(c) EXCEPT ![c] =
                     [Again(SettledFollowers(c)[c], store.token) EXCEPT !.retry = TRUE]]
      BY <2>8 DEF Replay
    <3>2. call'[c].phase = "sent"
      BY <1>t, <3>1, SettledType DEF Again, Requests
    <3>3. \A d \in AllCalls \ {c} : call'[d] \in {call[d], NoCall}
      BY <1>t, <3>1 DEF SettledFollowers
    <3> QED
      BY <2>2, <2>8, <3>2, <3>3 DEF Replay, session
  <2>9. ASSUME NEW c \in AllCalls, AwaitRefresh(c)
        PROVE  KeptInv'
    <3> DEFINE f == FlightFor(c)
               r == [SettledFollowers(c)[c] EXCEPT !.phase = "refreshing", !.status = "none",
                                                   !.token = 0, !.retry = TRUE, !.wait = f]
    <3>1. /\ call[c].phase = "answered" /\ call[c].status = "401"
          /\ call' = [SettledFollowers(c) EXCEPT ![c] = r]
          /\ flight' = IF flight[f].phase = "idle" THEN Depart(f) ELSE flight
          /\ UNCHANGED <<srv, jar, told, lost>>
      BY <2>9 DEF AwaitRefresh, Rejected401, session
    <3>2. ~Fresh
      BY <1>t, <3>1 DEF Fresh, AllCalls
    <3>3. ~Flying("init") /\ SignedIn
      BY <1>k, <2>0, <3>2 DEF FlightInv, Visiting
    <3>4. f \in AllCalls /\ \A g \in AllCalls \ {f} : ~Flying(g)
      BY <1>t DEF FlightInv, FlightFor, TypeOK
    <3>5. SignedIn'
      <4>1. CASE Flying(f)
        BY <3>1, <3>3, <4>1 DEF Flying, SignedIn
      <4>2. CASE ~Flying(f)
        <5>1. jar = srv.live
          BY <1>t, <3>3, <3>4, <4>2 DEF SignedIn
        <5>2. flight'[f] = [phase |-> "sent", cookie |-> jar, token |-> 0]
          BY <1>t, <3>1, <3>4, <4>2 DEF Depart, Flying
        <5>3. \A g \in Flights \ {f} : ~Flying(g)'
          BY <1>t, <3>1, <3>3, <3>4, <4>2 DEF Depart, Flying
        <5> QED
          BY <1>t, <3>1, <3>3, <3>4, <5>1, <5>2, <5>3 DEF SignedIn, Flying
      <4> QED
        BY <4>1, <4>2
    <3>6. call'[c].phase = "refreshing"
      BY <1>t, <3>1, SettledType DEF Requests
    <3>7. \A d \in AllCalls \ {c} : call'[d] \in {call[d], NoCall}
      BY <1>t, <3>1 DEF SettledFollowers
    <3> QED
      BY <1>k, <2>0, <3>1, <3>5, <3>6, <3>7 DEF KeptInv, NoCall
  <2>10. ASSUME NEW c \in AllCalls, SessionExpired(c)
         PROVE  FALSE
    BY <1>k, <2>0, <2>10 DEF SessionExpired
  <2> QED
    BY <1>1, <2>3, <2>4, <2>5, <2>6, <2>7, <2>8, <2>9, <2>10 DEF Answer
<1>2. ASSUME NEW f \in Flights, ServeRefresh(f)
      PROVE  KeptInv'
  <2> DEFINE fresh == srv.serial + 1
             in == flight[f].cookie # 0 /\ flight[f].cookie = srv.live
  <2>0. flight[f].phase = "sent" /\ Flying(f) /\ UNCHANGED <<jar, store, task, call, told>>
    BY <1>2 DEF ServeRefresh, session, Flying
  <2>1. CASE in /\ fresh <= MaxSerial
    <3>1. /\ srv' = [srv EXCEPT !.live = fresh, !.serial = fresh, !.access = @ \cup {fresh}]
          /\ flight' = [flight EXCEPT ![f] = [@ EXCEPT !.phase = "good", !.token = fresh]]
          /\ lost' = lost
      BY <1>2, <2>1 DEF ServeRefresh
    <3>2. srv'.live = fresh /\ fresh # 0
      BY <1>t, <3>1 DEF Srv
    <3>3. flight'[f].phase = "good" /\ flight'[f].token = fresh
      BY <1>t, <3>1 DEF Refreshes
    <3>4. \A g \in Flights \ {f} : ~Flying(g)'
      BY <1>t, <2>0, <3>1, OneFlight DEF Flying
    <3>5. SignedIn'
      BY <3>2, <3>3, <3>4 DEF SignedIn, Flying
    <3> QED
      BY <1>k, <2>0, <3>1, <3>5 DEF KeptInv
  <2>2. CASE ~(in /\ fresh <= MaxSerial)
    <3>1. /\ flight' = [flight EXCEPT ![f] = [@ EXCEPT !.phase = "refused"]]
          /\ ~lost /\ ~in /\ UNCHANGED srv
      BY <1>2, <2>2 DEF ServeRefresh
    <3>2. Visiting
      BY <1>k, <2>0, <3>1 DEF SignedIn
    <3>3. \A g \in Flights \ {f} : flight'[g] = flight[g]
      BY <1>t, <3>1
    <3>4. flight'[f].phase = "refused" /\ flight'[f].cookie = flight[f].cookie
      BY <1>t, <3>1 DEF Refreshes
    <3>5. Visiting'
      BY <2>0, <3>2, <3>3, <3>4 DEF Visiting, Fresh, Flying
    <3> QED
      BY <1>k, <2>0, <3>1, <3>5 DEF KeptInv
  <2> QED
    BY <2>1, <2>2
<1>3. ASSUME NEW f \in Flights, BreakRefresh(f)
      PROVE  FALSE
  BY <1>3 DEF BreakRefresh
<1>4. ASSUME NEW f \in Flights, Refreshed(f)
      PROVE  KeptInv'
  <2>1. /\ flight[f].phase = "good" /\ Flying(f) /\ jar' = flight[f].token /\ Landed(f)
        /\ UNCHANGED <<srv, told, lost>>
    BY <1>4 DEF Refreshed, Flying
  <2>2. SignedIn
    BY <1>k, <2>1 DEF Visiting
  <2>3. \A g \in Flights : ~Flying(g)'
    BY <1>t, <2>1, OneFlight DEF Landed, Flying, NoFlight
  <2>4. SignedIn'
    BY <2>1, <2>2, <2>3 DEF SignedIn
  <2>5. \A c \in AllCalls : call'[c].phase # "expired"
    <3> SUFFICES ASSUME NEW c \in AllCalls PROVE call'[c].phase # "expired"
      OBVIOUS
    <3>1. CASE c \in Waiting(f)
      <4>1. call'[c] = [call[c] EXCEPT !.phase = "sent", !.token = flight[f].token,
                                       !.status = "none", !.wait = "none"]
        BY <1>4, <3>1 DEF Refreshed
      <4> QED
        BY <1>t, <4>1 DEF Requests
    <3>2. CASE c \notin Waiting(f)
      <4>1. call'[c] = call[c]
        BY <1>4, <3>2 DEF Refreshed
      <4> QED
        BY <1>k, <2>1, <4>1
    <3> QED
      BY <3>1, <3>2
  <2> QED
    BY <1>k, <2>1, <2>4, <2>5 DEF KeptInv
<1>5. ASSUME NEW f \in Flights, RefreshFailed(f)
      PROVE  FALSE
  <2>1. f \in AllCalls /\ flight[f].phase \in {"refused", "broken"} /\ Flying(f) /\ ~lost
    BY <1>5, <1>t DEF RefreshFailed, Flying
  <2>2. ~Fresh
    BY <1>t, <2>1 DEF FlightInv, Fresh
  <2> QED
    BY <1>k, <2>1, <2>2 DEF Visiting, SignedIn
<1>6. CASE InitializeAuth
  <2>1. /\ flight' = Depart("init") /\ init = "idle" /\ ~store.ready
        /\ UNCHANGED <<srv, jar, store, task, call, told, lost>>
    BY <1>6 DEF InitializeAuth, session
  <2>2. \A g \in Flights : ~Flying(g)
    BY <1>t, <2>1 DEF FlightInv, Fresh
  <2>3. flight'["init"] = [phase |-> "sent", cookie |-> jar, token |-> 0]
    BY <1>t, <2>1 DEF Depart
  <2>4. \A g \in Flights \ {"init"} : ~Flying(g)'
    BY <1>t, <2>1, <2>2 DEF Depart, Flying
  <2>5. CASE Visiting
    <3>1. Visiting'
      BY <2>1, <2>3, <2>4, <2>5 DEF Visiting, Fresh, Flying
    <3> QED
      BY <1>k, <2>1, <3>1 DEF KeptInv
  <2>6. CASE SignedIn
    <3>1. SignedIn'
      BY <1>t, <2>1, <2>2, <2>3, <2>4, <2>6 DEF SignedIn, Flying
    <3> QED
      BY <1>k, <2>1, <3>1 DEF KeptInv
  <2> QED
    BY <1>k, <2>1, <2>5, <2>6
<1>7. CASE InitRefreshed
  <2>1. /\ flight["init"].phase = "good" /\ Flying("init") /\ jar' = flight["init"].token
        /\ Landed("init") /\ AskWhoAmI /\ UNCHANGED <<srv, told, lost>>
    BY <1>7 DEF InitRefreshed, Flying
  <2>2. SignedIn
    BY <1>k, <1>t, <2>1 DEF Visiting
  <2>3. \A g \in Flights : ~Flying(g)'
    BY <1>t, <2>1, OneFlight DEF Landed, Flying, NoFlight
  <2>4. SignedIn'
    BY <1>t, <2>1, <2>2, <2>3 DEF SignedIn
  <2>5. \A c \in AllCalls : call'[c].phase # "expired"
    BY <1>k, <1>t, <2>1 DEF AskWhoAmI, NoCall
  <2> QED
    BY <1>k, <2>1, <2>4, <2>5 DEF KeptInv
<1>8. CASE InitFailed
  <2>1. /\ flight["init"].phase \in {"refused", "broken"} /\ Flying("init") /\ Landed("init")
        /\ ClearSession /\ UNCHANGED <<srv, jar, task, call, told, lost>>
    BY <1>8 DEF InitFailed, Flying
  <2>2. Visiting
    BY <1>k, <1>t, <2>1 DEF SignedIn
  <2>3. \A g \in Flights : ~Flying(g)'
    BY <1>t, <2>1, OneFlight DEF Landed, Flying, NoFlight
  <2>4. store'.token = 0 /\ store'.user = NoUser
    BY <2>1 DEF ClearSession, NoStore
  <2>5. Visiting'
    BY <2>1, <2>2, <2>3, <2>4 DEF Visiting, Fresh
  <2> QED
    BY <1>k, <2>1, <2>5 DEF KeptInv
<1>9. CASE UserFetched \/ FetchFailed
  <2>1. /\ call[Me].phase = "answered" /\ UNCHANGED <<srv, jar, flight, told>> /\ FetchDone
        /\ lost' = lost \/ lost' = TRUE
    BY <1>9 DEF UserFetched, FetchFailed
  <2>2. ~Fresh /\ ~lost
    BY <2>1 DEF Fresh
  <2>3. SignedIn
    BY <1>k, <2>2 DEF Visiting
  <2>4. \A c \in AllCalls : call'[c].phase # "expired"
    BY <1>k, <1>t, <2>1, <2>2 DEF FetchDone, NoCall
  <2>5. SignedIn'
    BY <2>1, <2>3 DEF SignedIn, Flying
  <2> QED
    BY <1>k, <2>1, <2>2, <2>4, <2>5 DEF KeptInv
<1>10. CASE FetchExpired
  BY <1>10, <1>k, <1>t DEF FetchExpired
<1>11. ASSUME NEW u \in Users, Login(u)
       PROVE  KeptInv'
  <2> DEFINE fresh == srv.serial + 1
  <2>1. /\ srv' = [live |-> fresh, access |-> srv.access \cup {fresh}, owner |-> u, serial |-> fresh]
        /\ jar' = fresh /\ told' = 0 /\ AskWhoAmI /\ UNCHANGED flight
    BY <1>11 DEF Login
  <2>2. (\A f \in Flights : ~Flying(f)) /\ \A c \in Calls : call[c].phase = "idle"
    BY <1>11 DEF Login, Flying
  <2>3. fresh \in Nat /\ fresh # 0
    BY <1>t DEF Srv
  <2> HIDE DEF fresh
  <2>4. SignedIn'
    BY <2>1, <2>2, <2>3 DEF SignedIn, Flying
  <2>5. \A c \in AllCalls : call'[c].phase # "expired"
    BY <1>t, <2>1, <2>2 DEF AskWhoAmI, NoCall, AllCalls
  <2> QED
    BY <2>1, <2>4, <2>5 DEF KeptInv
<1>12. CASE UpdateProfile
  <2>1. /\ store.user # NoUser /\ AskWhoAmI /\ UNCHANGED <<srv, jar, flight, told, lost>>
    BY <1>12 DEF UpdateProfile
  <2>2. SignedIn
    BY <1>k, <2>1 DEF Visiting, Fresh
  <2>3. SignedIn'
    BY <2>1, <2>2 DEF SignedIn, Flying
  <2>4. \A c \in AllCalls : call'[c].phase # "expired"
    BY <1>k, <1>t, <2>1 DEF AskWhoAmI, NoCall
  <2> QED
    BY <1>k, <2>1, <2>3, <2>4 DEF KeptInv
<1>13. CASE Reload
  <2>1. /\ ~lost /\ (\A f \in Flights : ~Flying(f)) /\ store' = NoStore /\ task' = "none" /\ told' = 0
        /\ flight' = [f \in Flights |-> NoFlight] /\ call' = [c \in AllCalls |-> NoCall]
        /\ UNCHANGED srv
    BY <1>13 DEF Reload, Flying
  <2>2. jar' = jar
    BY <1>13, <2>1 DEF Reload, Flying
  <2>3. Fresh' /\ \A c \in AllCalls : call'[c].phase # "expired"
    BY <1>t, <2>1 DEF Fresh, NoStore, NoCall
  <2>4. \A g \in Flights : ~Flying(g)'
    BY <2>1 DEF Flying, NoFlight
  <2>5. Visiting => Visiting'
    BY <2>2, <2>3, <2>4 DEF Visiting
  <2>6. SignedIn => SignedIn'
    BY <2>1, <2>2, <2>4 DEF SignedIn
  <2> QED
    BY <1>k, <2>1, <2>3, <2>5, <2>6 DEF KeptInv
<1>14. CASE AccessExpires
  <2>1. srv' = [srv EXCEPT !.access = {}] /\ UNCHANGED <<jar, store, task, flight, call, told, lost>>
    BY <1>14 DEF AccessExpires, session
  <2>2. srv'.live = srv.live
    BY <1>t, <2>1 DEF Srv
  <2> QED
    BY <2>1, <2>2 DEF KeptInv, Visiting, SignedIn, Fresh, Flying
<1>15. CASE HandleLogout \/ UpdatePassword \/ RevokeSession \/ OtherTab
  BY <1>15 DEF HandleLogout, UpdatePassword, RevokeSession, OtherTab
<1>16. CASE UNCHANGED <<srv, jar, store, task, flight, call, told, lost>>
  BY <1>16 DEF KeptInv, Visiting, SignedIn, Fresh, Flying
<1>17. CASE LoginRedirect \/ RouteGuard \/ (\E p \in Public \cup Guarded : Navigate(p))
            \/ SaveDraft \/ UNCHANGED vars
  BY <1>16, <1>17 DEF LoginRedirect, RouteGuard, Navigate, SaveDraft, session, vars
<1> QED
  BY <1>1, <1>2, <1>3, <1>4, <1>5, <1>6, <1>7, <1>8, <1>9, <1>10, <1>11, <1>12, <1>13, <1>14,
     <1>15, <1>17 DEF Next, Land

LEMMA KeptInit == Init => FlightInv /\ KeptInv
<1> SUFFICES ASSUME Init PROVE FlightInv /\ KeptInv
  OBVIOUS
<1>1. Fresh /\ \A c \in AllCalls : call[c].phase = "idle"
  BY DEF Init, Fresh, NoStore, NoCall, AllCalls
<1>2. \A f \in Flights : ~Flying(f)
  BY DEF Init, Flying, NoFlight
<1>3. \E c \in {0, 1} : srv.live = c /\ jar = c
  BY DEF Init
<1>4. Visiting \/ SignedIn
  BY <1>1, <1>2, <1>3 DEF Visiting, SignedIn
<1>5. told = 0
  BY DEF Init
<1> QED
  BY <1>1, <1>2, <1>4, <1>5 DEF FlightInv, KeptInv, Flights

\* The refreshes of the tab, each of which replaces the token it is made with, never end its
\* own session: there is one at a time, with the cookie of the moment (getRefreshTokenTask and
\* the comparison of tokens in utils/http.ts, initializeAuth in store/auth.ts).
THEOREM OwnRotationIsHarmless == Spec => []OwnRotationKeepsSession
<1>1. Init => TypeOK /\ FlightInv /\ KeptInv
  BY TypeInit, KeptInit
<1>2. TypeOK /\ FlightInv /\ KeptInv /\ [Next]_vars => (TypeOK /\ FlightInv /\ KeptInv)'
  BY TypeStep, FlightStep, KeptStep
<1>3. TypeOK /\ KeptInv => OwnRotationKeepsSession
  BY DEF TypeOK, KeptInv, OwnRotationKeepsSession
<1> QED
  BY <1>1, <1>2, <1>3, PTL DEF Spec
=============================================================================
