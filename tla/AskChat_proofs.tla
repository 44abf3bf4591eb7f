---------------------------- MODULE AskChat_proofs ----------------------------
(***************************************************************************)
(* The chat never shows anything of an account that left (AskChat): the    *)
(* invariant that says so by itself, and the proof that every step of the  *)
(* page keeps it.  The current stream, and no other, may change what is    *)
(* open; it was started by the account signed in, because a change of the  *)
(* account aborts it (Ask.tsx:95).  So was every request for the list or   *)
(* for a chat that is not aborted (Ask.tsx:91, 102).                       *)
(***************************************************************************)
EXTENDS AskChat, SequenceTheorems, TLAPS

Chat    == Accounts \X Nat
Message == [id : Nat, by : Accounts, whole : BOOLEAN]
Stream  == [id : Nat, turn : Nat, by : Accounts, chat : Chat,
            at : {"sent", "refresh", "again", "open"}, live : BOOLEAN]
Ask     == [by : Accounts, live : BOOLEAN]
Load    == [chat : Chat, by : Accounts, live : BOOLEAN]
Removal == [op : {"chat"}, id : Chat, q : Chat]
ChatJob == [op : {"chat"}, id : Chat, q : Chat, by : Accounts]

AskUi ==
  [init : BOOLEAN, level : {"guest", "user", "editor"}, who : Accounts, active : Accounts,
   msgs : Seq(Message), sid : Chat, sref : Chat, list : SUBSET Chat, asks : SUBSET Ask,
   loads : SUBSET Load, streaming : BOOLEAN, ctl : Nat,
   streams : SUBSET Stream, jobs : SUBSET ChatJob, req : Nat, chats : SUBSET Chat]

\* The turns, the open chat and the list are those of the account.
OwnTurns(u) == \A i \in DOMAIN u.msgs : u.msgs[i].by = u.who
OwnChats(u) == \A c \in u.list \cup {u.sid, u.sref} : c # NoChat => c[1] = u.who
\* A stream is numbered, asks in a chat of the one who asked, and the current one is of the
\* account signed in.
StreamsOK(u) ==
  /\ \A s \in u.streams : s.id \in 1..u.req /\ (s.chat # NoChat => s.chat[1] = s.by)
  /\ u.ctl # 0 => \E s \in u.streams : s.id = u.ctl
OwnStream(u) == \A s \in u.streams : s.id = u.ctl => s.by = u.who
\* A request whose answer will count was sent by the account signed in.
OwnAsks(u)  == \A r \in u.asks : r.live => r.by = u.who
OwnLoads(u) == \A r \in u.loads : r.live => r.by = u.who

AskInv(u) == /\ u \in AskUi /\ u.active = u.who
             /\ OwnTurns(u) /\ OwnChats(u) /\ StreamsOK(u) /\ OwnStream(u)
             /\ OwnAsks(u) /\ OwnLoads(u)

\* What the invariant says of the whole state, whatever page it is.
ChatInv == page = "ask" => AskInv(ui) /\ (dialog = NoDialog \/ dialog \in Removal)

------------------------------------------------------------------------------
(* The operators the page is built from.                                   *)

LEMMA AccountSet == Guest \in Accounts /\ NoChat \in Chat
BY DEF Accounts, Guest, NoChat, Chat

\* Aborted requests are the same requests, and none is live.
LEMMA AbortedAsks ==
  ASSUME NEW A \in SUBSET Ask
  PROVE  Aborted(A) \in SUBSET Ask /\ \A r \in Aborted(A) : ~r.live
BY DEF Aborted, Ask

LEMMA AbortedLoads ==
  ASSUME NEW L \in SUBSET Load
  PROVE  Aborted(L) \in SUBSET Load /\ \A r \in Aborted(L) : ~r.live
BY DEF Aborted, Load

\* The list is asked for or emptied; nothing else changes.
LEMMA FetchSessionsKeeps ==
  ASSUME NEW u \in AskUi
  PROVE  \E l \in {u.list, {}}, A \in SUBSET Ask :
           /\ FetchSessions(u) = [u EXCEPT !.list = l, !.asks = A]
           /\ \A r \in A : r.live => r.by = u.who
<1> DEFINE A == Aborted(u.asks)
           t == [by |-> u.who, live |-> TRUE]
           B == A \cup {t}
<1>0. A \in SUBSET Ask /\ (\A r \in A : ~r.live) /\ t \in Ask /\ t.by = u.who
  <2>1. u.asks \in SUBSET Ask /\ u.who \in Accounts
    BY DEF AskUi
  <2> QED
    BY <2>1, AbortedAsks DEF Ask
<1>1. CASE u.who = Guest \/ ~canAccess(u)
  <2>1. FetchSessions(u) = [u EXCEPT !.list = {}, !.asks = A]
    BY <1>1 DEF FetchSessions
  <2> QED
    BY <1>0, <2>1
<1>2. CASE ~(u.who = Guest \/ ~canAccess(u))
  <2>1. FetchSessions(u) = [u EXCEPT !.asks = B]
    BY <1>2 DEF FetchSessions
  <2> HIDE DEF A, t
  <2>3. B \in SUBSET Ask /\ \A r \in B : r.live => r.by = u.who
    BY <1>0
  <2> HIDE DEF B
  <2>2. [u EXCEPT !.asks = B] = [u EXCEPT !.list = u.list, !.asks = B]
    BY DEF AskUi
  <2> QED
    BY <2>1, <2>2, <2>3
<1> QED
  BY <1>1, <1>2

LEMMA AbortsKeeps ==
  ASSUME NEW u \in AskUi, StreamsOK(u)
  PROVE  /\ Aborts(u) \in AskUi /\ StreamsOK(Aborts(u)) /\ Aborts(u).ctl = 0 /\ OwnLoads(Aborts(u))
         /\ Aborts(u).who = u.who /\ Aborts(u).req = u.req /\ Aborts(u).asks = u.asks
<1> DEFINE S == Aborted(u.streams)
           L == Aborted(u.loads)
           v == [u EXCEPT !.streams = S, !.ctl = 0, !.loads = L]
<1>1. Aborts(u) = v
  BY DEF Aborts
<1>2. S \in SUBSET Stream /\ \A x \in S : x.id \in 1..u.req /\ (x.chat # NoChat => x.chat[1] = x.by)
  <2> SUFFICES ASSUME NEW s \in u.streams
               PROVE  LET x == [s EXCEPT !.live = FALSE]
                      IN  /\ x \in Stream /\ x.id \in 1..u.req
                          /\ (x.chat # NoChat => x.chat[1] = x.by)
    BY DEF Aborted
  <2>1. s \in Stream /\ s.id \in 1..u.req /\ (s.chat # NoChat => s.chat[1] = s.by)
    BY DEF AskUi, StreamsOK
  <2> QED
    BY <2>1 DEF Stream
<1>3. L \in SUBSET Load /\ \A r \in L : ~r.live
  BY AbortedLoads DEF AskUi
<1> HIDE DEF S, L
<1>4. /\ v \in AskUi /\ v.ctl = 0 /\ v.who = u.who /\ v.req = u.req /\ v.streams = S
      /\ v.loads = L /\ v.asks = u.asks
  BY <1>2, <1>3 DEF AskUi
<1> HIDE DEF v
<1> QED
  BY <1>1, <1>2, <1>3, <1>4 DEF StreamsOK, OwnLoads

\* Another account, or access withdrawn: what is left is of no account.
LEMMA ForgetAccountInv ==
  ASSUME NEW u \in AskUi, StreamsOK(u), OwnAsks(u),
         u.active = u.who => OwnTurns(u) /\ OwnChats(u) /\ OwnStream(u) /\ OwnLoads(u)
  PROVE  AskInv(ForgetAccount(u)) /\ ForgetAccount(u).who = u.who
<1>1. CASE u.active = u.who /\ canAccess(u)
  BY <1>1 DEF ForgetAccount, AskInv
<1>2. CASE ~(u.active = u.who /\ canAccess(u))
  <2> DEFINE a == Aborts(u)
             v == [a EXCEPT !.active = u.who, !.sref = NoChat, !.sid = NoChat, !.msgs = <<>>,
                            !.list = {}, !.streaming = FALSE]
  <2>1. ForgetAccount(u) = v
    BY <1>2 DEF ForgetAccount
  <2>2. a \in AskUi /\ StreamsOK(a) /\ a.ctl = 0 /\ a.who = u.who /\ OwnLoads(a) /\ a.asks = u.asks
    BY AbortsKeeps
  <2>3. u.who \in Accounts
    BY DEF AskUi
  <2> HIDE DEF a
  <2>4. /\ v \in AskUi /\ v.active = u.who /\ v.who = u.who /\ v.msgs = <<>> /\ v.list = {}
        /\ v.sid = NoChat /\ v.sref = NoChat /\ v.streams = a.streams /\ v.ctl = 0 /\ v.req = a.req
        /\ v.loads = a.loads /\ v.asks = a.asks
    BY <2>2, <2>3, AccountSet, <<>> \in Seq(Message) DEF AskUi
  <2> HIDE DEF v
  <2>5. StreamsOK(v) /\ OwnStream(v) /\ OwnLoads(v) /\ OwnAsks(v)
    BY <2>2, <2>4 DEF StreamsOK, OwnStream, OwnLoads, OwnAsks
  <2>6. OwnTurns(v) /\ OwnChats(v)
    BY <2>4 DEF OwnTurns, OwnChats
  <2> QED
    BY <2>1, <2>4, <2>5, <2>6 DEF AskInv
<1> QED
  BY <1>1, <1>2

\* Whoever is signed in from now on.
LEMMA AccountIsInv ==
  ASSUME NEW u, AskInv(u), NEW w \in Accounts
  PROVE  AskInv(AccountIs(u, w)) /\ AccountIs(u, w).who = w
<1> DEFINE x == [u EXCEPT !.who = w]
<1>1. x \in AskUi /\ x.who = w /\ x.active = u.who /\ x.list = u.list /\ x.sid = u.sid /\ x.sref = u.sref
      /\ x.msgs = u.msgs /\ x.streams = u.streams /\ x.ctl = u.ctl /\ x.req = u.req /\ x.loads = u.loads
  BY DEF AskInv, AskUi
<1>2. AccountIs(u, w) = ForgetAccount(FetchSessions(x))
  BY DEF AccountIs
<1> HIDE DEF x
<1>3. PICK l \in {x.list, {}}, A \in SUBSET Ask :
        /\ FetchSessions(x) = [x EXCEPT !.list = l, !.asks = A]
        /\ \A r \in A : r.live => r.by = x.who
  BY <1>1, FetchSessionsKeeps
<1> DEFINE v == [x EXCEPT !.list = l, !.asks = A]
<1>4. /\ v \in AskUi /\ v.who = w /\ v.active = u.who /\ v.list \subseteq u.list /\ v.sid = u.sid
      /\ v.sref = u.sref /\ v.msgs = u.msgs /\ v.streams = u.streams /\ v.ctl = u.ctl /\ v.req = u.req
      /\ v.loads = u.loads /\ v.asks = A
  BY <1>1 DEF AskUi
<1>7. AccountIs(u, w) = ForgetAccount(v)
  BY <1>2, <1>3
<1> HIDE DEF v
<1>5. StreamsOK(v) /\ OwnAsks(v)
  BY <1>1, <1>3, <1>4 DEF AskInv, StreamsOK, OwnAsks
<1>6. v.active = v.who => OwnTurns(v) /\ OwnChats(v) /\ OwnStream(v) /\ OwnLoads(v)
  BY <1>4 DEF AskInv, OwnTurns, OwnChats, OwnStream, OwnLoads
<1> QED
  BY <1>4, <1>5, <1>6, <1>7, ForgetAccountInv

\* Turns marked as broken off are the same turns.
LEMMA MarkedInv ==
  ASSUME NEW u, AskInv(u), NEW turn
  PROVE  LET v == markAssistantIncomplete(u, turn)
         IN  AskInv(v) /\ v.streams = u.streams /\ v.ctl = u.ctl
<1> DEFINE m == [i \in DOMAIN u.msgs |->
                   IF u.msgs[i].id = turn THEN [u.msgs[i] EXCEPT !.whole = FALSE] ELSE u.msgs[i]]
           v == [u EXCEPT !.msgs = m]
<1>1. markAssistantIncomplete(u, turn) = v
  BY DEF markAssistantIncomplete
<1>2. u.msgs \in Seq(Message)
  BY DEF AskInv, AskUi
<1>3. ASSUME NEW i \in DOMAIN u.msgs
      PROVE  m[i] \in Message /\ m[i].by = u.msgs[i].by
  <2>1. u.msgs[i] \in Message
    BY <1>2
  <2>2. [u.msgs[i] EXCEPT !.whole = FALSE] \in Message /\ [u.msgs[i] EXCEPT !.whole = FALSE].by = u.msgs[i].by
    BY <2>1 DEF Message
  <2> QED
    BY <2>1, <2>2
<1>4. m \in Seq(Message) /\ DOMAIN m = DOMAIN u.msgs
  <2>1. Len(u.msgs) \in Nat /\ DOMAIN u.msgs = 1..Len(u.msgs)
    BY <1>2
  <2>2. m \in [1..Len(u.msgs) -> Message]
    BY <1>3, <2>1
  <2> QED
    BY <2>1, <2>2, SeqDef
<1> HIDE DEF m
<1>5. /\ v \in AskUi /\ v.msgs = m /\ v.who = u.who /\ v.active = u.active /\ v.list = u.list
      /\ v.sid = u.sid /\ v.sref = u.sref /\ v.streams = u.streams /\ v.ctl = u.ctl /\ v.req = u.req
      /\ v.asks = u.asks /\ v.loads = u.loads
  BY <1>4 DEF AskInv, AskUi
<1> HIDE DEF v
<1>6. OwnTurns(v)
  BY <1>3, <1>4, <1>5 DEF AskInv, OwnTurns
<1> QED
  BY <1>1, <1>5, <1>6 DEF AskInv, OwnChats, StreamsOK, OwnStream, OwnAsks, OwnLoads

\* A chat that is opened, or put away, is of the account.
LEMMA OpenedInv ==
  ASSUME NEW u, AskInv(u), NEW c \in Chat, c # NoChat => c[1] = u.who
  PROVE  AskInv([u EXCEPT !.sref = c, !.sid = c])
<1> DEFINE v == [u EXCEPT !.sref = c, !.sid = c]
<1>1. /\ v \in AskUi /\ v.msgs = u.msgs /\ v.who = u.who /\ v.active = u.active /\ v.list = u.list
      /\ v.sid = c /\ v.sref = c /\ v.streams = u.streams /\ v.ctl = u.ctl /\ v.req = u.req
      /\ v.asks = u.asks /\ v.loads = u.loads
  BY DEF AskInv, AskUi
<1> HIDE DEF v
<1>2. AskInv(v)
  BY <1>1 DEF AskInv, OwnTurns, OwnChats, StreamsOK, OwnStream, OwnAsks, OwnLoads
<1> QED
  BY <1>2 DEF v

LEMMA NewChatInv ==
  ASSUME NEW u, AskInv(u)
  PROVE  AskInv(NewChat(u))
<1> DEFINE S == {[s EXCEPT !.live = s.live /\ s.id # u.ctl] : s \in u.streams}
           L == Aborted(u.loads)
           v == [u EXCEPT !.streams = S, !.ctl = 0, !.loads = L, !.sref = NoChat, !.sid = NoChat,
                          !.msgs = <<>>]
<1>1. NewChat(u) = v
  BY DEF NewChat
<1>2. S \in SUBSET Stream /\ \A x \in S : x.id \in 1..u.req /\ (x.chat # NoChat => x.chat[1] = x.by)
  <2> SUFFICES ASSUME NEW s \in u.streams
               PROVE  LET x == [s EXCEPT !.live = s.live /\ s.id # u.ctl]
                      IN  /\ x \in Stream /\ x.id \in 1..u.req
                          /\ (x.chat # NoChat => x.chat[1] = x.by)
    OBVIOUS
  <2>1. s \in Stream /\ s.id \in 1..u.req /\ (s.chat # NoChat => s.chat[1] = s.by)
    BY DEF AskInv, AskUi, StreamsOK
  <2>2. (s.live /\ s.id # u.ctl) \in BOOLEAN
    OBVIOUS
  <2> HIDE DEF S
  <2> QED
    BY <2>1, <2>2 DEF Stream
<1>3. L \in SUBSET Load /\ \A r \in L : ~r.live
  BY AbortedLoads DEF AskInv, AskUi
<1> HIDE DEF S, L
<1>4. /\ v \in AskUi /\ v.ctl = 0 /\ v.who = u.who /\ v.active = u.active /\ v.req = u.req
      /\ v.asks = u.asks /\ v.loads = L
      /\ v.streams = S /\ v.msgs = <<>> /\ v.sid = NoChat /\ v.sref = NoChat /\ v.list = u.list
  BY <1>2, <1>3, AccountSet, <<>> \in Seq(Message) DEF AskInv, AskUi
<1> HIDE DEF v
<1>5. StreamsOK(v) /\ OwnStream(v)
  BY <1>2, <1>4 DEF StreamsOK, OwnStream
<1>6. OwnTurns(v) /\ OwnChats(v) /\ OwnAsks(v) /\ OwnLoads(v)
  BY <1>3, <1>4 DEF AskInv, OwnTurns, OwnChats, OwnAsks, OwnLoads
<1> QED
  BY <1>1, <1>4, <1>5, <1>6 DEF AskInv

\* The question of the account signed in, in a chat of its own.
LEMMA RunStreamInv ==
  ASSUME NEW u, AskInv(u), NEW turn \in Nat
  PROVE  AskInv(RunStream(u, turn))
<1> DEFINE n == u.req + 1
           t == [id |-> n, turn |-> turn, by |-> u.who, chat |-> u.sref, at |-> "sent", live |-> TRUE]
           S == u.streams \cup {t}
           v == [u EXCEPT !.req = n, !.ctl = n, !.streaming = TRUE, !.streams = S]
<1>1. RunStream(u, turn) = v
  BY DEF RunStream
<1>2. u \in AskUi /\ u.req \in Nat /\ u.who \in Accounts /\ u.sref \in Chat
  BY DEF AskInv, AskUi
<1>3. t \in Stream /\ t.id = n /\ t.by = u.who /\ t.chat = u.sref
  BY <1>2 DEF Stream
<1>4. u.sref # NoChat => u.sref[1] = u.who
  BY DEF AskInv, OwnChats
<1>5. n \in Nat /\ n = u.req + 1 /\ S = u.streams \cup {t}
  BY <1>2
<1> HIDE DEF n, t, S
<1>6. S \in SUBSET Stream
  BY <1>2, <1>3, <1>5 DEF AskUi
<1>7. /\ v \in AskUi /\ v.ctl = n /\ v.who = u.who /\ v.active = u.active /\ v.req = n
      /\ v.asks = u.asks /\ v.loads = u.loads
      /\ v.streams = S /\ v.msgs = u.msgs /\ v.sid = u.sid /\ v.sref = u.sref /\ v.list = u.list
  BY <1>2, <1>5, <1>6 DEF AskUi
<1> HIDE DEF v
<1>8. \A s \in u.streams : s.id \in 1..u.req /\ (s.chat # NoChat => s.chat[1] = s.by)
  BY DEF AskInv, StreamsOK
<1>9. StreamsOK(v) /\ OwnStream(v)
  BY <1>2, <1>3, <1>4, <1>5, <1>7, <1>8 DEF StreamsOK, OwnStream
<1> QED
  BY <1>1, <1>7, <1>9 DEF AskInv, OwnTurns, OwnChats, OwnAsks, OwnLoads

\* A stream that takes the place of one with its number and its account.
LEMMA ReplacedInv ==
  ASSUME NEW u, AskInv(u), NEW s \in u.streams, NEW t \in Stream, t.id = s.id, t.by = s.by,
         t.chat # NoChat => t.chat[1] = t.by
  PROVE  AskInv([u EXCEPT !.streams = (u.streams \ {s}) \cup {t}])
<1> DEFINE S == (u.streams \ {s}) \cup {t}
           v == [u EXCEPT !.streams = S]
<1>1. S \in SUBSET Stream
  BY DEF AskInv, AskUi
<1>2. \A x \in S : x.id \in 1..u.req /\ (x.chat # NoChat => x.chat[1] = x.by)
  BY DEF AskInv, StreamsOK
<1>3. u.ctl # 0 => \E x \in S : x.id = u.ctl
  BY DEF AskInv, StreamsOK
<1>4. \A x \in S : x.id = u.ctl => x.by = u.who
  BY DEF AskInv, OwnStream
<1> HIDE DEF S
<1>5. /\ v \in AskUi /\ v.msgs = u.msgs /\ v.who = u.who /\ v.active = u.active /\ v.list = u.list
      /\ v.sid = u.sid /\ v.sref = u.sref /\ v.streams = S /\ v.ctl = u.ctl /\ v.req = u.req
      /\ v.asks = u.asks /\ v.loads = u.loads
  BY <1>1 DEF AskInv, AskUi
<1> HIDE DEF v
<1>6. AskInv(v)
  BY <1>2, <1>3, <1>4, <1>5 DEF AskInv, OwnTurns, OwnChats, StreamsOK, OwnStream, OwnAsks, OwnLoads
<1> QED
  BY <1>6 DEF v, S

LEMMA MovesInv ==
  ASSUME AskInv(ui), NEW s \in ui.streams, NEW at \in {"sent", "refresh", "again", "open"}
  PROVE  AskInv(Moves(s, at))
<1> DEFINE t == [s EXCEPT !.at = at]
<1>1. s \in Stream /\ (s.chat # NoChat => s.chat[1] = s.by)
  BY DEF AskInv, AskUi, StreamsOK
<1>2. t \in Stream /\ t.id = s.id /\ t.by = s.by /\ t.chat = s.chat
  BY <1>1 DEF Stream
<1>3. Moves(s, at) = [ui EXCEPT !.streams = (ui.streams \ {s}) \cup {t}]
  BY DEF Moves
<1> HIDE DEF t
<1> QED
  BY <1>1, <1>2, <1>3, ReplacedInv

LEMMA StreamEndsInv ==
  ASSUME NEW u, AskInv(u), NEW s
  PROVE  AskInv(StreamEnds(u, s))
<1> DEFINE S == {x \in u.streams : x.id # s.id}
           v == [u EXCEPT !.streams = S]
           w == [u EXCEPT !.streams = S, !.ctl = 0, !.streaming = FALSE]
<1>1. StreamEnds(u, s) = IF u.ctl = s.id THEN w ELSE v
  BY DEF StreamEnds
<1>2. S \subseteq u.streams
  OBVIOUS
<1>3. u.ctl # s.id => (u.ctl # 0 => \E x \in S : x.id = u.ctl)
  BY DEF AskInv, StreamsOK
<1> HIDE DEF S
<1>4. /\ v \in AskUi /\ v.msgs = u.msgs /\ v.who = u.who /\ v.active = u.active /\ v.list = u.list
      /\ v.sid = u.sid /\ v.sref = u.sref /\ v.streams = S /\ v.ctl = u.ctl /\ v.req = u.req
      /\ v.asks = u.asks /\ v.loads = u.loads
  BY <1>2 DEF AskInv, AskUi
<1>5. /\ w \in AskUi /\ w.msgs = u.msgs /\ w.who = u.who /\ w.active = u.active /\ w.list = u.list
      /\ w.sid = u.sid /\ w.sref = u.sref /\ w.streams = S /\ w.ctl = 0 /\ w.req = u.req
      /\ w.asks = u.asks /\ w.loads = u.loads
  BY <1>2 DEF AskInv, AskUi
<1> HIDE DEF v, w
<1>6. CASE u.ctl = s.id
  <2>1. OwnStream(w) /\ StreamsOK(w)
    BY <1>2, <1>5 DEF AskInv, StreamsOK, OwnStream
  <2> QED
    BY <1>1, <1>5, <1>6, <2>1 DEF AskInv, OwnTurns, OwnChats, OwnAsks, OwnLoads
<1>7. CASE u.ctl # s.id
  BY <1>1, <1>2, <1>3, <1>4, <1>7 DEF AskInv, OwnTurns, OwnChats, StreamsOK, OwnStream, OwnAsks, OwnLoads
<1> QED
  BY <1>6, <1>7

\* An event of the current stream opens a chat of the one who asked.
LEMMA EventInv ==
  ASSUME NEW u, AskInv(u), NEW s \in u.streams
  PROVE  AskInv(handleStreamEvent(u, s))
<1>1. s \in Stream /\ (s.chat # NoChat => s.chat[1] = s.by) /\ (s.id = u.ctl => s.by = u.who)
  BY DEF AskInv, AskUi, StreamsOK, OwnStream
<1>2. s.chat \in Chat
  BY <1>1 DEF Stream
<1> QED
  BY <1>1, <1>2, OpenedInv DEF handleStreamEvent, OnEvent

------------------------------------------------------------------------------
(* The steps of the page.                                                  *)

LEMMA AskInitInv == AskInit => AskInv(ui)
<1> SUFFICES ASSUME AskInit PROVE AskInv(ui)
  OBVIOUS
<1>1. PICK l \in {"guest", "user"} : ui = [AskPage EXCEPT !.level = l]
  BY DEF AskInit
<1>2. <<"reader", 1>> \in Chat
  BY DEF Chat, Accounts
<1>3. ui \in AskUi
  BY <1>1, <1>2, AccountSet, <<>> \in Seq(Message) DEF AskPage, AskUi
<1>4. /\ ui.active = ui.who /\ ui.msgs = <<>> /\ ui.list = {} /\ ui.sid = NoChat /\ ui.sref = NoChat
      /\ ui.streams = {} /\ ui.ctl = 0 /\ ui.asks = {} /\ ui.loads = {}
  BY <1>1 DEF AskPage
<1> QED
  BY <1>3, <1>4 DEF AskInv, OwnTurns, OwnChats, StreamsOK, OwnStream, OwnAsks, OwnLoads

\* The account, the level of access, and the list of chats.
LEMMA AccountStep ==
  ASSUME AskInv(ui), AskAccount \/ AskLevel \/ AskListed
  PROVE  AskInv(ui') /\ UNCHANGED <<page, dialog>>
<1>1. CASE AskAccount
  <2>1. UNCHANGED <<page, dialog>>
    BY <1>1 DEF AskAccount, Becomes
  <2>2. CASE ~ui.init
    <3> DEFINE u == [ui EXCEPT !.init = TRUE]
    <3>1. PICK w \in Accounts : ui' = AccountIs(u, w)
      BY <1>1, <2>2 DEF AskAccount, Becomes
    <3>2. /\ u \in AskUi /\ u.msgs = ui.msgs /\ u.who = ui.who /\ u.active = ui.active
          /\ u.list = ui.list /\ u.sid = ui.sid /\ u.sref = ui.sref /\ u.streams = ui.streams
          /\ u.ctl = ui.ctl /\ u.req = ui.req
          /\ u.asks = ui.asks /\ u.loads = ui.loads
      BY DEF AskInv, AskUi
    <3> HIDE DEF u
    <3>3. AskInv(u)
      BY <3>2 DEF AskInv, OwnTurns, OwnChats, StreamsOK, OwnStream, OwnAsks, OwnLoads
    <3> QED
      BY <2>1, <3>1, <3>3, AccountIsInv
  <2>3. CASE ui.init
    BY <1>1, <2>1, <2>3, AccountIsInv DEF AskAccount, Becomes
  <2> QED
    BY <2>2, <2>3
<1>2. CASE AskLevel
  <2>1. PICK l \in {"guest", "user", "editor"} :
          LET u == [ui EXCEPT !.level = l]
          IN  Becomes(IF canAccess(u) = canAccess(ui) THEN u ELSE ForgetAccount(FetchSessions(u)))
    BY <1>2 DEF AskLevel
  <2> DEFINE u == [ui EXCEPT !.level = l]
  <2>2. /\ u \in AskUi /\ u.msgs = ui.msgs /\ u.who = ui.who /\ u.active = ui.active
        /\ u.list = ui.list /\ u.sid = ui.sid /\ u.sref = ui.sref /\ u.streams = ui.streams
        /\ u.ctl = ui.ctl /\ u.req = ui.req
        /\ u.asks = ui.asks /\ u.loads = ui.loads
    BY DEF AskInv, AskUi
  <2>3. ui' = u \/ ui' = ForgetAccount(FetchSessions(u))
    BY <2>1 DEF Becomes
  <2>4. UNCHANGED <<page, dialog>>
    BY <2>1 DEF Becomes
  <2> HIDE DEF u
  <2>5. AskInv(u)
    BY <2>2 DEF AskInv, OwnTurns, OwnChats, StreamsOK, OwnStream, OwnAsks, OwnLoads
  <2>6. PICK x \in {u.list, {}}, A \in SUBSET Ask :
          /\ FetchSessions(u) = [u EXCEPT !.list = x, !.asks = A]
          /\ \A r \in A : r.live => r.by = u.who
    BY <2>2, FetchSessionsKeeps
  <2> DEFINE v == [u EXCEPT !.list = x, !.asks = A]
  <2>7. /\ v \in AskUi /\ v.msgs = u.msgs /\ v.who = u.who /\ v.active = u.active
        /\ v.list \subseteq u.list /\ v.sid = u.sid /\ v.sref = u.sref /\ v.streams = u.streams
        /\ v.ctl = u.ctl /\ v.req = u.req
        /\ v.asks = A /\ v.loads = u.loads
    BY <2>2 DEF AskUi
  <2>8. FetchSessions(u) = v
    BY <2>6
  <2> HIDE DEF v
  <2>9. AskInv(v)
    BY <2>2, <2>5, <2>6, <2>7 DEF AskInv, OwnTurns, OwnChats, StreamsOK, OwnStream, OwnAsks, OwnLoads
  <2>10. AskInv(ForgetAccount(v))
    BY <2>9, ForgetAccountInv DEF AskInv
  <2> QED
    BY <2>3, <2>4, <2>5, <2>8, <2>10
<1>3. CASE AskListed
  <2>1. PICK r \in ui.asks :
          LET u == [ui EXCEPT !.asks = @ \ {r}]
          IN  Becomes(u) \/ (r.live /\ Becomes([u EXCEPT !.list = {c \in ui.chats : c[1] = r.by}]))
    BY <1>3 DEF AskListed
  <2> DEFINE A == ui.asks \ {r}
             x == {c \in ui.chats : c[1] = r.by}
             u == [ui EXCEPT !.asks = A]
             v == [u EXCEPT !.list = x]
  <2>2. UNCHANGED <<page, dialog>> /\ (ui' = u \/ (r.live /\ ui' = v))
    BY <2>1 DEF Becomes
  <2>3. r.live => r.by = ui.who
    BY DEF AskInv, OwnAsks
  <2>4. r.live => \A c \in x : c # NoChat => c[1] = ui.who
    BY <2>3
  <2>5. x \in SUBSET Chat /\ A \subseteq ui.asks
    BY DEF AskInv, AskUi
  <2> HIDE DEF A, x
  <2>6. /\ u \in AskUi /\ u.msgs = ui.msgs /\ u.who = ui.who /\ u.active = ui.active
        /\ u.list = ui.list /\ u.sid = ui.sid /\ u.sref = ui.sref /\ u.streams = ui.streams
        /\ u.ctl = ui.ctl /\ u.req = ui.req
        /\ u.asks = A /\ u.loads = ui.loads
    BY <2>5 DEF AskInv, AskUi
  <2> HIDE DEF u
  <2>7. /\ v \in AskUi /\ v.msgs = u.msgs /\ v.who = u.who /\ v.active = u.active
        /\ v.list = x /\ v.sid = u.sid /\ v.sref = u.sref /\ v.streams = u.streams
        /\ v.ctl = u.ctl /\ v.req = u.req
        /\ v.asks = u.asks /\ v.loads = u.loads
    BY <2>5, <2>6 DEF AskUi
  <2> HIDE DEF v
  <2>8. AskInv(u)
    BY <2>5, <2>6 DEF AskInv, OwnTurns, OwnChats, StreamsOK, OwnStream, OwnAsks, OwnLoads
  <2>9. r.live => AskInv(v)
    BY <2>4, <2>6, <2>7, <2>8 DEF AskInv, OwnTurns, OwnChats, StreamsOK, OwnStream, OwnAsks, OwnLoads
  <2> QED
    BY <2>2, <2>8, <2>9
<1> QED
  BY <1>1, <1>2, <1>3

\* A chat that opens, and one that is put away.
LEMMA SessionStep ==
  ASSUME AskInv(ui), dialog = NoDialog \/ dialog \in Removal,
         startNewChat \/ loadSession \/ SessionLoaded \/ removeSession \/ SessionRemoved
  PROVE  AskInv(ui') /\ UNCHANGED page /\ (dialog' = NoDialog \/ dialog' \in Removal)
<1>0. ui \in AskUi
  BY DEF AskInv
<1>1. CASE startNewChat
  BY <1>1, NewChatInv DEF startNewChat, Becomes
<1>2. CASE loadSession
  <2>1. PICK c \in ui.list :
          ui' = [ui EXCEPT !.loads = @ \cup {[chat |-> c, by |-> ui.who, live |-> TRUE]}]
    BY <1>2 DEF loadSession, Becomes
  <2>2. UNCHANGED <<page, dialog>>
    BY <1>2 DEF loadSession, Becomes
  <2> DEFINE t == [chat |-> c, by |-> ui.who, live |-> TRUE]
             L == ui.loads \cup {t}
  <2>3. t \in Load /\ t.by = ui.who
    BY <1>0 DEF AskUi, Load
  <2>4. ui' = [ui EXCEPT !.loads = L]
    BY <2>1
  <2> HIDE DEF t
  <2>5. L \in SUBSET Load /\ \A r \in L : r.live => r.by = ui.who
    BY <1>0, <2>3 DEF AskInv, AskUi, OwnLoads
  <2> HIDE DEF L
  <2>6. /\ ui' \in AskUi /\ ui'.msgs = ui.msgs /\ ui'.who = ui.who /\ ui'.active = ui.active
        /\ ui'.list = ui.list /\ ui'.sid = ui.sid /\ ui'.sref = ui.sref /\ ui'.streams = ui.streams
        /\ ui'.ctl = ui.ctl /\ ui'.req = ui.req
        /\ ui'.asks = ui.asks /\ ui'.loads = L
    BY <1>0, <2>4, <2>5 DEF AskUi
  <2> QED
    BY <2>2, <2>5, <2>6 DEF AskInv, OwnTurns, OwnChats, StreamsOK, OwnStream, OwnAsks, OwnLoads
<1>3. CASE SessionLoaded
  <2>1. PICK r \in ui.loads :
          LET c == r.chat
              u == [ui EXCEPT !.loads = @ \ {r}]
          IN  \/ Becomes(u)
              \/ /\ r.live /\ c[1] = r.by
                 /\ Becomes([u EXCEPT !.sref = c, !.sid = c,
                                      !.msgs = <<[id |-> 0, by |-> c[1], whole |-> TRUE]>>])
    BY <1>3 DEF SessionLoaded
  <2> DEFINE c == r.chat
             L == ui.loads \ {r}
             u == [ui EXCEPT !.loads = L]
             m == <<[id |-> 0, by |-> c[1], whole |-> TRUE]>>
             v == [u EXCEPT !.sref = c, !.sid = c, !.msgs = m]
  <2>2. UNCHANGED <<page, dialog>> /\ (ui' = u \/ (r.live /\ c[1] = r.by /\ ui' = v))
    BY <2>1 DEF Becomes
  <2>3. c \in Chat /\ L \subseteq ui.loads /\ (r.live => r.by = ui.who)
    BY <1>0 DEF AskInv, AskUi, OwnLoads, Load
  <2> HIDE DEF c, L
  <2>4. /\ u \in AskUi /\ u.msgs = ui.msgs /\ u.who = ui.who /\ u.active = ui.active
        /\ u.list = ui.list /\ u.sid = ui.sid /\ u.sref = ui.sref /\ u.streams = ui.streams
        /\ u.ctl = ui.ctl /\ u.req = ui.req
        /\ u.asks = ui.asks /\ u.loads = L
    BY <1>0, <2>3 DEF AskUi
  <2> HIDE DEF u
  <2>5. AskInv(u)
    BY <2>3, <2>4 DEF AskInv, OwnTurns, OwnChats, StreamsOK, OwnStream, OwnAsks, OwnLoads
  <2>6. CASE c[1] = ui.who
    <3>1. m \in Seq(Message) /\ \A i \in DOMAIN m : m[i].by = ui.who
      <4>1. [id |-> 0, by |-> c[1], whole |-> TRUE] \in Message
        BY <1>0, <2>6 DEF Message, AskUi
      <4> QED
        BY <2>6, <4>1
    <3> HIDE DEF m
    <3>2. /\ v \in AskUi /\ v.msgs = m /\ v.who = u.who /\ v.active = u.active
          /\ v.list = u.list /\ v.sid = c /\ v.sref = c /\ v.streams = u.streams
          /\ v.ctl = u.ctl /\ v.req = u.req
          /\ v.asks = u.asks /\ v.loads = u.loads
      BY <2>3, <2>4, <3>1 DEF AskUi
    <3> HIDE DEF v
    <3>3. AskInv(v)
      BY <2>4, <2>5, <2>6, <3>1, <3>2 DEF AskInv, OwnTurns, OwnChats, StreamsOK, OwnStream, OwnAsks, OwnLoads
    <3> QED
      BY <2>2, <2>5, <3>3
  <2> QED
    BY <2>2, <2>3, <2>5, <2>6
<1>4. CASE removeSession
  <2>1. CASE \E c \in ui.list : Enqueue([op |-> "chat", id |-> c, q |-> ui.sid])
    BY <1>0, <2>1 DEF Enqueue, AskUi, Removal
  <2>2. CASE /\ Accepts("chat")
             /\ ui' = [ui EXCEPT !.jobs = @ \cup {[op |-> "chat", id |-> dialog.id, q |-> dialog.q, by |-> ui.who]}]
    <3>1. dialog \in Removal
      BY <2>2 DEF Accepts, NoDialog
    <3>2. [op |-> "chat", id |-> dialog.id, q |-> dialog.q, by |-> ui.who] \in ChatJob
      BY <1>0, <3>1 DEF Removal, ChatJob, AskUi
    <3>3. /\ ui' \in AskUi /\ ui'.msgs = ui.msgs /\ ui'.who = ui.who /\ ui'.active = ui.active
          /\ ui'.list = ui.list /\ ui'.sid = ui.sid /\ ui'.sref = ui.sref
          /\ ui'.streams = ui.streams /\ ui'.ctl = ui.ctl /\ ui'.req = ui.req
          /\ ui'.asks = ui.asks /\ ui'.loads = ui.loads
      BY <1>0, <2>2, <3>2 DEF AskUi
    <3> QED
      BY <2>2, <3>3 DEF AskInv, OwnTurns, OwnChats, StreamsOK, OwnStream, OwnAsks, OwnLoads,
                           Accepts
  <2> QED
    BY <1>4, <2>1, <2>2 DEF removeSession
<1>5. CASE SessionRemoved
  <2>1. PICK j \in ui.jobs :
          LET u == [ui EXCEPT !.jobs = @ \ {j}]
              v == [u EXCEPT !.list = @ \ {j.id}, !.chats = @ \ {j.id}]
          IN  Becomes(u) \/ Becomes(IF j.id = j.q THEN NewChat(v) ELSE v)
    BY <1>5 DEF SessionRemoved
  <2> DEFINE u == [ui EXCEPT !.jobs = @ \ {j}]
             v == [u EXCEPT !.list = @ \ {j.id}, !.chats = @ \ {j.id}]
  <2>2. UNCHANGED <<page, dialog>> /\ (ui' = u \/ ui' = v \/ ui' = NewChat(v))
    BY <2>1 DEF Becomes
  <2>3. /\ u \in AskUi /\ u.msgs = ui.msgs /\ u.who = ui.who /\ u.active = ui.active
        /\ u.list = ui.list /\ u.sid = ui.sid /\ u.sref = ui.sref /\ u.streams = ui.streams
        /\ u.ctl = ui.ctl /\ u.req = ui.req
        /\ u.asks = ui.asks /\ u.loads = ui.loads
    BY <1>0 DEF AskUi
  <2> HIDE DEF u
  <2>4. /\ v \in AskUi /\ v.msgs = ui.msgs /\ v.who = ui.who /\ v.active = ui.active
        /\ v.list \subseteq ui.list /\ v.sid = ui.sid /\ v.sref = ui.sref /\ v.streams = ui.streams
        /\ v.ctl = ui.ctl /\ v.req = ui.req
        /\ v.asks = ui.asks /\ v.loads = ui.loads
    BY <2>3 DEF AskUi
  <2> HIDE DEF v
  <2>5. AskInv(u) /\ AskInv(v)
    BY <2>3, <2>4 DEF AskInv, OwnTurns, OwnChats, StreamsOK, OwnStream, OwnAsks, OwnLoads
  <2> QED
    BY <2>2, <2>5, NewChatInv
<1> QED
  BY <1>1, <1>2, <1>3, <1>4, <1>5

\* Questions: asked, asked once more, stopped.
LEMMA QuestionStep ==
  ASSUME AskInv(ui), submitQuestion \/ retryAnswer \/ stopStreaming
  PROVE  AskInv(ui') /\ UNCHANGED <<page, dialog>>
<1>0. ui \in AskUi /\ ui.req \in Nat /\ ui.msgs \in Seq(Message)
  BY DEF AskInv, AskUi
<1>1. CASE submitQuestion
  <2> DEFINE n == ui.req + 1
             t == [id |-> n, by |-> ui.who, whole |-> TRUE]
             m == Append(ui.msgs, t)
             u == [ui EXCEPT !.sref = ui.sid, !.msgs = m]
  <2>1. ui' = RunStream(u, n) /\ UNCHANGED <<page, dialog>>
    BY <1>1 DEF submitQuestion, Becomes
  <2>2. t \in Message /\ t.by = ui.who
    BY <1>0 DEF AskUi, Message
  <2>3. n \in Nat
    BY <1>0
  <2> HIDE DEF t, n
  <2>4. m \in Seq(Message) /\ \A i \in DOMAIN m : m[i].by = ui.who
    BY <1>0, <2>2 DEF AskInv, OwnTurns
  <2> HIDE DEF m
  <2>5. /\ u \in AskUi /\ u.msgs = m /\ u.who = ui.who /\ u.active = ui.active
        /\ u.list = ui.list /\ u.sid = ui.sid /\ u.sref = ui.sid /\ u.streams = ui.streams
        /\ u.ctl = ui.ctl /\ u.req = ui.req
        /\ u.asks = ui.asks /\ u.loads = ui.loads
    BY <1>0, <2>4 DEF AskUi
  <2> HIDE DEF u
  <2>6. AskInv(u)
    BY <2>4, <2>5 DEF AskInv, OwnTurns, OwnChats, StreamsOK, OwnStream, OwnAsks, OwnLoads
  <2> QED
    BY <2>1, <2>3, <2>6, RunStreamInv
<1>2. CASE retryAnswer
  <2>1. PICK i \in DOMAIN ui.msgs :
          ui' = RunStream([ui EXCEPT !.msgs[i].whole = TRUE], ui.msgs[i].id) /\ UNCHANGED <<page, dialog>>
    BY <1>2 DEF retryAnswer, Becomes
  <2> DEFINE t == [ui.msgs[i] EXCEPT !.whole = TRUE]
             m == [ui.msgs EXCEPT ![i] = t]
             u == [ui EXCEPT !.msgs = m]
  <2>2. ui.msgs[i] \in Message
    BY <1>0
  <2>3. t \in Message /\ t.by = ui.msgs[i].by /\ ui.msgs[i].id \in Nat
    BY <2>2 DEF Message
  <2>4. ui' = RunStream(u, ui.msgs[i].id)
    BY <2>1
  <2> HIDE DEF t
  <2>5. m \in Seq(Message) /\ DOMAIN m = DOMAIN ui.msgs
    BY <1>0, <2>3
  <2>6. \A k \in DOMAIN m : m[k].by = ui.who
    BY <1>0, <2>3, <2>5 DEF AskInv, OwnTurns
  <2> HIDE DEF m
  <2>7. /\ u \in AskUi /\ u.msgs = m /\ u.who = ui.who /\ u.active = ui.active
        /\ u.list = ui.list /\ u.sid = ui.sid /\ u.sref = ui.sref /\ u.streams = ui.streams
        /\ u.ctl = ui.ctl /\ u.req = ui.req
        /\ u.asks = ui.asks /\ u.loads = ui.loads
    BY <1>0, <2>5 DEF AskUi
  <2> HIDE DEF u
  <2>8. AskInv(u)
    BY <2>6, <2>7 DEF AskInv, OwnTurns, OwnChats, StreamsOK, OwnStream, OwnAsks, OwnLoads
  <2> QED
    BY <2>1, <2>3, <2>4, <2>8, RunStreamInv
<1>3. CASE stopStreaming
  <2> DEFINE s == CHOOSE x \in ui.streams : x.id = ui.ctl
             t == [s EXCEPT !.live = FALSE]
             S == (ui.streams \ {s}) \cup {t}
             a == [ui EXCEPT !.streams = S]
             u == [ui EXCEPT !.streams = S, !.ctl = 0]
             v == markAssistantIncomplete(u, s.turn)
             w == [v EXCEPT !.streaming = FALSE]
  <2>1. ui' = w /\ UNCHANGED <<page, dialog>> /\ ui.ctl # 0
    BY <1>3 DEF stopStreaming, Becomes
  <2>2. s \in ui.streams
    BY <2>1 DEF AskInv, StreamsOK
  <2> HIDE DEF s
  <2>3. s \in Stream /\ (s.chat # NoChat => s.chat[1] = s.by)
    BY <1>0, <2>2 DEF AskInv, AskUi, StreamsOK
  <2>4. t \in Stream /\ t.id = s.id /\ t.by = s.by /\ t.chat = s.chat
    BY <2>3 DEF Stream
  <2> HIDE DEF t
  <2>5. AskInv(a)
    BY <2>2, <2>3, <2>4, ReplacedInv
  <2> HIDE DEF S
  <2>6. /\ u = [a EXCEPT !.ctl = 0]
    BY <1>0 DEF AskUi
  <2> HIDE DEF a
  <2>7. /\ u \in AskUi /\ u.msgs = a.msgs /\ u.who = a.who /\ u.active = a.active
        /\ u.list = a.list /\ u.sid = a.sid /\ u.sref = a.sref /\ u.streams = a.streams
        /\ u.ctl = 0 /\ u.req = a.req
        /\ u.asks = a.asks /\ u.loads = a.loads
    BY <2>5, <2>6 DEF AskInv, AskUi
  <2> HIDE DEF u
  <2>8. AskInv(u)
    BY <2>5, <2>7 DEF AskInv, OwnTurns, OwnChats, StreamsOK, OwnStream, OwnAsks, OwnLoads
  <2>9. AskInv(v)
    BY <2>8, MarkedInv
  <2> HIDE DEF v
  <2>10. /\ w \in AskUi /\ w.msgs = v.msgs /\ w.who = v.who /\ w.active = v.active
         /\ w.list = v.list /\ w.sid = v.sid /\ w.sref = v.sref /\ w.streams = v.streams
         /\ w.ctl = v.ctl /\ w.req = v.req
         /\ w.asks = v.asks /\ w.loads = v.loads
    BY <2>9 DEF AskInv, AskUi
  <2> HIDE DEF w
  <2>11. AskInv(w)
    BY <2>9, <2>10 DEF AskInv, OwnTurns, OwnChats, StreamsOK, OwnStream, OwnAsks, OwnLoads
  <2> QED
    BY <2>1, <2>11
<1> QED
  BY <1>1, <1>2, <1>3

\* The request of a stream, its events and its end.
LEMMA StreamStep ==
  ASSUME AskInv(ui), requestRAGStream \/ StreamMeta \/ streamRAGChat
  PROVE  AskInv(ui') /\ UNCHANGED <<page, dialog>>
<1>0. ui \in AskUi
  BY DEF AskInv
<1>1. CASE requestRAGStream
  <2>1. PICK s \in ui.streams :
          \/ ui' = Moves(s, "refresh") \/ ui' = Moves(s, "again")
          \/ ui' = StreamEnds(AccountIs(ui, Guest), s)
    BY <1>1 DEF requestRAGStream, Becomes
  <2>2. UNCHANGED <<page, dialog>>
    BY <1>1 DEF requestRAGStream, Becomes
  <2>3. AskInv(StreamEnds(AccountIs(ui, Guest), s))
    BY AccountSet, AccountIsInv, StreamEndsInv
  <2> QED
    BY <2>1, <2>2, <2>3, MovesInv
<1>2. CASE StreamMeta
  <2>1. UNCHANGED <<page, dialog>>
    BY <1>2 DEF StreamMeta, Becomes
  <2>2. PICK s \in ui.streams :
          \/ ui' = Moves(s, "open")
          \/ \E c \in IF s.chat = NoChat THEN NewChatOf(s) ELSE {s.chat} :
               LET t == [s EXCEPT !.at = "open", !.chat = c]
                   u == [ui EXCEPT !.chats = @ \cup {c}, !.streams = (@ \ {s}) \cup {t}]
               IN  ui' = handleStreamEvent(u, t)
    BY <1>2 DEF StreamMeta, Becomes
  <2>3. CASE ui' = Moves(s, "open")
    BY <2>1, <2>3, MovesInv
  <2>4. ASSUME NEW c \in IF s.chat = NoChat THEN NewChatOf(s) ELSE {s.chat},
               LET t == [s EXCEPT !.at = "open", !.chat = c]
                   u == [ui EXCEPT !.chats = @ \cup {c}, !.streams = (@ \ {s}) \cup {t}]
               IN  ui' = handleStreamEvent(u, t)
        PROVE  AskInv(ui')
    <3> DEFINE t == [s EXCEPT !.at = "open", !.chat = c]
               S == (ui.streams \ {s}) \cup {t}
               a == [ui EXCEPT !.streams = S]
               u == [ui EXCEPT !.chats = @ \cup {c}, !.streams = S]
    <3>1. ui' = handleStreamEvent(u, t)
      BY <2>4
    <3>2. s \in Stream /\ (s.chat # NoChat => s.chat[1] = s.by)
      BY <1>0 DEF AskInv, AskUi, StreamsOK
    <3>3. c \in Chat /\ (c # NoChat => c[1] = s.by)
      <4>1. CASE s.chat = NoChat
        <5>1. PICK n \in 1..MaxChats : c = <<s.by, n>>
          BY <2>4, <4>1 DEF NewChatOf
        <5>2. s.by \in Accounts /\ n \in Nat
          BY <3>2 DEF Stream
        <5> QED
          BY <5>1, <5>2 DEF Chat
      <4>2. CASE s.chat # NoChat
        BY <2>4, <3>2, <4>2 DEF Stream
      <4> QED
        BY <4>1, <4>2
    <3>4. t \in Stream /\ t.id = s.id /\ t.by = s.by /\ t.chat = c
      BY <3>2, <3>3 DEF Stream
    <3> HIDE DEF t
    <3>5. AskInv(a)
      BY <3>3, <3>4, ReplacedInv
    <3>6. t \in S
      OBVIOUS
    <3>7. a.streams = S
      BY <1>0 DEF AskUi
    <3> HIDE DEF S
    <3>8. u = [a EXCEPT !.chats = @ \cup {c}]
      BY <1>0 DEF AskUi
    <3> HIDE DEF a
    <3>9. /\ u \in AskUi /\ u.msgs = a.msgs /\ u.who = a.who /\ u.active = a.active
          /\ u.list = a.list /\ u.sid = a.sid /\ u.sref = a.sref /\ u.streams = a.streams
          /\ u.ctl = a.ctl /\ u.req = a.req
          /\ u.asks = a.asks /\ u.loads = a.loads
      BY <3>3, <3>5, <3>8 DEF AskInv, AskUi
    <3> HIDE DEF u
    <3>10. AskInv(u)
      BY <3>5, <3>9 DEF AskInv, OwnTurns, OwnChats, StreamsOK, OwnStream, OwnAsks, OwnLoads
    <3> QED
      BY <3>1, <3>6, <3>7, <3>9, <3>10, EventInv
  <2> QED
    BY <2>1, <2>2, <2>3, <2>4
<1>3. CASE streamRAGChat
  <2>1. UNCHANGED <<page, dialog>>
    BY <1>3 DEF streamRAGChat, Becomes
  <2>2. PICK s \in ui.streams : \/ ui' = StreamEnds(UpsertSession(handleStreamEvent(ui, s), s), s)
                                \/ ui' = StreamFails(ui, s)
    BY <1>3 DEF streamRAGChat, Becomes
  <2> DEFINE e == handleStreamEvent(ui, s)
             v == [e EXCEPT !.list = @ \cup {e.sref}]
  <2>3. AskInv(e)
    BY EventInv
  <2> HIDE DEF e
  <2>4. UpsertSession(e, s) \in {e, v}
    BY DEF UpsertSession
  <2>5. /\ v \in AskUi /\ v.msgs = e.msgs /\ v.who = e.who /\ v.active = e.active
        /\ v.list = e.list \cup {e.sref} /\ v.sid = e.sid /\ v.sref = e.sref
        /\ v.streams = e.streams /\ v.ctl = e.ctl /\ v.req = e.req
        /\ v.asks = e.asks /\ v.loads = e.loads
    BY <2>3 DEF AskInv, AskUi
  <2> HIDE DEF v
  <2>6. AskInv(v)
    BY <2>3, <2>5 DEF AskInv, OwnTurns, OwnChats, StreamsOK, OwnStream, OwnAsks, OwnLoads
  <2>7. AskInv(StreamEnds(UpsertSession(e, s), s))
    BY <2>3, <2>4, <2>6, StreamEndsInv
  <2>8. AskInv(StreamFails(ui, s))
    BY MarkedInv, StreamEndsInv DEF StreamFails
  <2> QED
    BY <2>1, <2>2, <2>7, <2>8 DEF e
<1> QED
  BY <1>1, <1>2, <1>3

LEMMA ChatInit == AskInit /\ dialog = NoDialog => ChatInv
BY AskInitInv DEF ChatInv

\* The handlers of the page run while it is mounted, and leave it mounted.
LEMMA AskPages == AskNext => page = "ask" /\ page' = page
<1> SUFFICES ASSUME AskNext PROVE page = "ask" /\ page' = page
  OBVIOUS
<1>1. CASE AskAccount \/ AskLevel \/ AskListed
  BY <1>1 DEF AskAccount, AskLevel, AskListed, Becomes
<1>2. CASE startNewChat \/ loadSession \/ SessionLoaded \/ removeSession \/ SessionRemoved
  BY <1>2 DEF startNewChat, loadSession, SessionLoaded, removeSession, SessionRemoved, Becomes,
              Enqueue, Accepts, HistoryShown, AskShown, At
<1>3. CASE submitQuestion \/ retryAnswer \/ stopStreaming
  BY <1>3 DEF submitQuestion, retryAnswer, stopStreaming, AskFormShown, AskShown, At, Becomes
<1>4. CASE requestRAGStream \/ StreamMeta \/ streamRAGChat
  BY <1>4 DEF requestRAGStream, StreamMeta, streamRAGChat, Becomes
<1> QED
  BY <1>1, <1>2, <1>3, <1>4 DEF AskNext

LEMMA ChatStep == ChatInv /\ AskNext => ChatInv'
<1> SUFFICES ASSUME ChatInv, AskNext PROVE ChatInv'
  OBVIOUS
<1>1. page = "ask" /\ AskInv(ui) /\ (dialog = NoDialog \/ dialog \in Removal)
  BY AskPages DEF ChatInv
<1>2. AskInv(ui') /\ (dialog' = NoDialog \/ dialog' \in Removal)
  BY <1>1, AccountStep, SessionStep, QuestionStep, StreamStep DEF AskNext
<1> QED
  BY <1>2, AskPages DEF ChatInv

\* Refusing a question, and steps that leave the page as it is.
LEMMA ChatIdle == ChatInv /\ (Refuse \/ UNCHANGED kit) => ChatInv'
BY DEF ChatInv, Refuse, kit

LEMMA ChatSafe == ChatInv => NoForeignAnswer
BY DEF ChatInv, AskInv, OwnTurns, OwnChats, NoForeignAnswer

\* After a sign-out or a change of the account nothing of the one before is left on the chat
\* page, whatever streams, loads and removals were under way (Ask.tsx:95, 173).
THEOREM ChatIsOfItsAccount == AskSpec => []NoForeignAnswer
<1>1. AskInit /\ dialog = NoDialog => ChatInv
  BY ChatInit
<1>2. ChatInv /\ [AskNext \/ Refuse]_kit => ChatInv'
  BY ChatStep, ChatIdle
<1> QED
  BY <1>1, <1>2, ChatSafe, PTL DEF AskSpec
=============================================================================
