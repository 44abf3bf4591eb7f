------------------------------- MODULE AskChat -------------------------------
(***************************************************************************)
(* The chat with the site: pages/Ask.tsx, its stream in api/rag.ts and     *)
(* utils/ragStream.ts.  The page stays mounted while the account and the   *)
(* access level change; an aborted request goes on until it notices.       *)
(*                                                                         *)
(* A chat is <<its owner, a number>>.  ui.who is the account of the auth   *)
(* store, ui.active the account the page last cleaned up for; sid is the   *)
(* state sessionId and sref the ref beside it, ctl the stream in           *)
(* controllerRef (0: none).  asks are the requests for the list of chats,  *)
(* loads those for one chat.  A request goes on behalf of the account that *)
(* sent it (by); one that is not live was aborted.                         *)
(* Notices, and the words of questions and answers, are left out.          *)
(***************************************************************************)
EXTENDS PageKit

CONSTANTS
  MaxChats,   \* bound on the chats the server keeps
  MaxTurns,   \* bound on the turns shown
  MaxPending, \* bound on the requests under way, aborted ones included
  MaxStreams  \* bound on the questions of one mount

Guest  == "none"
NoChat == <<Guest, 0>>
Accounts == {Guest, "reader", "editor"}

isChatAccessAllowed(level, who) ==
  \/ level = "guest"
  \/ level = "user" /\ who # Guest
  \/ who = "editor"
canAccess(u) == isChatAccessAllowed(u.level, u.who)

AskPage == [init |-> FALSE, level |-> "user", who |-> Guest, active |-> Guest, msgs |-> <<>>, sid |-> NoChat, sref |-> NoChat, list |-> {}, asks |-> {},
            loads |-> {}, streaming |-> FALSE, ctl |-> 0, streams |-> {}, jobs |-> {}, req |-> 0,
            chats |-> {<<"reader", 1>>}]

------------------------------------------------------------------------------
(* Effects.                                                                *)

Aborted(requests) == {[r EXCEPT !.live = FALSE] : r \in requests}

Aborts(u) == [u EXCEPT !.streams = Aborted(@), !.ctl = 0, !.loads = Aborted(@)]

\* An older request for the list is aborted; the list is asked for anew if it may be.
FetchSessions(u) ==
  IF u.who = Guest \/ ~canAccess(u) THEN [u EXCEPT !.list = {}, !.asks = Aborted(@)]
  ELSE [u EXCEPT !.asks = Aborted(@) \cup {[by |-> u.who, live |-> TRUE]}]

\* Another account, or access withdrawn: nothing of the account before stays.
ForgetAccount(u) ==
  IF u.active = u.who /\ canAccess(u) THEN u
  ELSE [Aborts(u) EXCEPT !.active = u.who, !.sref = NoChat, !.sid = NoChat, !.msgs = <<>>,
                         !.list = {}, !.streaming = FALSE]

AccountIs(u, who) == ForgetAccount(FetchSessions([u EXCEPT !.who = who]))

CanRequest == Cardinality(ui.asks) + Cardinality(ui.loads) + Cardinality(ui.jobs)
                + Cardinality(ui.streams) < MaxPending

\* The session is restored, ends, or is that of another account when the user is read anew;
\* the same account as a new object asks for the list again.
AskAccount ==
  /\ page = "ask" /\ CanRequest
  /\ \/ ~ui.init /\ \E w \in Accounts : Becomes(AccountIs([ui EXCEPT !.init = TRUE], w))
     \/ ui.init /\ \E w \in Accounts : Becomes(AccountIs(ui, w))

\* The settings of the site are read anew.
AskLevel == /\ page = "ask" /\ CanRequest
            /\ \E l \in {"guest", "user", "editor"} :
                 LET u == [ui EXCEPT !.level = l]
                 IN  Becomes(IF canAccess(u) = canAccess(ui) THEN u ELSE ForgetAccount(FetchSessions(u)))

\* The chats of the one who asked, or a failure; of an aborted request neither counts.
AskListed ==
  /\ page = "ask"
  /\ \E r \in ui.asks :
       LET u == [ui EXCEPT !.asks = @ \ {r}]
       IN  \/ Becomes(u)
           \/ r.live /\ Becomes([u EXCEPT !.list = {c \in ui.chats : c[1] = r.by}])

------------------------------------------------------------------------------
(* The view.                                                               *)

AskShown     == At("ask") /\ ui.init /\ canAccess(ui)
HistoryShown == AskShown /\ ui.who # Guest /\ \A r \in ui.asks : ~r.live   \* sessionsLoading

NewChat(u) == [u EXCEPT !.streams = {[s EXCEPT !.live = s.live /\ s.id # u.ctl] : s \in @}, !.ctl = 0,
                        !.loads = Aborted(@), !.sref = NoChat, !.sid = NoChat, !.msgs = <<>>]

startNewChat == AskShown /\ ui.who # Guest /\ ~ui.streaming /\ Becomes(NewChat(ui))

------------------------------------------------------------------------------
(* The chats of the account.                                               *)

opening == \E r \in ui.loads : r.live   \* sessionLoading

loadSession ==
  /\ HistoryShown /\ ~ui.streaming /\ ~opening /\ CanRequest
  /\ \E c \in ui.list \ {ui.sid} :
       Becomes([ui EXCEPT !.loads = @ \cup {[chat |-> c, by |-> ui.who, live |-> TRUE]}])

\* A chat that is gone, or not of the one who asked, is not found; of an aborted request
\* neither counts.
SessionLoaded ==
  /\ page = "ask"
  /\ \E r \in ui.loads :
       LET c == r.chat
           u == [ui EXCEPT !.loads = @ \ {r}]
       IN  \/ Becomes(u)
           \/ /\ r.live /\ c \in ui.chats /\ c[1] = r.by
              /\ Becomes([u EXCEPT !.sref = c, !.sid = c,
                                   !.msgs = <<[id |-> 0, by |-> c[1], whole |-> TRUE]>>])

\* The chat open when the button is pressed is remembered; the request goes on behalf of the
\* account there is when the question is answered.
removeSession ==
  \/ /\ HistoryShown /\ ~ui.streaming /\ CanStart(ui)
     /\ \E c \in ui.list : Enqueue([op |-> "chat", id |-> c, q |-> ui.sid])
  \/ /\ page = "ask" /\ Accepts("chat")
     /\ ui' = [ui EXCEPT !.jobs = @ \cup {[op |-> "chat", id |-> dialog.id, q |-> dialog.q, by |-> ui.who]}]

\* The answer counts whoever is signed in by then.
SessionRemoved ==
  /\ page = "ask"
  /\ \E j \in ui.jobs :
       LET u == [ui EXCEPT !.jobs = @ \ {j}]
           v == [u EXCEPT !.list = @ \ {j.id}, !.chats = @ \ {j.id}]
       IN  \/ Becomes(u)
           \/ j.id \in ui.chats /\ j.id[1] = j.by /\ Becomes(IF j.id = j.q THEN NewChat(v) ELSE v)

------------------------------------------------------------------------------
(* Questions.                                                              *)

CanStream == ui.req < MaxStreams /\ CanRequest

\* A stream asks in the chat of the ref.
RunStream(u, turn) ==
  LET n == u.req + 1
  IN  [u EXCEPT !.req = n, !.ctl = n, !.streaming = TRUE,
                !.streams = @ \cup {[id |-> n, turn |-> turn, by |-> u.who, chat |-> u.sref,
                                     at |-> "sent", live |-> TRUE]}]

AskFormShown == AskShown /\ ~ui.streaming

submitQuestion ==
  /\ AskFormShown /\ CanStream /\ Len(ui.msgs) < MaxTurns
  /\ LET n == ui.req + 1
     IN  Becomes(RunStream([ui EXCEPT !.sref = ui.sid,
                                      !.msgs = Append(@, [id |-> n, by |-> ui.who, whole |-> TRUE])], n))

\* Only what is shown: messages give way to the notice of a chat that opens.
CanRetry(m) == ~opening /\ ~m.whole
retryAnswer ==
  /\ AskShown /\ CanStream /\ ~ui.streaming
  /\ \E i \in DOMAIN ui.msgs :
       CanRetry(ui.msgs[i]) /\ Becomes(RunStream([ui EXCEPT !.msgs[i].whole = TRUE], ui.msgs[i].id))

markAssistantIncomplete(u, turn) ==
  [u EXCEPT !.msgs = [i \in DOMAIN @ |-> IF @[i].id = turn THEN [@[i] EXCEPT !.whole = FALSE] ELSE @[i]]]

stopStreaming ==
  /\ AskShown /\ ui.streaming /\ ui.ctl # 0
  /\ LET s == CHOOSE x \in ui.streams : x.id = ui.ctl
         u == [ui EXCEPT !.streams = (@ \ {s}) \cup {[s EXCEPT !.live = FALSE]}, !.ctl = 0]
     IN  Becomes([markAssistantIncomplete(u, s.turn) EXCEPT !.streaming = FALSE])

------------------------------------------------------------------------------
(* The request of a stream, and its events.                                *)

Moves(s, at) == [ui EXCEPT !.streams = (@ \ {s}) \cup {[s EXCEPT !.at = at]}]

\* The end of a stream in whatever way: only its own may end the state of streaming.
StreamEnds(u, s) ==
  LET v == [u EXCEPT !.streams = {x \in @ : x.id # s.id}]
  IN  IF u.ctl = s.id THEN [v EXCEPT !.ctl = 0, !.streaming = FALSE] ELSE v

StreamFails(u, s) ==
  StreamEnds(IF s.live THEN markAssistantIncomplete(u, s.turn) ELSE u, s)

\* A 401 refreshes the session and asks once more.  When that fails, is refused again, or
\* when the second request throws, as that of a stopped stream does, the account is left.
requestRAGStream ==
  /\ page = "ask"
  /\ \E s \in ui.streams :
       \/ s.at = "sent" /\ s.live /\ s.by # Guest /\ Becomes(Moves(s, "refresh"))
       \/ s.at = "refresh" /\ s.live /\ Becomes(Moves(s, "again"))
       \/ /\ s.at \in {"refresh", "again"}
          /\ Becomes(StreamEnds(AccountIs(ui, Guest), s))

\* An event with the chat it belongs to; sources and words only add to the answer.
OnEvent(u, s) == IF s.by = Guest THEN u ELSE [u EXCEPT !.sref = s.chat, !.sid = s.chat]

\* Broken variant: what an aborted stream still delivers counts.
handleAnyEvent(u, s) == OnEvent(u, s)
\* Events of a stream that was aborted, or is not the current one, are dropped.
handleStreamEvent(u, s) == IF s.live /\ u.ctl = s.id THEN OnEvent(u, s) ELSE u

Served(s) == s.at \in {"sent", "again"} /\ (s.chat = NoChat \/ s.chat \in ui.chats)
NewChatOf(s) == {<<s.by, n>> : n \in 1..MaxChats} \ ui.chats

\* The first event names the chat, which the server has by then.
StreamMeta ==
  /\ page = "ask"
  /\ \E s \in ui.streams :
       /\ Served(s)
       /\ \/ s.by = Guest /\ Becomes(Moves(s, "open"))
          \/ /\ s.by # Guest
             /\ \E c \in IF s.chat = NoChat THEN NewChatOf(s) ELSE {s.chat} :
                  LET t == [s EXCEPT !.at = "open", !.chat = c]
                      u == [ui EXCEPT !.chats = @ \cup {c}, !.streams = (@ \ {s}) \cup {t}]
                  IN  Becomes(handleStreamEvent(u, t))

\* upsertLocalSession: an answer that is done puts its chat into the list.
UpsertSession(u, s) == IF s.live /\ s.by # Guest /\ u.sref # NoChat
                       THEN [u EXCEPT !.list = @ \cup {u.sref}] ELSE u

streamRAGChat ==
  /\ page = "ask"
  /\ \E s \in ui.streams :
       \/ /\ s.at = "open" /\ Becomes(StreamEnds(UpsertSession(handleStreamEvent(ui, s), s), s))
       \/ s.at \in {"sent", "open"} /\ Becomes(StreamFails(ui, s))
       \/ s.at = "again" /\ s.live /\ Becomes(StreamFails(ui, s))

AskInit == page = "ask" /\ \E l \in {"guest", "user"} : ui = [AskPage EXCEPT !.level = l]
AskNext ==
  \/ AskAccount \/ AskLevel \/ AskListed \/ startNewChat \/ loadSession
  \/ SessionLoaded \/ removeSession \/ SessionRemoved \/ submitQuestion \/ retryAnswer
  \/ stopStreaming \/ requestRAGStream \/ StreamMeta \/ streamRAGChat

AskSpec == AskInit /\ dialog = NoDialog /\ [][AskNext \/ Refuse]_kit

------------------------------------------------------------------------------
(* Properties.                                                             *)

\* After a sign-out or a change of the account nothing of the one before is left on the page:
\* the turns, the open chat and the list are those of the account signed in, whatever
\* requests were under way (Ask.tsx:95).
NoForeignAnswer ==
  page = "ask" =>
    /\ \A i \in DOMAIN ui.msgs : ui.msgs[i].by = ui.who
    /\ \A c \in (ui.list \cup {ui.sid, ui.sref}) \ {NoChat} : c[1] = ui.who

\* A refresh that has succeeded leaves no reason to sign anyone out: whatever becomes of the
\* second request once it was stopped, the account stays (api/rag.ts:119, 134).
StoppedRequestKeepsAccount ==
  [][page = "ask" =>
       \A s \in ui.streams :
         s.at = "again" /\ ~s.live /\ (\A x \in ui'.streams : x.id # s.id)
         => ui'.who = ui.who]_kit
=============================================================================
