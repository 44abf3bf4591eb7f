------------------------------- MODULE PageKit -------------------------------
(***************************************************************************)
(* What the pages of the application are built from.  One page is mounted  *)
(* at a time; "ui" holds its React state (useState and useRef), with the   *)
(* requests it waits for, and is lost when the page unmounts.              *)
(*                                                                         *)
(*   hooks/useConfirm.tsx, components/ui/ConfirmDialog*.tsx                *)
(*   components/Pagination.tsx                                             *)
(*   the request counter the list pages keep in a ref                      *)
(*                                                                         *)
(* A list page is a record with, among others: at (its page number),       *)
(* filter, rows (the query the rows shown are of), some (there are rows),  *)
(* pages, loading, error, req (the counter), asks (list requests in        *)
(* flight), jobs (other requests), busy; want is the query asked last, and *)
(* lost says that it failed.  error is the notice, which any handler takes *)
(* down when it starts.                                                    *)
(***************************************************************************)
EXTENDS Naturals, FiniteSets, Sequences, TLC

CONSTANTS
  Items,     \* rows of a list, and what a form or a button works on
  MaxAsks,   \* bound on the list requests of one mount
  MaxJobs    \* bound on the other requests in flight at once

ASSUME KitAssumption == MaxAsks \in Nat \ {0} /\ MaxJobs \in Nat \ {0}

VARIABLES page, ui, dialog

kit == <<page, ui, dialog>>

NoDialog == [op |-> "none", id |-> "none", q |-> "none"]
NoFilter == <<"", "">>
NoRows   == [at |-> 0, filter |-> NoFilter]
NotBusy  == <<"none", "none">>

\* The modal confirmation keeps the page behind it out of reach.
Free == dialog.op = "none"
At(p) == page = p /\ Free

\* A step of the mounted page that changes its state only.
Becomes(u) == ui' = u /\ UNCHANGED <<page, dialog>>
\* Another page takes its place; only the confirmation outlives it.
Leaves == page' = "away" /\ ui' = "gone" /\ UNCHANGED dialog

------------------------------------------------------------------------------
(* Confirmation.                                                           *)

\* A request of its own takes the place of one that waits, which is refused.
Enqueue(ask) == dialog' = ask /\ UNCHANGED <<page, ui>>
Accepts(op)  == dialog.op = op /\ dialog' = NoDialog /\ UNCHANGED page
\* The cancel button, the cross, the overlay, the Escape key.
Refuse       == ~Free /\ dialog' = NoDialog /\ UNCHANGED <<page, ui>>

------------------------------------------------------------------------------
(* Lists.                                                                  *)

NewList == [at |-> 1, filter |-> NoFilter, rows |-> NoRows, some |-> FALSE, pages |-> 0,
            loading |-> TRUE, error |-> FALSE, req |-> 0, asks |-> {}, want |-> NoRows, lost |-> FALSE,
            jobs |-> {}, busy |-> NotBusy]

\* A list of a page that has fields of its own beside it.
NewListWith(own) == [x \in DOMAIN NewList \cup DOMAIN own |->
                       IF x \in DOMAIN NewList THEN NewList[x] ELSE own[x]]

Query(u) == [at |-> u.at, filter |-> u.filter]

\* A list request for query q: that of the closure that sends it.
FetchRows(u, q) ==
  [u EXCEPT !.req = @ + 1, !.asks = @ \cup {[id |-> u.req + 1, q |-> q]},
            !.loading = TRUE, !.error = FALSE, !.want = q, !.lost = FALSE]

CanAsk(u) == u.req < MaxAsks

\* The effect behind a list: another page or filter asks again.
Refetched(u) == FetchRows(u, Query(u))
Reapplied(u) == IF Query(u) = Query(ui) THEN u ELSE Refetched(u)

\* Jobs js end.  One slot says what the page is busy with; a form, whose job is "save", is
\* submitting as long as that job is there.
Ends(u, js) == [u EXCEPT !.jobs = @ \ js,
                         !.busy = IF \E j \in js : j.op # "save" THEN NotBusy ELSE @]
Submitting(u) == \E j \in u.jobs : j.op = "save"

\* The write that waits for list request n is over with it.
Finished(u, n) == Ends(u, {j \in u.jobs : j.ask = n})

\* What a list without the counter does with an answer to ask a.
AnsweredUnguarded(u, a, ok, some, pages) ==
  LET v == Finished([u EXCEPT !.asks = @ \ {a}, !.loading = FALSE], a.id)
  IN  IF ok THEN [v EXCEPT !.rows = a.q, !.some = some, !.pages = pages]
      ELSE [v EXCEPT !.error = TRUE, !.lost = TRUE]

\* With it, what is not for the newest request is dropped.
Answered(u, a, ok, some, pages) ==
  IF a.id # u.req THEN Finished([u EXCEPT !.asks = @ \ {a}], a.id)
  ELSE AnsweredUnguarded(u, a, ok, some, pages)

\* What the list requests in flight may be answered: whether there are rows, and on how
\* many pages, matters of a success only.
Answers == {r \in [ask : ui.asks, ok : BOOLEAN, some : BOOLEAN, pages : 1..2] :
              (r.some => r.ok) /\ (r.pages = 2 => r.some)}
ListAnswered == \E r \in Answers : Becomes(Answered(ui, r.ask, r.ok, r.some, r.pages))

\* The targets of Pagination, which is shown next to rows when there is more than a page:
\* previous and next, and with numbers or a jump any page there is.
PageTargets(u, numbered) ==
  IF u.pages <= 1 \/ ~u.some THEN {}
  ELSE {p \in 1..u.pages : p # u.at /\ (numbered \/ p = u.at - 1 \/ p = u.at + 1)}

Turn(numbered) ==
  CanAsk(ui) /\ \E p \in PageTargets(ui, numbered) : Becomes(Refetched([ui EXCEPT !.at = p]))

------------------------------------------------------------------------------
(* Requests that change something, and what follows them.                  *)

Job(op, i, q) == [op |-> op, id |-> i, q |-> q, ask |-> 0]
Start(u, j)   == [u EXCEPT !.jobs = @ \cup {j}, !.error = FALSE,
                           !.busy = IF j.op = "save" THEN @ ELSE <<j.op, j.id>>]
CanStart(u)   == Cardinality(u.jobs) < MaxJobs
Ended(u, j)   == Ends(u, {j})

\* Success asks for the list as it was when the handler was called, and is busy until
\* that is answered; failure is an error.
Relisted(u, j) == LET v == FetchRows(u, j.q)
                  IN  [v EXCEPT !.jobs = (@ \ {j}) \cup {[j EXCEPT !.ask = v.req]}]
Failed(u, j)   == [Ended(u, j) EXCEPT !.error = TRUE]

Write(op, i)   == Free /\ CanStart(ui) /\ Becomes(Start(ui, Job(op, i, Query(ui))))
Pending(op)    == {j \in ui.jobs : j.op = op /\ j.ask = 0}
WriteFails(op) == \E j \in Pending(op) : Becomes(Failed(ui, j))
WriteRelists(op) == \E j \in Pending(op) : CanAsk(ui) /\ Becomes(Relisted(ui, j))

\* The same behind a confirmation.
AskFor(op, i)  == Free /\ CanStart(ui) /\ Enqueue([op |-> op, id |-> i, q |-> Query(ui)])
Confirmed(op)  == Accepts(op) /\ ui' = Start(ui, Job(op, dialog.id, dialog.q))
=============================================================================
