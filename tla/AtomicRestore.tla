--------------------------- MODULE AtomicRestore ---------------------------
(***************************************************************************)
(* What a whole-site restore promises the rest of the system: the data     *)
(* and the media of the site change together, in one step, and a restore   *)
(* that has been committed is settled before another one is.  Interrupted  *)
(* and failed restores leave no trace.                                     *)
(***************************************************************************)
CONSTANTS
  Keys,   \* storage keys of media files
  Ids,    \* restore ids
  NoId

VARIABLES
  data,     \* the media files the site refers to
  media,    \* the media files the site can serve once its volume is settled
  pending   \* the committed restore that is not settled yet, or NoId

vars == <<data, media, pending>>

Init == data \in SUBSET Keys /\ media = data /\ pending = NoId

\* The restore takes effect.
Replace ==
  /\ pending = NoId
  /\ \E site \in SUBSET Keys, i \in Ids : data' = site /\ media' = site /\ pending' = i

\* Its media are in place and its marker is gone.
Settle == pending # NoId /\ pending' = NoId /\ UNCHANGED <<data, media>>

Next == Replace \/ Settle

Spec == Init /\ [][Next]_vars
=============================================================================
