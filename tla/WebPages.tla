------------------------------- MODULE WebPages -------------------------------
(***************************************************************************)
(* Every page of the application: the console, the pages of the reader,    *)
(* the forms of an account and the chat.  One is entered by its address;   *)
(* its handlers, requests and answers then interleave in every order.      *)
(* What the pages share of the account is in SessionClient.                *)
(***************************************************************************)
EXTENDS AdminConsole, ReaderPages, AccountForms, AskChat

WebInit ==
  \/ Init
  \/ dialog = NoDialog /\ EditorInit /\ (ReaderInit \/ FormsInit \/ AskInit)

WebNext ==
  \/ Next
  \/ (ReaderNext \/ FormsNext \/ AskNext) /\ UNCHANGED editor

WebSpec == WebInit /\ [][WebNext]_console
=============================================================================
