---------------------------- MODULE AccountForms ----------------------------
(***************************************************************************)
(* The forms of an account, each with a captcha:                           *)
(*   pages/Login.tsx, Register.tsx, ForgotPassword.tsx and the two forms   *)
(*   of Profile.tsx ("profile" and "password"), components/CaptchaField,   *)
(*   hooks/useFormValidation.ts, useSubmit.ts, useCountdown.ts             *)
(*                                                                         *)
(* An image is the number of the request that brought it (0: none).  ui.id *)
(* and ui.code belong to the form: the image whose identifier it sends,    *)
(* and the image its code was read from, or Blind when it was typed while  *)
(* no image was shown; gen, asks, loading belong to CaptchaField, which    *)
(* may be unmounted (field) and mounted again.                             *)
(***************************************************************************)
EXTENDS PageKit

Forms == {"login", "register", "forgot", "profile", "password"}
OnForm == page \in Forms /\ Free

Blind == MaxAsks + 1   \* the number of no image
Mine == "mine"   \* the address the account has, as far as Profile is concerned

NewForm(email) ==
  [id |-> 0, code |-> 0, gen |-> 0, asks |-> {}, loading |-> FALSE, field |-> FALSE,
   email |-> email, valid |-> FALSE, sent |-> FALSE, counting |-> FALSE, jobs |-> {},
   account |-> FALSE, fetching |-> FALSE, settings |-> "none"]

------------------------------------------------------------------------------
(* CaptchaField.                                                           *)

CanLoad(u) == u.gen < MaxAsks

\* The identifier and the code are taken back before another image is asked for.
loadCaptcha(u) ==
  [u EXCEPT !.gen = @ + 1, !.asks = @ \cup {u.gen + 1}, !.loading = TRUE, !.id = 0, !.code = 0, !.field = TRUE]

\* A field that appears loads; one that disappears cancels.
FieldIs(u, shown) == IF shown = u.field THEN u
                     ELSE IF shown THEN loadCaptcha(u) ELSE [u EXCEPT !.field = FALSE]

\* Broken variant: the answer to any request counts.
CaptchaAnsweredAlways(u, a, ok) ==
  [u EXCEPT !.asks = @ \ {a}, !.loading = FALSE, !.id = IF ok THEN a ELSE @]
\* Only the last request of a mounted field is not cancelled.
CaptchaAnswered(u, a, ok) ==
  IF a = u.gen /\ u.field
  THEN [u EXCEPT !.asks = @ \ {a}, !.loading = FALSE, !.id = IF ok THEN a ELSE @]
  ELSE [u EXCEPT !.asks = @ \ {a}]

CaptchaArrives == /\ OnForm
                  /\ \E a \in ui.asks, ok \in BOOLEAN : Becomes(CaptchaAnswered(ui, a, ok))

\* A form that shows nothing but a notice has no inputs.
FormShown == /\ OnForm /\ ~ui.fetching
             /\ page = "register" => ui.settings # "closed"

\* The image is shown once it is there.  What is typed was read from it, or from no image:
\* the input is never disabled.  The button asks for another image.
CaptchaImageShown == ~ui.loading /\ ui.id # 0
CaptchaType == /\ FormShown /\ ui.field
               /\ \E c \in {0, IF CaptchaImageShown THEN ui.id ELSE Blind} : Becomes([ui EXCEPT !.code = c])
CaptchaReload == FormShown /\ ui.field /\ ~ui.loading /\ CanLoad(ui) /\ Becomes(loadCaptcha(ui))

------------------------------------------------------------------------------
(* Inputs.                                                                 *)

profileEmailChanged(u) == u.email # Mine
requiresEmailCode(u)   == u.settings \in {"none", "code"}

\* The other fields of a form, which keep or break its rules.
validateForm == FormShown /\ page # "profile" /\ Becomes([ui EXCEPT !.valid = ~@])

TypeEmail ==
  /\ FormShown /\ page \in {"register", "forgot", "profile"}
  /\ \E e \in {"", "a"} \cup (IF page = "profile" THEN {Mine} ELSE {}) :
       LET u == [ui EXCEPT !.email = e]
       IN  \/ page # "profile" /\ Becomes(u)
           \/ /\ page = "profile" /\ CanLoad(ui)
              /\ Becomes(FieldIs(u, profileEmailChanged(u)))

\* The public settings arrive: registration may be closed, or need no code.
SettingsArrive ==
  /\ page = "register" /\ CanLoad(ui)
  /\ \E s \in {"closed", "code", "free"} :
       LET u == [ui EXCEPT !.settings = s] IN Becomes(FieldIs(u, s = "code"))

------------------------------------------------------------------------------
(* The code by mail.                                                       *)

Sending    == \E j \in ui.jobs : j.op = "send"
Submitted  == \E j \in ui.jobs : j.op = "submit"
JobOf(op, u) == [op |-> op, id |-> u.id, code |-> u.code]
JobsOf(op) == {j \in ui.jobs : j.op = op}

CanSend == FormShown /\ ui.field /\ ~Sending /\ ~ui.counting /\ ui.email # "" /\ ui.id # 0 /\ ui.code # 0

SendCode  == Becomes([ui EXCEPT !.jobs = @ \cup {JobOf("send", ui)}])
Sent(counts) ==
  \E j \in JobsOf("send") : Becomes([ui EXCEPT !.jobs = @ \ {j}, !.sent = TRUE, !.counting = counts])
\* A captcha is good for one attempt.
NotSent   == \E j \in JobsOf("send") :
               /\ CanLoad(ui)
               /\ Becomes(LET u == [ui EXCEPT !.jobs = @ \ {j}]
                          IN  IF u.field THEN loadCaptcha(u) ELSE u)

\* The two public forms wait before they send again.
RegisterSendEmailCode ==
  page = "register" /\ ((CanSend /\ SendCode) \/ Sent(TRUE) \/ NotSent)
ForgotSendEmailCode ==
  page = "forgot" /\ ((CanSend /\ SendCode) \/ Sent(TRUE) \/ NotSent)
handleSendProfileCode ==
  page = "profile" /\ ((CanSend /\ SendCode) \/ Sent(FALSE) \/ NotSent)
handleSendPasswordCode ==
  page = "password" /\ ((CanSend /\ SendCode) \/ Sent(FALSE) \/ NotSent)

CountdownEnds == OnForm /\ ui.counting /\ Becomes([ui EXCEPT !.counting = FALSE])

------------------------------------------------------------------------------
(* Submission.                                                             *)

Submit   == Becomes([ui EXCEPT !.jobs = @ \cup {JobOf("submit", ui)}])
AfterSubmit(u) == [u EXCEPT !.jobs = @ \ JobsOf("submit")]

\* The sign-in puts the form away while it reads the user; then it leaves, or starts anew.
submitLogin ==
  /\ page = "login"
  /\ \/ FormShown /\ ui.valid /\ ui.code # 0 /\ ~Submitted /\ Submit
     \/ JobsOf("submit") # {} /\ CanLoad(ui)
        /\ \/ ~ui.fetching /\ Becomes(loadCaptcha(AfterSubmit(ui)))
           \/ ~ui.fetching /\ Becomes(FieldIs([ui EXCEPT !.fetching = TRUE], FALSE))
           \/ ui.fetching /\ Becomes(FieldIs([AfterSubmit(ui) EXCEPT !.fetching = FALSE], TRUE))
           \/ ui.fetching /\ Leaves

\* Without the settings a code is needed; an account that was made stays when the user
\* cannot be read after it.
handleRegister ==
  /\ page = "register"
  /\ \/ FormShown /\ ui.valid /\ ui.email # "" /\ ~Submitted /\ (requiresEmailCode(ui) => ui.sent) /\ Submit
     \/ /\ JobsOf("submit") # {} /\ CanLoad(ui)
        /\ \E made \in BOOLEAN :
             LET u == [AfterSubmit(ui) EXCEPT !.account = @ \/ made]
             IN  Becomes(IF u.field THEN loadCaptcha(u) ELSE u)
     \/ JobsOf("submit") # {} /\ Leaves

handleResetPassword ==
  /\ page = "forgot"
  /\ \/ FormShown /\ ui.valid /\ ui.sent /\ ~Submitted /\ Submit
     \/ JobsOf("submit") # {} /\ Becomes([AfterSubmit(ui) EXCEPT !.sent = FALSE, !.valid = FALSE])
     \/ JobsOf("submit") # {} /\ Becomes(AfterSubmit(ui))

\* The user read anew resets the form; reading it may fail unnoticed.
UserEffect(u) == FieldIs([u EXCEPT !.email = Mine, !.sent = FALSE], FALSE)

handleUpdateProfile ==
  /\ page = "profile"
  /\ \/ FormShown /\ ~Submitted /\ (profileEmailChanged(ui) => ui.sent /\ ui.email # "") /\ Submit
     \/ JobsOf("submit") # {} /\ Becomes(UserEffect(AfterSubmit(ui)))
     \/ JobsOf("submit") # {} /\ Becomes([AfterSubmit(ui) EXCEPT !.sent = FALSE])
     \/ JobsOf("submit") # {} /\ Becomes(AfterSubmit(ui))

\* Every session ends with the password, this one too.
handleUpdatePassword ==
  /\ page = "password"
  /\ \/ FormShown /\ ui.valid /\ ui.sent /\ ~Submitted /\ Submit
     \/ JobsOf("submit") # {} /\ Leaves
     \/ JobsOf("submit") # {} /\ Becomes(AfterSubmit(ui))

FormsInit == \E p \in Forms :
  /\ page = p
  /\ ui = IF p = "profile" THEN NewForm(Mine)
          ELSE loadCaptcha(NewForm(IF p = "password" THEN Mine ELSE ""))

FormsNext ==
  \/ CaptchaArrives \/ CaptchaType \/ CaptchaReload \/ validateForm \/ TypeEmail \/ SettingsArrive
  \/ RegisterSendEmailCode \/ ForgotSendEmailCode \/ handleSendProfileCode \/ handleSendPasswordCode
  \/ CountdownEnds \/ submitLogin \/ handleRegister \/ handleResetPassword \/ handleUpdateProfile
  \/ handleUpdatePassword

------------------------------------------------------------------------------
(* Property.                                                               *)

\* A code that was read from an image goes with the identifier of that image and of no other,
\* in the form and in every request, however often the image is asked for anew, in whatever
\* order the answers come, and though the field may be put away and shown again
\* (CaptchaField.tsx:38).  What is typed while an image loads was read from none, and goes
\* with the one that arrives (CaptchaField.tsx:49): of such a code nothing is said.
CodeIsOfTheImageShown ==
  page \in Forms =>
    /\ ui.code \notin {0, Blind} => ui.code = ui.id
    /\ \A j \in ui.jobs : j.code \notin {0, Blind} => j.code = j.id
=============================================================================
