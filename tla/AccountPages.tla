---------------------------- MODULE AccountPages ----------------------------
(***************************************************************************)
(* What the account pages of src/frontend/src/app/(storefront)/account and *)
(* the components they are made of let a person do: for every page the set *)
(* of the forms it shows, as a function of the account and of the session  *)
(* that AccountSecurity and AccountEntry move through their states.        *)
(*                                                                         *)
(* A page decides from the view it has loaded what to show, the handler of *)
(* the form decides again from its own reads.  The two are written apart,  *)
(* in different files, and have to agree.                                  *)
(***************************************************************************)
EXTENDS AccountEntry

\* The forms, named by the action they post.
AccountForm == {"session_revoke", "sessions_revoke_others", "step_up_send", "step_up_verify",
                "email_request", "email_use_google", "email_verify", "email_cancel"}

\* The forms of X, if the condition holds.
If(condition, X) == IF condition THEN X ELSE {}

\* What the flow of Kratos offers to a session that may edit at all.
Available(s, editable, X) == If(editable, X \cap offered(s))

\* The change of the address that the view speaks of.
EmailChangeShown(s) == challengeUsable(row[s].emailChange)

-----------------------------------------------------------------------------
(* The components and the pages of a customer.                             *)

\* A step-up that is not needed shows nothing; the authenticator is asked for by
\* a new login ("reauth"), which is no form.
StepUpCard(s) ==
  CASE ready(s) -> {}
    [] ~ready(s) /\ method(s) = "authenticator" -> {"reauth"}
    [] OTHER -> {"step_up_send"} \cup If(challengeUsable(row[s].stepUp), {"step_up_verify"})

PasswordPanel(s, editable) == Available(s, editable, {"password"})

AuthenticatorPanel(s, editable) == Available(s, editable, {"totp_confirm", "totp_disable"})

\* Codes are confirmed before others are made, and turned off only when none
\* are on the screen.
RecoveryCodesPanel(s, editable) ==
  LET confirm == Available(s, editable, {"backup_confirm"}) IN
  confirm \cup If(confirm = {} /\ acct.totp, Available(s, editable, {"backup_generate"}))
          \cup If(~row[s].generated, Available(s, editable, {"backup_disable"}))

SecurityPage(s) ==
  StepUpCard(s) \cup PasswordPanel(s, ready(s) /\ ~recoveryMode(s))
                \cup AuthenticatorPanel(s, ready(s)) \cup RecoveryCodesPanel(s, ready(s))

\* Mutant: Google may be disconnected also when it is the only way to sign in.
ConnectionsPage_LastMethod(s) ==
  StepUpCard(s) \cup Available(s, ready(s) /\ ~recoveryMode(s), {"google_connect", "google_disconnect"})

\* The address at Google can be asked for without the step-up.
ConnectionsPage(s) ==
  LET editable == ready(s) /\ ~recoveryMode(s) IN
  StepUpCard(s) \cup Available(s, editable, {"google_connect"})
                \cup If(acct.password, Available(s, editable, {"google_disconnect"}))
                \cup If(acct.google /\ acct.email # Google, {"email_use_google"})

ProfilePage(s) ==
  IF EmailChangeShown(s) THEN {"email_verify", "email_cancel"}
  ELSE StepUpCard(s) \cup If(ready(s) /\ ~recoveryMode(s), {"email_request"})

SessionsPage(s) == If(Others(s) # {}, {"session_revoke", "sessions_revoke_others"})

CustomerPages(s) == SecurityPage(s) \cup ConnectionsPage(s) \cup ProfilePage(s) \cup SessionsPage(s)

\* AdminSecurity: staff may only add their authenticator.
AdminSecurity(s) == If(~acct.totp, AuthenticatorPanel(s, TRUE) \cap {"totp_confirm"})

\* accountContext: customers and staff get pages of their own.
Shown(s) == IF Customer(s) THEN CustomerPages(s) ELSE If(Usable(s), AdminSecurity(s))

-----------------------------------------------------------------------------
(* What the handlers say to them.                                          *)

\* accountAction accepts the form of this session; with a code that is right.
AcceptsAccount(s, f) ==
  CASE f \in {"session_revoke", "sessions_revoke_others"} -> Others(s) # {}
    [] f = "step_up_send" -> method(s) = "email"
    [] f = "step_up_verify" -> method(s) = "email" /\ challengeUsable(row[s].stepUp)
    [] f \in {"email_request", "email_use_google"} -> ready(s) /\ ~recoveryMode(s)
    [] OTHER -> challengeUsable(row[s].emailChange)

\* Two forms are shown and refused: the address at Google without a step-up, and
\* anything of Google while a customer who has left for Google is not back.
KnownRefusals(s) ==
  If(~ready(s) \/ recoveryMode(s), {"email_use_google"})
  \cup If(row[s].social, {"google_connect", "google_disconnect"})

\* Whatever another session has done to the account, a form that a freshly loaded
\* page shows is one that its handler accepts, but for the two known refusals.
\* No page is a dead end: it shows how to step up, or a change that is possible;
\* and a customer who came in with a recovery code can remove the authenticator.
PagesAgreeWithHandlers ==
  \A s \in Sessions : Usable(s) =>
    LET shown == Shown(s) IN
    /\ \A f \in shown \ KnownRefusals(s) :
         CASE f \in SecurityAction -> Accepts(s, f)
           [] f \in AccountForm -> AcceptsAccount(s, f)
           [] OTHER -> method(s) = "authenticator"
    /\ ~acct.staff => SecurityPage(s) # {}
    /\ ~acct.staff /\ recoveryMode(s) /\ acct.totp => shown \cap {"totp_disable", "step_up_send"} # {}
=============================================================================
