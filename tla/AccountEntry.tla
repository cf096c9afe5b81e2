---------------------------- MODULE AccountEntry ----------------------------
(***************************************************************************)
(* How a customer gets into the account of AccountSecurity: the forms of   *)
(* src/frontend/src/lib/auth (flows.ts, social.ts, handlers.ts) for login, *)
(* second factor, registration, verification, recovery and reset, and the  *)
(* return from Google, up to the session that the callback stores.         *)
(*                                                                         *)
(* One login attempt of one browser beside the sessions of the account.  A *)
(* step-up attempt borrows one of those sessions, any other attempt begins *)
(* a provider session of its own ("held").  The OAuth transaction of an    *)
(* attempt and its cancellation are the subject of BrowserSession.         *)
(***************************************************************************)
EXTENDS AccountSecurity

CONSTANT MaxBeside   \* bound on the challenges, and on the changes, beside an attempt
ASSUME EntryAssumption == MaxBeside \in Nat

VARIABLE attempt   \* the browser row of the attempt

entryVars == <<acct, sess, row, busy, call, proven, attempt>>

FormKind == {"login", "registration", "verification", "recovery", "reset"}

\* kind: the form that is bound to the browser.
\* aal: what a login form asks for.     session: the provider session in the jar.
\* handed: state.provider, the assurance it was accepted with (0: not yet).
\* social: the form that waits for Google.     google: state.googleRegistration.
\* linking: the login form is the one in which Kratos would connect Google to
\* the account that logs in.
NoAttempt == [kind |-> "none", oauth |-> FALSE, aal |-> 1, session |-> "none",
              handed |-> 0, social |-> "none", google |-> "none", linking |-> FALSE]

\* Nobody has registered yet, or somebody has long ago.
Nobody == [registered |-> FALSE, verified |-> FALSE, staff |-> FALSE, password |-> FALSE,
           google |-> FALSE, totp |-> FALSE, codes |-> 0, email |-> Google, shop |-> Google]
Customer0 == [Nobody EXCEPT !.registered = TRUE, !.verified = TRUE, !.password = TRUE]

EntryInit ==
  /\ acct \in {Nobody, [Customer0 EXCEPT !.staff = TRUE]}
              \cup {[Customer0 EXCEPT !.totp = TRUE, !.email = e, !.shop = e] : e \in Addresses}
  /\ sess = [s \in Sessions |-> NoSession]
  /\ row = [s \in Sessions |-> NewRow(1)]
  /\ busy = [s \in Sessions |-> "none"]
  /\ call = [s \in Sessions |-> NoCall]
  /\ proven = {acct.email}
  /\ attempt = NoAttempt

Held == attempt.session

\* What the form of the attempt offers: the second factors only to a login that
\* asks for them, and no password once Google has given the profile.
formMethods ==
  CASE attempt.kind = "login" /\ attempt.aal = 1 -> {"password", "oidc"}
    [] attempt.kind = "login" /\ attempt.aal = 2 ->
         {f \in {"totp", "lookup"} : IF f = "totp" THEN acct.totp ELSE acct.codes > 0}
    [] attempt.kind = "registration" ->
         IF attempt.google = "none" THEN {"password", "oidc"} ELSE {"oidc"}
    [] attempt.kind = "reset" -> {"password"}
    [] attempt.kind \in {"verification", "recovery"} -> {"code"}
    [] OTHER -> {}

\* What the page of a form can post, one submission at a time.
Posted(kind, m) == attempt.kind = kind /\ m \in formMethods

\* readFlow: the form is bound to the browser, and nothing is submitted while
\* Google has the customer.
Ready(kind, m) == Posted(kind, m) /\ attempt.social = "none"

\* A form of another kind is bound to the attempt; what the browser has of the
\* provider stays in its jar.
Form(kind) == [attempt EXCEPT !.kind = kind, !.aal = 1, !.linking = FALSE]

\* The session in the jar is one that Kratos knows.
InJar == Held # "none" /\ sess[Held].state # "none"

\* The provider session that the attempt began itself ends with it.
HeldSessions == {s \in Sessions : sess[s].state = "held"}

-----------------------------------------------------------------------------
(* Opening a form.                                                         *)

\* Bounds: only as many sessions as there are in Sessions, the one an attempt is
\* about to begin included; only MaxBeside open challenges, and so many changes in
\* flight, beside an attempt.
FewOpen == Cardinality(OpenChallenges) <= MaxBeside /\ Cardinality(InFlight) <= MaxBeside
Free(s) == sess[s].state = "none" /\ s \notin InFlight
Room == InJar \/ (FewOpen /\ \E s \in Sessions : Free(s))

\* start and challenge: a fresh login, or a step-up that borrows session s.
StartLogin(s) ==
  /\ attempt = NoAttempt
  /\ IF s = "none" THEN Room ELSE FewOpen /\ Usable(s)
  /\ attempt' = [NoAttempt EXCEPT !.kind = "login", !.oauth = TRUE, !.session = s,
                                  !.aal = IF s = "none" THEN 1 ELSE row[s].aal]
  /\ UNCHANGED accountVars

\* flow: another form, in the row of the attempt that goes on or in a new one.
\* Kratos opens registration and recovery only to a browser without a session.
\* A form that can only be given up (the verification of what is verified, the
\* registration of what is registered) is left out.
OpenForm(kind) ==
  /\ attempt.social = "none" /\ Room
  /\ \/ kind = "registration" /\ ~InJar /\ ~acct.registered
     \/ kind = "recovery" /\ ~InJar /\ acct.registered /\ ~HasSecondFactor(acct)
     \/ kind = "verification" /\ acct.registered /\ ~acct.verified
  /\ attempt' = [Form(kind) EXCEPT !.google = IF kind = "registration" THEN "none" ELSE @]
  /\ UNCHANGED accountVars

\* The attempt ends without a login; a provider session of its own is ended.
Leave ==
  /\ attempt # NoAttempt
  /\ attempt' = NoAttempt
  /\ Ending(HeldSessions)
  /\ UNCHANGED <<acct, busy>>

-----------------------------------------------------------------------------
(* submitFlow                                                              *)

\* Kratos begins a session for the attempt, or refreshes the one in its jar.
SignsIn(s) ==
  /\ IF InJar THEN s = Held ELSE Free(s)
  /\ sess' = [sess EXCEPT ![s] = IF InJar THEN @ ELSE [NoSession EXCEPT !.state = "held"]]

\* The password login; a wrong password leaves everything as it is.
SubmitPassword(s) ==
  /\ Ready("login", "password") /\ acct.registered /\ acct.password
  /\ SignsIn(s)
  /\ attempt' = [attempt EXCEPT !.session = s]
  /\ acct' = [acct EXCEPT !.google = @ \/ attempt.linking]
  /\ UNCHANGED <<row, busy>>

\* The second factor, offered by a form that asks for aal2.  A recovery code
\* is used up.
SubmitSecondFactor(f) ==
  /\ Ready("login", f) /\ InJar
  /\ acct' = IF f = "lookup" THEN [acct EXCEPT !.codes = @ - 1] ELSE acct
  /\ sess' = [sess EXCEPT ![Held] = [@ EXCEPT !.aal = 2, !.factor = f]]
  /\ UNCHANGED <<row, busy, attempt>>

\* Registration with a password; the form for the emailed code comes next.  The
\* customer may as well have registered in another browser.
Register ==
  /\ Ready("registration", "password") /\ ~acct.registered
  /\ acct' = [acct EXCEPT !.registered = TRUE, !.password = TRUE]
  /\ attempt' = Form("verification")
  /\ UNCHANGED <<sess, row, busy>>

RegisteredElsewhere ==
  /\ ~acct.registered
  /\ acct' = [acct EXCEPT !.registered = TRUE, !.verified = TRUE, !.password = TRUE]
  /\ UNCHANGED <<sess, row, busy, attempt>>

\* The code of the verification email; a fresh login is started after it.
Verify ==
  /\ Ready("verification", "code") /\ acct.registered /\ ~acct.verified
  /\ acct' = [acct EXCEPT !.verified = TRUE]
  /\ attempt' = [NoAttempt EXCEPT !.kind = "login", !.oauth = TRUE]
  /\ Ending(HeldSessions)
  /\ UNCHANGED <<busy>>

\* The code of the recovery email begins a session, in which the password is set.
\* The settings form is refused when the account has a second factor.
Recover(s) ==
  /\ Ready("recovery", "code") /\ acct.registered /\ ~HasSecondFactor(acct)
  /\ SignsIn(s)
  /\ attempt' = [Form("reset") EXCEPT !.session = s]
  /\ acct' = [acct EXCEPT !.verified = TRUE]
  /\ UNCHANGED <<row, busy>>

\* reset: the password is changed, all other sessions end by the hook, and the
\* recovery session itself is logged out with its browser row.
Reset ==
  /\ Ready("reset", "password") /\ InJar /\ AalOk(Held)
  /\ acct' = [acct EXCEPT !.password = TRUE]
  /\ Ending(Sessions)
  /\ attempt' = NoAttempt
  /\ UNCHANGED <<busy>>

-----------------------------------------------------------------------------
(* Google.                                                                 *)

\* "Continue with Google" on a login or a registration form, and the end of a
\* Google registration, which checks first that the address is still free.
SubmitGoogle ==
  /\ Ready("login", "oidc") \/ Ready("registration", "oidc")
  /\ attempt' = IF attempt.kind = "login" \/ attempt.google = "none"
                  THEN [attempt EXCEPT !.social = attempt.kind]
                ELSE IF acct.registered THEN [Form("login") EXCEPT !.google = "none"]
                ELSE [attempt EXCEPT !.social = "registration", !.google = "submitted"]
  /\ UNCHANGED accountVars

\* completeSocialCallback, by what Kratos answers.  The address of the Google
\* account is the one the customer registers with.
GoogleReturns == attempt.social # "none"
Returned == [attempt EXCEPT !.social = "none", !.linking = FALSE]

\* Google is connected to the account: a session, as with a password.
GoogleSignsIn(s) ==
  /\ GoogleReturns /\ acct.google
  /\ SignsIn(s)
  /\ attempt' = [Returned EXCEPT !.session = s, !.google = "none"]
  /\ UNCHANGED <<acct, row, busy>>

\* Mutant: the login goes on in the form in which Kratos would link Google.
GoogleConflict_Links ==
  /\ GoogleReturns /\ acct.registered /\ ~acct.google /\ acct.email = Google
  /\ attempt' = [Returned EXCEPT !.kind = "login", !.google = "none", !.linking = TRUE]
  /\ UNCHANGED accountVars

\* The address belongs to an account without Google: the customer is asked to
\* log in to it, with a new form and not with the one that would link Google.
GoogleConflict ==
  /\ GoogleReturns /\ acct.registered /\ ~acct.google /\ acct.email = Google
  /\ attempt' = [Returned EXCEPT !.kind = "login", !.google = "none"]
  /\ UNCHANGED accountVars

\* Nobody has the address: the registration goes on with the profile ...
GoogleContinues ==
  /\ GoogleReturns /\ ~acct.registered
  /\ attempt' = [Returned EXCEPT !.kind = "registration", !.google = "bound"]
  /\ UNCHANGED accountVars

\* ... and with the profile that was submitted Kratos creates the identity.
GoogleRegisters(s) ==
  /\ attempt.social = "registration" /\ attempt.google = "submitted" /\ ~acct.registered
  /\ acct' = [acct EXCEPT !.registered = TRUE, !.verified = TRUE, !.google = TRUE]
  /\ SignsIn(s)
  /\ attempt' = [Returned EXCEPT !.kind = "login", !.google = "none", !.session = s]
  /\ UNCHANGED <<row, busy>>

\* Cancelled at Google or failed: the login form is started again.
GoogleFails ==
  /\ GoogleReturns
  /\ attempt' = [Returned EXCEPT !.kind = "login", !.aal = 1]
  /\ UNCHANGED accountVars

-----------------------------------------------------------------------------
(* handoff, consent and callback: the provider session becomes a login.    *)

\* handoff: the bridge accepts the session in the jar, or asks for the second
\* factor or for the verification of the address.
Handoff ==
  /\ attempt.oauth /\ attempt.social = "none" /\ attempt.handed = 0
  /\ InJar
  /\ attempt' = IF ~AalOk(Held) THEN [Form("login") EXCEPT !.aal = 2]
                ELSE IF ~acct.verified THEN Form("verification")
                ELSE [attempt EXCEPT !.handed = sess[Held].aal]
  /\ UNCHANGED accountVars

\* assertSameProvider against the session as it is now, in consent and callback.
SameProvider == acct.verified /\ AalOk(Held) /\ sess[Held].aal = attempt.handed

\* completeRecoverySignIn: a sign-in by recovery code ends the other sessions.
RecoverySignIn == ~acct.staff /\ recoveryMode(Held)

\* callback: the login is stored with a new row; a borrowed session goes on in it.
Callback ==
  /\ attempt.handed # 0 /\ InJar /\ busy[Held] = "none"
  /\ SameProvider
  /\ LET ended == IF RecoverySignIn THEN Others(Held) ELSE {} IN
       /\ sess' = [Ended(ended) EXCEPT ![Held].state = "live"]
       /\ row' = [RowsWithout(ended) EXCEPT ![Held] = NewRow(attempt.handed)]
  /\ attempt' = NoAttempt
  /\ UNCHANGED <<acct, busy>>

EntryStep ==
  \/ \E s \in Sessions \cup {"none"} : StartLogin(s)
  \/ \E kind \in FormKind : OpenForm(kind)
  \/ Leave
  \/ \E s \in Sessions :
       SubmitPassword(s) \/ Recover(s) \/ GoogleSignsIn(s) \/ GoogleRegisters(s)
  \/ \E f \in {"totp", "lookup"} : SubmitSecondFactor(f)
  \/ Register \/ RegisteredElsewhere \/ Verify \/ Reset
  \/ SubmitGoogle \/ GoogleConflict \/ GoogleContinues \/ GoogleFails
  \/ Handoff \/ Callback

Beside == attempt # NoAttempt => FewOpen'
Next == (EntryStep /\ UNCHANGED bridgeVars) \/ (AccountStep /\ Beside /\ UNCHANGED attempt)
Spec == EntryInit /\ [][Next]_entryVars
-----------------------------------------------------------------------------
StepUps == [state : {"none", "sent", "verified"}, attempts : 0 .. MaxGuesses - 1]
EmailChanges == [state : {"none", "sent"}, attempts : 0 .. MaxGuesses - 1, for : Addresses, mailed : Addresses]
OptSession == Sessions \cup {"none"}
Calls == [stage : {"none", "admitted", "shop", "put", "patch", "undoPut", "undoPatch", "undoShop"},
          for : Addresses, old : Addresses, assured : BOOLEAN]

\* Type correctness, and the bounds that decide: of the wrong answers to a code
\* that are still counted (account.ts, maxCodeAttempts), of the codes of a set.
TypeOK ==
  /\ acct \in [registered : BOOLEAN, verified : BOOLEAN, staff : BOOLEAN, password : BOOLEAN,
               google : BOOLEAN, totp : BOOLEAN, codes : 0 .. CodeSet, email : Addresses, shop : Addresses]
  /\ sess \in [Sessions -> [state : {"none", "held", "live"}, aal : 1 .. 2,
                            factor : {"none", "totp", "lookup"}]]
  /\ row \in [Sessions -> [aal : 1 .. 2, stepUp : StepUps, emailChange : EmailChanges,
                           social : BOOLEAN, generated : BOOLEAN]]
  /\ busy \in [Sessions -> SecurityAction \cup {"none", "cleanup", "email"}]
  /\ call \in [Sessions -> Calls] /\ proven \subseteq Addresses
  /\ attempt \in [kind : FormKind \cup {"none"}, oauth : BOOLEAN, aal : 1 .. 2, session : OptSession,
                  handed : 0 .. 2, social : {"none", "login", "registration"},
                  google : {"none", "bound", "submitted"}, linking : BOOLEAN]

\* A step of session s, or of the bridge for it, that may change the account.
SettingsChange(s) == SettingsApply(s) \/ SettingsCleanup(s) \/ ConnectCallback(s)
AddressChange(s) == EmailShop(s) \/ EmailPut(s) \/ EmailPatch(s) \/ EmailUndoShop(s)

\* Once an account has a second factor, no settings change is applied for a session
\* that has not shown one, also when the factor was added between the checks of the
\* change and the change itself.  The bridge, which does not ask again, changes the
\* address only for a session that had the assurance of the account when the code
\* was entered, also when it takes a change back.
AuthenticatorGuardsChanges ==
  [][\A s \in Sessions : acct' # acct =>
       /\ SettingsChange(s) /\ HasSecondFactor(acct) => sess[s].aal = 2
       /\ AddressChange(s) => call[s].assured]_entryVars

\* Neither Kratos nor the shop ever has an address that was not proven by entering the
\* code mailed to it, whatever several sessions change at the same time, whichever call
\* of theirs fails or is late, and whatever a failed change writes back over another.
EmailIsProven == {acct.email, acct.shop} \subseteq proven

\* docs/auth/account-management.md:39-61 says that an account with an authenticator has its
\* address changed only by a session that has shown it, checked "on every mutation".
EmailChangeShowsAuthenticator ==
  [][\A s \in Sessions :
       EmailPut(s) /\ ~Undoing(s) /\ acct'.email # acct.email /\ acct.totp /\ Live(s)
         => sess[s].factor = "totp"]_entryVars

\* Google is connected by the registration that creates the account or on
\* purpose in a live session: a matching address never merges accounts.
GoogleIsLinkedOnPurpose ==
  [][~acct.google /\ acct'.google =>
       \/ ~acct.registered
       \/ \E s \in Sessions : Live(s) /\ ConnectCallback(s)]_entryVars

\* settings.ts:330 says that recovery codes are never left as a lone second factor.
\* They are removed by a second call right after the authenticator.
CodesNeedAuthenticator == acct.codes > 0 => acct.totp \/ \E s \in Sessions : busy[s] = "cleanup"
=============================================================================
