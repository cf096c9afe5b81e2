--------------------------- MODULE AccountSecurity ---------------------------
(***************************************************************************)
(* What a signed-in person may change of an account, in                    *)
(* src/frontend/src/lib/auth (account.ts, settings.ts, social.ts): step-up *)
(* by authenticator or emailed code, the settings flow of Kratos (password,*)
(* authenticator, recovery codes, Google), the change of the email address *)
(* by the account bridge of src/infrastructure/oauth/service (account.py,  *)
(* kratos.py) and the ending of other sessions.                            *)
(*                                                                         *)
(* One account, several sessions of it.  The handlers of one session run   *)
(* one after the other under the lock of its row; those of two sessions do *)
(* not, so a settings change is two actions: the checks, and what Kratos   *)
(* then does with the account as it is by then.  A change of the address is*)
(* admitted in one action and then carried out by the bridge call by call, *)
(* in the shop and at Kratos, and taken back call by call when one fails.  *)
(*                                                                         *)
(* Time only takes away: a sign-in that is no longer fresh (15 minutes), a *)
(* step-up that has lapsed (10), a code that has expired or the window of  *)
(* an attempt counter (consumeAttempt) makes a handler refuse and leave the*)
(* account alone.  Clocks are therefore left out, and any request may be   *)
(* refused by not happening.                                               *)
(***************************************************************************)
EXTENDS Naturals, FiniteSets

CONSTANTS Sessions,    \* provider sessions of the account
          Addresses,   \* email addresses
          Google,      \* the address of the customer's Google account
          MaxGuesses,  \* maxCodeAttempts
          MaxOpen,     \* bound on what is open or answered at a time
          MaxCalls,    \* bound on the changes of the address at a time
          Settings,    \* bound: the settings changes that anybody tries
          CodeSet,     \* how many recovery codes a set has
          Faults       \* whether a call may fail or a commit be lost

ASSUME AccountAssumption ==
  /\ IsFiniteSet(Sessions) /\ Google \in Addresses
  /\ MaxGuesses \in Nat \ {0} /\ MaxOpen \in Nat /\ MaxCalls \in Nat /\ CodeSet \in Nat \ {0} /\ Faults \in BOOLEAN

VARIABLES
  acct,    \* the identity at Kratos; shop: the address that the shop has of it
  sess,    \* its sessions at Kratos
  row,     \* the sealed state of the browser row of each session
  busy,    \* the settings change of each session that has passed its checks, or
           \* "email": the handler waits for the bridge to change the address
  call,    \* what the bridge does for each session: a change of the address
  proven   \* the addresses proven by the code that was mailed to them

accountVars == <<acct, sess, row, busy>>
bridgeVars == <<call, proven>>

SecurityAction == {"totp_confirm", "totp_disable", "backup_generate", "backup_confirm",
                   "backup_disable", "google_connect", "google_disconnect", "password"}
\* What a session in recovery mode may still do.
recoveryActions == SecurityAction \ {"google_connect", "google_disconnect", "password"}

\* The two emailed challenges of a row: the step-up, and the change of the address,
\* with the address it is for and the one its code was mailed to.  attempts: the
\* wrong answers so far.  A challenge whose answers are used up can only be
\* replaced or dropped and is the same as none.
NoStepUp == [state |-> "none", attempts |-> 0]
NoChange == [state |-> "none", attempts |-> 0, for |-> Google, mailed |-> Google]

NewRow(aal) == [aal |-> aal, stepUp |-> NoStepUp, emailChange |-> NoChange,
                social |-> FALSE, generated |-> FALSE]

\* change_email of the bridge, for a session.  old: the address to go back to.
\* assured: whether the session had the assurance of the account when it was admitted.
NoCall == [stage |-> "none", for |-> Google, old |-> Google, assured |-> TRUE]

\* factor: the last second factor of the session.
NoSession == [state |-> "none", aal |-> 1, factor |-> "none"]

-----------------------------------------------------------------------------
Live(s) == sess[s].state = "live"

\* Kratos answers a session only if it has the highest assurance the account
\* offers (required_aal: highest_available).
HasSecondFactor(a) == a.totp \/ a.codes > 0
AalOk(s) == sess[s].aal = 2 \/ ~HasSecondFactor(acct)

\* Mutant: the assurance of the session is not compared with the account's.
Usable_AnyAal(s) == Live(s) /\ busy[s] = "none" /\ acct.verified /\ row[s].aal = sess[s].aal

\* authenticatedState lets the row through; the bridge refuses an account whose
\* address is not verified.
Usable(s) == Live(s) /\ busy[s] = "none" /\ acct.verified /\ AalOk(s) /\ row[s].aal = sess[s].aal

recoveryMode(s) == sess[s].factor = "lookup"

\* stepUpView
method(s) == IF acct.totp /\ ~recoveryMode(s) THEN "authenticator" ELSE "email"
verified(s) == IF method(s) = "authenticator" THEN sess[s].factor = "totp"
                                              ELSE row[s].stepUp.state = "verified"
\* assertStepUp
ready(s) == verified(s)

challengeUsable(c) == c.state = "sent"

\* What is open: a challenge, codes to confirm, a customer who has left for Google.
OpenChallenges == {s \in Sessions : row[s].stepUp # NoStepUp} \X {"stepUp"}
                  \cup {s \in Sessions : row[s].emailChange # NoChange} \X {"emailChange"}
                  \cup {s \in Sessions : row[s].generated} \X {"backup_generate"}
                  \cup {s \in Sessions : row[s].social} \X {"google_connect"}
InFlight == {s \in Sessions : busy[s] # "none" \/ call[s] # NoCall}
UnderChange == {s \in Sessions : call[s] # NoCall}
\* Bound: a row may get another one.
RoomFor(s, kind) == Cardinality(OpenChallenges \cup {<<s, kind>>}) <= MaxOpen

\* Mutant: one answer too many.
Counted_OffByOne(c, none) == IF c.attempts + 1 > MaxGuesses THEN none ELSE [c EXCEPT !.attempts = @ + 1]

\* An answer counts; with the last one allowed the challenge is of no use.
Counted(c, none) == IF c.attempts + 1 >= MaxGuesses THEN none ELSE [c EXCEPT !.attempts = @ + 1]

\* The sessions of X are ended; their rows are not read again.
Ended(X) == [s \in Sessions |-> IF s \in X THEN NoSession ELSE sess[s]]
RowsWithout(X) == [s \in Sessions |-> IF s \in X THEN NewRow(1) ELSE row[s]]
Ending(X) == sess' = Ended(X) /\ row' = RowsWithout(X)
Others(s) == {t \in Sessions \ {s} : sess[t].state # "none"}

-----------------------------------------------------------------------------
(* accountAction                                                           *)

Customer(s) == Usable(s) /\ ~acct.staff

\* session_revoke and sessions_revoke_others
SessionsRevoke(s, X) ==
  /\ Customer(s) /\ X # {} /\ X \subseteq Others(s)
  /\ Cardinality(X) = 1 \/ X = Others(s)
  /\ Ending(X)
  /\ UNCHANGED <<acct, busy>>

\* step_up_send: a delivery that fails, or seems to, keeps the old challenge.
StepUpSend(s) ==
  /\ Customer(s) /\ method(s) = "email"
  /\ RoomFor(s, "stepUp")
  /\ row' = [row EXCEPT ![s].stepUp = [NoStepUp EXCEPT !.state = "sent"]]
  /\ UNCHANGED <<acct, sess, busy>>

\* step_up_verify.  An answer counts and is not even looked at when the attempts
\* of the identity are used up; one to a verified challenge ends it.
StepUpVerify(s) ==
  LET c == row[s].stepUp IN
  /\ Customer(s) /\ method(s) = "email" /\ c # NoStepUp
  /\ IF challengeUsable(c)
       THEN row' \in {[row EXCEPT ![s].stepUp = Counted(c, NoStepUp)],
                      [row EXCEPT ![s].stepUp.state = "verified"]}
       ELSE row' = [row EXCEPT ![s].stepUp = NoStepUp]
  /\ UNCHANGED <<acct, sess, busy>>

\* Mutant: the code goes to the present address, like every other notification.
EmailRequest_ToCurrent(s, e) ==
  /\ Customer(s) /\ ready(s) /\ ~recoveryMode(s)
  /\ e # acct.email /\ RoomFor(s, "emailChange")
  /\ row' = [row EXCEPT ![s].emailChange =
               [NoChange EXCEPT !.state = "sent", !.for = e, !.mailed = acct.email]]
  /\ UNCHANGED <<acct, sess, busy>>

\* email_request and email_use_google; a failed delivery keeps the old challenge.
EmailRequest(s, e) ==
  /\ Customer(s) /\ ready(s) /\ ~recoveryMode(s)
  /\ e # acct.email /\ RoomFor(s, "emailChange")
  /\ row' = [row EXCEPT ![s].emailChange =
               [NoChange EXCEPT !.state = "sent", !.for = e, !.mailed = e]]
  /\ UNCHANGED <<acct, sess, busy>>

\* email_verify with a wrong answer, or with one that does not count as right.
EmailVerifyFails(s) ==
  LET c == row[s].emailChange IN
  /\ Customer(s) /\ challengeUsable(c)
  /\ row' = [row EXCEPT ![s].emailChange = Counted(c, NoChange)]
  /\ UNCHANGED <<acct, sess, busy>>

EmailCancel(s) ==
  /\ Customer(s) /\ row[s].emailChange # NoChange
  /\ row' = [row EXCEPT ![s].emailChange = NoChange]
  /\ UNCHANGED <<acct, sess, busy>>

-----------------------------------------------------------------------------
(* The change of the address: email_verify, and change_email of the bridge. *)

\* email_verify with the code: neither freshness nor step-up is asked for again.
\* The bridge looks at the session (_customer_session) and begins.
\* Bound: one change of the address per session at a time, MaxCalls in all.
EmailVerify(s) ==
  LET c == row[s].emailChange IN
  /\ Customer(s) /\ challengeUsable(c)
  /\ call[s] = NoCall /\ Cardinality(UnderChange) < MaxCalls
  /\ busy' = [busy EXCEPT ![s] = "email"]
  /\ call' = [call EXCEPT ![s] = [stage |-> "admitted", for |-> c.for, old |-> c.for, assured |-> AalOk(s)]]
  /\ proven' = proven \cup {c.mailed}
  /\ UNCHANGED <<acct, sess, row>>

\* The handler gets its answer, if it still waits: a final one drops the challenge,
\* another keeps it with the answer counted; the commit of the row may be lost.
Answered(s, final) ==
  LET c == row[s].emailChange
      after == IF final THEN NoChange ELSE IF challengeUsable(c) THEN Counted(c, NoChange) ELSE c IN
  IF busy[s] = "email"
    THEN /\ busy' = [busy EXCEPT ![s] = "none"]
         /\ \/ row' = [row EXCEPT ![s].emailChange = after]
            \/ Faults /\ row' = row
    ELSE UNCHANGED <<busy, row>>

Finished(s, final) == call' = [call EXCEPT ![s] = NoCall] /\ Answered(s, final)
Stage(s, stage) == call' = [call EXCEPT ![s].stage = stage] /\ UNCHANGED <<busy, row>>

\* The bridge reads the address that the account has now.  It refuses the same
\* one, and one that is taken: by another customer, or in the shop by this one.
EmailRead(s) ==
  LET c == call[s] IN
  /\ c.stage = "admitted"
  /\ \/ c.for = acct.email /\ Finished(s, FALSE)
     \/ c.for # acct.email /\ Finished(s, TRUE)
     \/ /\ c.for \notin {acct.email, acct.shop}
        /\ call' = [call EXCEPT ![s].stage = "shop", ![s].old = acct.email]
        /\ UNCHANGED <<busy, row>>
  /\ UNCHANGED acct

InShop(e) == [acct EXCEPT !.shop = e]

\* changeEmail of the shop, which refuses an address that is taken.  Any other
\* failure ends the change, and nothing is taken back.
EmailShop(s) ==
  /\ call[s].stage = "shop"
  /\ \/ acct' = InShop(call[s].for) /\ Stage(s, "put")
     \/ acct' = acct /\ Finished(s, TRUE)
     \/ Faults /\ acct' \in {acct, InShop(call[s].for)} /\ Finished(s, FALSE)

\* update_identity_email, for the new address and, when a change is taken back, for
\* the old one: Kratos takes the address unverified, and then it is marked verified.
Undoing(s) == call[s].stage \in {"undoPut", "undoPatch", "undoShop"}
Target(s) == IF Undoing(s) THEN call[s].old ELSE call[s].for
AtKratos(e) == IF acct.email = e THEN acct ELSE [acct EXCEPT !.email = e, !.verified = FALSE]

\* A failure at Kratos begins to take the change back; one while it is taken back
\* is only logged.
KratosFails(s) == Stage(s, IF Undoing(s) THEN "undoShop" ELSE "undoPut")
KratosDone(s) == IF Undoing(s) THEN Stage(s, "undoShop") ELSE Finished(s, TRUE)

\* The PUT, unless Kratos has the address; it may be taken by another identity.
EmailPut(s) ==
  LET e == Target(s) IN
  /\ call[s].stage \in {"put", "undoPut"}
  /\ \/ acct' = acct /\ acct.email = e /\ acct.verified /\ KratosDone(s)
     \/ /\ ~(acct.email = e /\ acct.verified)
        /\ acct' = AtKratos(e) /\ Stage(s, IF Undoing(s) THEN "undoPatch" ELSE "patch")
     \/ acct' = acct /\ KratosFails(s)
     \/ Faults /\ acct' = AtKratos(e) /\ KratosFails(s)

\* The PATCH marks the address that the identity has by then, and fails if it is
\* no longer the one of this change.
EmailPatch(s) ==
  LET marked == [acct EXCEPT !.verified = TRUE] IN
  /\ call[s].stage \in {"patch", "undoPatch"}
  /\ \/ acct' = marked /\ acct.email = Target(s) /\ KratosDone(s)
     \/ acct' = marked /\ acct.email # Target(s) /\ KratosFails(s)
     \/ Faults /\ acct' \in {acct, marked} /\ KratosFails(s)

\* The last call of _compensate.
EmailUndoShop(s) ==
  /\ call[s].stage = "undoShop"
  /\ acct' \in {acct, InShop(call[s].old)}
  /\ Finished(s, FALSE)

\* The bridge dies.
EmailCrash(s) == Faults /\ call[s] # NoCall /\ Finished(s, FALSE) /\ UNCHANGED acct

\* bridgeRequest gives up after 12 seconds, and the bridge goes on.
EmailTimeOut(s) == Faults /\ busy[s] = "email" /\ Answered(s, FALSE) /\ UNCHANGED <<acct, call>>

BridgeStep(s) ==
  /\ \/ EmailRead(s) \/ EmailShop(s) \/ EmailPut(s) \/ EmailPatch(s) \/ EmailUndoShop(s)
     \/ EmailCrash(s) \/ EmailTimeOut(s)
  /\ UNCHANGED <<sess, proven>>

-----------------------------------------------------------------------------
(* securitySettingsFlow                                                    *)

\* projectSecuritySettings: what Kratos' settings flow offers.  Freshly made
\* codes stay in the flow until they are confirmed.
offered(s) ==
  {"password", "backup_generate"}
  \cup (IF acct.totp THEN {"totp_disable"} ELSE {"totp_confirm"})
  \cup (IF row[s].generated THEN {"backup_confirm"} ELSE {})
  \cup (IF acct.codes > 0 THEN {"backup_disable"} ELSE {})
  \cup (IF acct.google THEN {"google_disconnect"} ELSE {"google_connect"})

\* assertSecuritySession with settings
SecuritySession(s) == HasSecondFactor(acct) => sess[s].aal = 2

\* Google goes only when a password remains.
Removable(a) == a = "google_disconnect" => acct.password

\* The checks before the change, for staff and for customers.
Accepts(s, a) ==
  /\ a \in offered(s) /\ SecuritySession(s)
  /\ IF acct.staff THEN a = "totp_confirm" ELSE ready(s)
  /\ recoveryMode(s) => a \in recoveryActions
  /\ a \in {"google_connect", "google_disconnect"} => ~row[s].social
  /\ Removable(a)
  /\ a = "backup_generate" => acct.totp

SettingsCheck(s, a) ==
  /\ Usable(s) /\ Accepts(s, a)
  /\ a \in {"backup_generate", "google_connect"} => RoomFor(s, a)
  /\ busy' = [busy EXCEPT ![s] = a]
  /\ UNCHANGED <<acct, sess, row>>

\* Kratos refuses a session that lost its privilege since the checks.
Privileged(s) == Live(s) /\ AalOk(s)

Changed(a) ==
  CASE a = "totp_confirm" -> [acct EXCEPT !.totp = TRUE]
    [] a = "totp_disable" -> [acct EXCEPT !.totp = FALSE]
    [] a = "backup_confirm" -> [acct EXCEPT !.codes = CodeSet]
    [] a = "backup_disable" -> [acct EXCEPT !.codes = 0]
    [] a = "google_disconnect" -> [acct EXCEPT !.google = FALSE]
    [] a = "password" -> [acct EXCEPT !.password = TRUE]
    [] OTHER -> acct

\* A confirmed authenticator raises the session that confirmed it; a new
\* password ends the other sessions (the hook revoke_active_sessions).
EndedBy(s, a) == IF a = "password" THEN Others(s) ELSE {}
Raised(r) == [r EXCEPT !.aal = 2, !.factor = "totp"]

RowAfter(s, a) ==
  [row[s] EXCEPT !.aal = IF a = "totp_confirm" THEN 2 ELSE @,
                 !.generated = CASE a = "backup_generate" -> TRUE
                                 [] a = "backup_confirm" -> FALSE
                                 [] OTHER -> @,
                 !.social = @ \/ a = "google_connect"]

\* The provider applies the change.  The removal of the authenticator goes on
\* with that of the codes; another change is committed, or its commit is lost.
SettingsApply(s) ==
  LET a == busy[s] IN
  /\ a \in SecurityAction /\ Privileged(s)
  /\ acct' = Changed(a)
  /\ sess' = [Ended(EndedBy(s, a)) EXCEPT ![s] = IF a = "totp_confirm" THEN Raised(@) ELSE @]
  /\ IF a = "totp_disable" /\ acct.codes > 0
       THEN busy' = [busy EXCEPT ![s] = "cleanup"] /\ UNCHANGED row
       ELSE /\ busy' = [busy EXCEPT ![s] = "none"]
            /\ \/ row' = [RowsWithout(EndedBy(s, a)) EXCEPT ![s] = RowAfter(s, a)]
               \/ Faults /\ row' = RowsWithout(EndedBy(s, a))

\* The recovery codes are turned off with the authenticator, by a second call.
SettingsCleanup(s) ==
  /\ busy[s] = "cleanup" /\ Privileged(s)
  /\ acct' = [acct EXCEPT !.codes = 0]
  /\ busy' = [busy EXCEPT ![s] = "none"]
  /\ UNCHANGED <<sess, row>>

\* The provider rejects the change, or a call fails: the row is as before.
SettingsFails(s) ==
  /\ busy[s] \in SecurityAction \cup {"cleanup"}
  /\ Faults \/ ~Privileged(s)
  /\ busy' = [busy EXCEPT ![s] = "none"]
  /\ UNCHANGED <<acct, sess, row>>

\* completeSocialCallback of a settings flow: Google has sent the customer back.
\* A callback that throws rolls the row back, and the flow stays pending.
ConnectCallback(s) ==
  /\ Usable(s) /\ row[s].social /\ SecuritySession(s)
  /\ \/ /\ acct' \in {acct, [acct EXCEPT !.google = TRUE]}
        /\ row' = [row EXCEPT ![s].social = FALSE]
     \/ /\ Faults /\ acct' = [acct EXCEPT !.google = TRUE]
        /\ UNCHANGED row
  /\ UNCHANGED <<sess, busy>>

-----------------------------------------------------------------------------

\* authenticatedState: the session is below the assurance of the account, or no
\* longer the one in the row, or the address is not verified: the login is ended.
Rejected(s) ==
  /\ Live(s) /\ busy[s] = "none"
  /\ ~acct.verified \/ ~AalOk(s) \/ row[s].aal # sess[s].aal
  /\ Ending({s})
  /\ UNCHANGED <<acct, busy>>

SessionStep(s) ==
  \/ \E X \in SUBSET Sessions : SessionsRevoke(s, X)
  \/ StepUpSend(s) \/ StepUpVerify(s)
  \/ EmailVerifyFails(s) \/ EmailCancel(s)
  \/ \E e \in Addresses : EmailRequest(s, e)
  \/ \E a \in Settings \cap SecurityAction : SettingsCheck(s, a)
  \/ SettingsApply(s) \/ SettingsCleanup(s) \/ SettingsFails(s) \/ ConnectCallback(s)
  \/ Rejected(s)

AccountStep ==
  \E s \in Sessions : (SessionStep(s) /\ UNCHANGED bridgeVars) \/ EmailVerify(s) \/ BridgeStep(s)
=============================================================================
