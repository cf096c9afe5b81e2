------------------------ MODULE AccountEntry_proofs ------------------------
(* Theorems about AccountEntry and AccountSecurity, for any number of       *)
(* sessions, addresses and changes of the address at a time.                *)
EXTENDS AccountEntry, TLAPS

\* The values of the variables, as TypeOK has them.
Level == 1 .. 2
Codes == 0 .. CodeSet

Account == [registered : BOOLEAN, verified : BOOLEAN, staff : BOOLEAN, password : BOOLEAN,
            google : BOOLEAN, totp : BOOLEAN, codes : Codes, email : Addresses, shop : Addresses]
SessionState == [state : {"none", "held", "live"}, aal : Level, factor : {"none", "totp", "lookup"}]
RowState == [aal : Level, stepUp : StepUps, emailChange : EmailChanges,
             social : BOOLEAN, generated : BOOLEAN]
Attempts == [kind : FormKind \cup {"none"}, oauth : BOOLEAN, aal : Level, session : OptSession,
             handed : Level \cup {0}, social : {"none", "login", "registration"},
             google : {"none", "bound", "submitted"}, linking : BOOLEAN]

\* The code of a challenge was mailed to the address the challenge is for.
ProvenRow == {r \in RowState : r.emailChange.mailed = r.emailChange.for}

\* No login form is one in which Kratos would connect Google.
Plain == {a \in Attempts : ~a.linking}

Activity == SecurityAction \cup {"none", "cleanup", "email"}

EntryInv ==
  /\ acct \in Account
  /\ sess \in [Sessions -> SessionState]
  /\ row \in [Sessions -> ProvenRow]
  /\ busy \in [Sessions -> Activity]
  /\ attempt \in Plain

\* What the bridge writes for a session, forward or back, was proven before, and the
\* session had the assurance of the account when the change was admitted.
Backed(c) == c.stage # "none" => {c.for, c.old} \subseteq proven /\ c.assured

ProvenInv ==
  /\ call \in [Sessions -> Calls] /\ proven \subseteq Addresses
  /\ {acct.email, acct.shop} \subseteq proven
  /\ \A s \in Sessions : Backed(call[s])

\* A step that leaves both addresses of the account alone.
SameAddress == acct'.email = acct.email /\ acct'.shop = acct.shop

\* What the constants are as numbers: levels, guesses and code sets.
LEMMA Numbers ==
  /\ Level = 1 .. 2 /\ Level \cup {0} = 0 .. 2
  /\ 1 \in Level /\ 2 \in Level /\ 0 \in Codes /\ CodeSet \in Codes
  /\ \A n \in Codes : n > 0 => n - 1 \in Codes
  /\ 0 \in 0 .. MaxGuesses - 1
BY AccountAssumption DEF Level, Codes

\* The inductive invariant contains the type invariant.
LEMMA InvIsTyped == EntryInv /\ ProvenInv => TypeOK
<1> SUFFICES ASSUME EntryInv, ProvenInv PROVE TypeOK
  OBVIOUS
<1>1. row \in [Sessions -> RowState]
  BY DEF EntryInv, ProvenRow
<1>2. attempt \in Attempts
  BY DEF EntryInv, Plain
<1> QED
  BY <1>1, <1>2, Numbers DEF EntryInv, ProvenInv, TypeOK, Account, SessionState, RowState, Attempts, Codes,
                            Activity

-----------------------------------------------------------------------------
(* The values the actions write.                                            *)

\* What the actions write into a challenge has its shape.
LEMMA Challenges ==
  /\ NoStepUp \in StepUps /\ NoChange \in EmailChanges
  /\ [NoStepUp EXCEPT !.state = "sent"] \in StepUps
  /\ \A c \in StepUps : [c EXCEPT !.state = "verified"] \in StepUps
BY AccountAssumption DEF NoStepUp, NoChange, StepUps, EmailChanges

\* A counted guess leaves a step-up or ends it.
LEMMA StepUpCounted == \A c \in StepUps : Counted(c, NoStepUp) \in StepUps
<1> SUFFICES ASSUME NEW c \in StepUps PROVE Counted(c, NoStepUp) \in StepUps
  OBVIOUS
<1>1. CASE c.attempts + 1 >= MaxGuesses
  BY <1>1, Challenges DEF Counted
<1>2. CASE ~(c.attempts + 1 >= MaxGuesses)
  BY <1>2, AccountAssumption DEF Counted, StepUps
<1> QED
  BY <1>1, <1>2

\* A counted guess leaves an email change for the same address or ends it.
LEMMA ChangeCounted ==
  \A c \in EmailChanges : c.mailed = c.for =>
    /\ Counted(c, NoChange) \in EmailChanges
    /\ Counted(c, NoChange).mailed = Counted(c, NoChange).for
<1> SUFFICES ASSUME NEW c \in EmailChanges, c.mailed = c.for
             PROVE  /\ Counted(c, NoChange) \in EmailChanges
                    /\ Counted(c, NoChange).mailed = Counted(c, NoChange).for
  OBVIOUS
<1>1. CASE c.attempts + 1 >= MaxGuesses
  BY <1>1, Challenges DEF Counted, NoChange
<1>2. CASE ~(c.attempts + 1 >= MaxGuesses)
  BY <1>2, AccountAssumption DEF Counted, EmailChanges
<1> QED
  BY <1>1, <1>2

\* A session that begins has proven nothing yet.
LEMMA NewRows == \A a \in Level : NewRow(a) \in ProvenRow
BY Challenges, Numbers DEF NewRow, ProvenRow, RowState, NoChange

\* The states of a session that is not there or not yet handed over.
LEMMA NoSessions ==
  NoSession \in SessionState /\ [NoSession EXCEPT !.state = "held"] \in SessionState
BY Numbers DEF NoSession, SessionState

\* A row with one of its challenges replaced, or its flags.
LEMMA RowWith ==
  ASSUME NEW r \in ProvenRow
  PROVE  /\ \A c \in StepUps : [r EXCEPT !.stepUp = c] \in ProvenRow
         /\ \A c \in EmailChanges : c.mailed = c.for => [r EXCEPT !.emailChange = c] \in ProvenRow
         /\ \A f \in BOOLEAN : [r EXCEPT !.social = f] \in ProvenRow
         /\ \A a \in Level, g, f \in BOOLEAN :
              [r EXCEPT !.aal = a, !.generated = g, !.social = f] \in ProvenRow
BY DEF ProvenRow, RowState

\* Ending sessions leaves well-formed sessions and rows.
LEMMA EndingTyped ==
  ASSUME EntryInv, NEW X
  PROVE  Ended(X) \in [Sessions -> SessionState] /\ RowsWithout(X) \in [Sessions -> ProvenRow]
BY NoSessions, NewRows, Numbers DEF EntryInv, Ended, RowsWithout

\* An attempt that is emptied, or goes to another form, connects no Google account.
LEMMA Emptied == NoAttempt \in Plain /\ \A a \in Plain, k \in FormKind :
                   [a EXCEPT !.kind = k, !.aal = 1, !.linking = FALSE] \in Plain
BY Numbers DEF NoAttempt, Plain, Attempts, OptSession

-----------------------------------------------------------------------------

\* The invariant holds initially.
LEMMA InitEntry == EntryInit => EntryInv /\ ProvenInv
<1> SUFFICES ASSUME EntryInit PROVE EntryInv /\ ProvenInv
  OBVIOUS
<1>1. acct \in Account /\ acct.email = acct.shop
  <2>1. Nobody \in Account /\ Nobody.email = Nobody.shop
    BY AccountAssumption, Numbers DEF Nobody, Account
  <2>2. Customer0 \in Account /\ Customer0.email = Customer0.shop
    BY <2>1 DEF Customer0, Account
  <2>3. \A e \in Addresses : [Customer0 EXCEPT !.totp = TRUE, !.email = e, !.shop = e]
          \in {a \in Account : a.email = a.shop}
    BY <2>2 DEF Account
  <2>4. [Customer0 EXCEPT !.staff = TRUE] \in {a \in Account : a.email = a.shop}
    BY <2>2 DEF Account
  <2> QED
    BY <2>1, <2>3, <2>4 DEF EntryInit
<1>2. row \in [Sessions -> ProvenRow] /\ sess \in [Sessions -> SessionState]
  BY NewRows, NoSessions, Numbers DEF EntryInit
<1>3. busy \in [Sessions -> Activity] /\ attempt \in Plain
  BY Emptied DEF EntryInit, Activity
<1>4. ProvenInv
  <2>1. NoCall \in Calls /\ Backed(NoCall)
    BY AccountAssumption DEF NoCall, Calls, Backed
  <2>2. acct.email \in Addresses
    BY <1>1 DEF Account
  <2> QED
    BY <1>1, <2>1, <2>2 DEF EntryInit, ProvenInv
<1> QED
  BY <1>1, <1>2, <1>3, <1>4 DEF EntryInv

(* What a signed-in person changes.                                         *)

\* A step of the challenges of session s.
LEMMA ChallengeKeeps ==
  ASSUME EntryInv, NEW s \in Sessions,
         StepUpSend(s) \/ StepUpVerify(s) \/ EmailVerifyFails(s) \/ EmailCancel(s)
           \/ (\E e \in Addresses : EmailRequest(s, e)),
         UNCHANGED attempt
  PROVE  EntryInv' /\ acct' = acct
<1>1. row[s] \in ProvenRow /\ row[s].stepUp \in StepUps /\ row[s].emailChange \in EmailChanges
      /\ row[s].emailChange.mailed = row[s].emailChange.for
  BY DEF EntryInv, ProvenRow, RowState
<1>2. UNCHANGED <<acct, sess, busy>>
  BY DEF StepUpSend, StepUpVerify, EmailVerifyFails, EmailCancel, EmailRequest
<1>3. SUFFICES row' \in [Sessions -> ProvenRow]
  BY <1>2 DEF EntryInv
<1>4. SUFFICES \E r \in ProvenRow : row' = [row EXCEPT ![s] = r]
  BY DEF EntryInv
<1>5. CASE StepUpSend(s)
  BY <1>1, <1>5, RowWith, Challenges DEF StepUpSend
<1>6. CASE StepUpVerify(s)
  <2>1. \E c \in StepUps : row' = [row EXCEPT ![s].stepUp = c]
    <3>1. [row EXCEPT ![s].stepUp.state = "verified"]
            = [row EXCEPT ![s].stepUp = [row[s].stepUp EXCEPT !.state = "verified"]]
      OBVIOUS
    <3> QED
      BY <1>1, <1>6, <3>1, Challenges, StepUpCounted DEF StepUpVerify
  <2> QED
    BY <1>1, <2>1, RowWith
<1>7. CASE EmailVerifyFails(s)
  <2>1. row' = [row EXCEPT ![s].emailChange = Counted(row[s].emailChange, NoChange)]
    BY <1>7 DEF EmailVerifyFails
  <2> QED
    BY <1>1, <2>1, ChangeCounted, RowWith
<1>8. CASE EmailCancel(s)
  BY <1>1, <1>8, Challenges, RowWith DEF EmailCancel, NoChange
<1>9. ASSUME NEW e \in Addresses, EmailRequest(s, e)
      PROVE  \E r \in ProvenRow : row' = [row EXCEPT ![s] = r]
  <2> DEFINE c == [NoChange EXCEPT !.state = "sent", !.for = e, !.mailed = e]
  <2>1. c \in EmailChanges /\ c.mailed = c.for
    BY Numbers DEF NoChange, EmailChanges
  <2>2. row' = [row EXCEPT ![s].emailChange = c]
    BY <1>9 DEF EmailRequest
  <2> QED
    BY <1>1, <2>1, <2>2, RowWith
<1> QED
  BY <1>5, <1>6, <1>7, <1>8, <1>9

\* A step of a settings change, or the return from Google in the settings.
LEMMA SettingsKeeps ==
  ASSUME EntryInv, NEW s \in Sessions, UNCHANGED attempt,
         SettingsApply(s) \/ SettingsCleanup(s) \/ SettingsFails(s)
           \/ (\E a \in SecurityAction : SettingsCheck(s, a))
  PROVE  EntryInv' /\ SameAddress /\ (acct'.google => acct.google)
<1>1. CASE SettingsFails(s) \/ (\E a \in SecurityAction : SettingsCheck(s, a))
  BY <1>1 DEF EntryInv, SettingsFails, SettingsCheck, SameAddress, Activity
<1>2. CASE SettingsCleanup(s)
  BY <1>2, Numbers DEF EntryInv, SettingsCleanup, Account, SameAddress, Activity
<1>3. CASE SettingsApply(s)
  <2> DEFINE a == busy[s]
  <2>1. a \in SecurityAction /\ row[s] \in ProvenRow /\ sess[s] \in SessionState
    BY <1>3 DEF EntryInv, SettingsApply
  <2>2. acct' = Changed(a)
    BY <1>3 DEF SettingsApply
  <2>3. acct' \in Account /\ SameAddress /\ (acct'.google => acct.google)
    <3>1. acct' \in {acct, [acct EXCEPT !.totp = TRUE], [acct EXCEPT !.totp = FALSE],
                    [acct EXCEPT !.codes = CodeSet], [acct EXCEPT !.codes = 0],
                    [acct EXCEPT !.google = FALSE], [acct EXCEPT !.password = TRUE]}
      BY <2>2 DEF Changed
    <3> QED
      BY <3>1, Numbers DEF EntryInv, Account, SameAddress
  <2>4. Ended(EndedBy(s, a)) \in [Sessions -> SessionState]
        /\ RowsWithout(EndedBy(s, a)) \in [Sessions -> ProvenRow]
        /\ s \notin EndedBy(s, a)
    BY EndingTyped DEF EndedBy, Others
  <2>5. \A r \in SessionState : Raised(r) \in SessionState
    BY Numbers DEF Raised, SessionState
  <2>6. sess' \in [Sessions -> SessionState]
    BY <1>3, <2>4, <2>5 DEF SettingsApply
  <2>7. RowAfter(s, a) \in ProvenRow
    <3>1. row[s].aal \in Level /\ row[s].generated \in BOOLEAN /\ row[s].social \in BOOLEAN
      BY <2>1 DEF ProvenRow, RowState
    <3> DEFINE l == IF a = "totp_confirm" THEN 2 ELSE row[s].aal
               g == CASE a = "backup_generate" -> TRUE
                      [] a = "backup_confirm" -> FALSE
                      [] OTHER -> row[s].generated
               f == row[s].social \/ a = "google_connect"
    <3>2. l \in Level /\ f \in BOOLEAN
      BY <3>1, Numbers
    <3>3. g \in BOOLEAN
      BY <3>1
    <3>4. RowAfter(s, a) = [row[s] EXCEPT !.aal = l, !.generated = g, !.social = f]
      BY DEF RowAfter
    <3> HIDE DEF l, g, f
    <3>5. [row[s] EXCEPT !.aal = l, !.generated = g, !.social = f] \in ProvenRow
      BY <2>1, <3>2, <3>3, RowWith
    <3> QED
      BY <3>4, <3>5
  <2>8. row' \in [Sessions -> ProvenRow]
    <3>1. [RowsWithout(EndedBy(s, a)) EXCEPT ![s] = RowAfter(s, a)] \in [Sessions -> ProvenRow]
      BY <2>4, <2>7
    <3> QED
      BY <1>3, <2>4, <3>1 DEF SettingsApply, EntryInv
  <2>9. busy' \in [Sessions -> Activity]
    BY <1>3 DEF SettingsApply, EntryInv, Activity
  <2> QED
    BY <2>3, <2>6, <2>8, <2>9 DEF EntryInv
<1> QED
  BY <1>1, <1>2, <1>3

\* Coming back from Google to connect it changes no address.
LEMMA ConnectKeeps ==
  ASSUME EntryInv, NEW s \in Sessions, UNCHANGED attempt, ConnectCallback(s)
  PROVE  EntryInv' /\ SameAddress
<1>1. acct' \in Account /\ SameAddress
  BY DEF EntryInv, ConnectCallback, Account, SameAddress
<1>2. row[s] \in ProvenRow
  BY DEF EntryInv
<1>3. row' = row \/ row' = [row EXCEPT ![s] = [row[s] EXCEPT !.social = FALSE]]
  BY DEF ConnectCallback
<1>4. row' \in [Sessions -> ProvenRow]
  BY <1>2, <1>3, RowWith DEF EntryInv
<1> QED
  BY <1>1, <1>4 DEF EntryInv, ConnectCallback

\* Ending sessions, one's own or others, does not change the account.
LEMMA RevokeKeeps ==
  ASSUME EntryInv, NEW s \in Sessions, UNCHANGED attempt,
         Rejected(s) \/ (\E X \in SUBSET Sessions : SessionsRevoke(s, X))
  PROVE  EntryInv' /\ acct' = acct
<1>1. UNCHANGED <<acct, busy>>
  BY DEF Rejected, SessionsRevoke
<1>2. \E X : sess' = Ended(X) /\ row' = RowsWithout(X)
  BY DEF Rejected, SessionsRevoke, Ending
<1> QED
  BY <1>1, <1>2, EndingTyped DEF EntryInv

\* A step that leaves the addresses and the bridge alone keeps what is proven.
LEMMA SameIsProven == ProvenInv /\ SameAddress /\ UNCHANGED bridgeVars => ProvenInv'
BY DEF ProvenInv, SameAddress, bridgeVars, Backed

\* A step of a logged-in session leaves the addresses alone, and connects Google only
\* when the customer comes back from it in a live session.
LEMMA SessionStepKeeps ==
  ASSUME EntryInv, NEW s \in Sessions, SessionStep(s), UNCHANGED attempt
  PROVE  /\ EntryInv' /\ SameAddress
         /\ acct'.google /\ ~acct.google => ConnectCallback(s) /\ Live(s)
<1>1. CASE ConnectCallback(s)
  BY <1>1, ConnectKeeps DEF ConnectCallback, Usable
<1>2. CASE SettingsApply(s) \/ SettingsCleanup(s) \/ SettingsFails(s)
             \/ (\E a \in SecurityAction : SettingsCheck(s, a))
  BY <1>2, SettingsKeeps
<1>3. CASE Rejected(s) \/ (\E X \in SUBSET Sessions : SessionsRevoke(s, X))
  BY <1>3, RevokeKeeps DEF SameAddress
<1>4. CASE StepUpSend(s) \/ StepUpVerify(s) \/ EmailVerifyFails(s) \/ EmailCancel(s)
             \/ (\E e \in Addresses : EmailRequest(s, e))
  BY <1>4, ChallengeKeeps DEF SameAddress
<1> QED
  BY <1>1, <1>2, <1>3, <1>4 DEF SessionStep

-----------------------------------------------------------------------------
(* The change of the address.                                               *)

\* Entering the code begins a change to the address that the code was mailed to.
LEMMA EmailVerifyKeeps ==
  ASSUME EntryInv, ProvenInv, NEW s \in Sessions, EmailVerify(s), UNCHANGED attempt
  PROVE  EntryInv' /\ ProvenInv' /\ acct' = acct
<1> DEFINE c == row[s].emailChange
           begun == [stage |-> "admitted", for |-> c.for, old |-> c.for, assured |-> AalOk(s)]
<1>1. c.for \in Addresses /\ c.mailed = c.for
  BY DEF EntryInv, ProvenRow, RowState, EmailChanges
<1>2. /\ call' = [call EXCEPT ![s] = begun] /\ proven' = proven \cup {c.mailed}
      /\ busy' = [busy EXCEPT ![s] = "email"] /\ UNCHANGED <<acct, sess, row>> /\ AalOk(s)
  BY DEF EmailVerify, Customer, Usable
<1>3. EntryInv'
  BY <1>2 DEF EntryInv, Activity
<1>4. begun \in Calls /\ {begun.for, begun.old} \subseteq proven' /\ begun.assured
  BY <1>1, <1>2 DEF Calls
<1> HIDE DEF begun
<1>5. \A t \in Sessions : Backed(call[t])'
  BY <1>2, <1>4 DEF ProvenInv, Backed
<1>6. call' \in [Sessions -> Calls]
  BY <1>2, <1>4 DEF ProvenInv
<1> QED
  BY <1>1, <1>2, <1>3, <1>5, <1>6 DEF ProvenInv

\* The answer of the bridge ends the wait of the handler and settles the challenge.
LEMMA AnsweredTyped ==
  ASSUME EntryInv, NEW s \in Sessions, NEW final \in BOOLEAN, Answered(s, final)
  PROVE  row' \in [Sessions -> ProvenRow] /\ busy' \in [Sessions -> Activity]
<1>1. row[s] \in ProvenRow /\ row[s].emailChange \in EmailChanges
      /\ row[s].emailChange.mailed = row[s].emailChange.for
  BY DEF EntryInv, ProvenRow, RowState
<1>2. [row[s] EXCEPT !.emailChange = NoChange] \in ProvenRow
      /\ [row[s] EXCEPT !.emailChange = Counted(row[s].emailChange, NoChange)] \in ProvenRow
      /\ [row[s] EXCEPT !.emailChange = row[s].emailChange] \in ProvenRow
  BY <1>1, RowWith, Challenges, ChangeCounted DEF NoChange
<1>3. \/ row' = row
      \/ row' = [row EXCEPT ![s].emailChange = NoChange]
      \/ row' = [row EXCEPT ![s].emailChange = Counted(row[s].emailChange, NoChange)]
      \/ row' = [row EXCEPT ![s].emailChange = row[s].emailChange]
  BY DEF Answered
<1>4. row' \in [Sessions -> ProvenRow]
  BY <1>2, <1>3 DEF EntryInv
<1>5. busy' = busy \/ busy' = [busy EXCEPT ![s] = "none"]
  BY DEF Answered
<1> QED
  BY <1>4, <1>5 DEF EntryInv, Activity

\* What a step of the bridge does to its call: it ends, goes to another stage, or has
\* read the address to go back to.  Only a call that has begun takes a step.
LEMMA BridgeCalls ==
  ASSUME EntryInv, NEW s \in Sessions, BridgeStep(s)
  PROVE  /\ \/ call' = call /\ acct' = acct
            \/ call[s].stage # "none" /\ call' = [call EXCEPT ![s] = NoCall]
            \/ call[s].stage # "none" /\ \E g \in {"put", "patch", "undoPut", "undoPatch", "undoShop"} :
                 call' = [call EXCEPT ![s].stage = g]
            \/ /\ call[s].stage # "none" /\ acct' = acct
               /\ call' = [call EXCEPT ![s].stage = "shop", ![s].old = acct.email]
            \/ call' = [call EXCEPT ![s] = NoCall] /\ acct' = acct
         /\ row' \in [Sessions -> ProvenRow] /\ busy' \in [Sessions -> Activity]
         /\ UNCHANGED <<sess, proven>>
<1>1. ASSUME NEW final \in BOOLEAN, Finished(s, final)
      PROVE  /\ call' = [call EXCEPT ![s] = NoCall]
             /\ row' \in [Sessions -> ProvenRow] /\ busy' \in [Sessions -> Activity]
  BY <1>1, AnsweredTyped DEF Finished
<1>2. row \in [Sessions -> ProvenRow] /\ busy \in [Sessions -> Activity]
  BY DEF EntryInv
<1>3. ASSUME NEW g, Stage(s, g)
      PROVE  /\ call' = [call EXCEPT ![s].stage = g]
             /\ row' \in [Sessions -> ProvenRow] /\ busy' \in [Sessions -> Activity]
  BY <1>2, <1>3 DEF Stage
<1>4. UNCHANGED <<sess, proven>>
  BY DEF BridgeStep
<1>5. CASE EmailRead(s)
  BY <1>1, <1>2, <1>4, <1>5 DEF EmailRead
<1>6. CASE EmailShop(s)
  BY <1>1, <1>3, <1>4, <1>6 DEF EmailShop
<1>7. CASE EmailPut(s)
  BY <1>1, <1>3, <1>4, <1>7 DEF EmailPut, KratosDone, KratosFails
<1>8. CASE EmailPatch(s)
  BY <1>1, <1>3, <1>4, <1>8 DEF EmailPatch, KratosDone, KratosFails
<1>9. CASE EmailUndoShop(s)
  BY <1>1, <1>4, <1>9 DEF EmailUndoShop
<1>10. CASE EmailCrash(s)
  BY <1>1, <1>4, <1>10 DEF EmailCrash
<1>11. CASE EmailTimeOut(s)
  BY AnsweredTyped, <1>4, <1>11 DEF EmailTimeOut
<1> QED
  BY <1>5, <1>6, <1>7, <1>8, <1>9, <1>10, <1>11 DEF BridgeStep

\* What a step of the bridge does to the account: it writes the new address of its
\* call, or the old one, or marks the address verified.
LEMMA BridgeWrites ==
  ASSUME EntryInv, NEW s \in Sessions, BridgeStep(s)
  PROVE  \/ acct' = acct
         \/ acct' = [acct EXCEPT !.verified = TRUE]
         \/ /\ call[s].stage # "none"
            /\ \E e \in {call[s].for, call[s].old} :
                 acct' = InShop(e) \/ acct' = [acct EXCEPT !.email = e, !.verified = FALSE]
<1>1. CASE EmailPut(s)
  <2>1. acct' = acct \/ acct' = AtKratos(Target(s))
    BY <1>1 DEF EmailPut
  <2>2. call[s].stage # "none" /\ Target(s) \in {call[s].for, call[s].old}
    BY <1>1 DEF EmailPut, Target
  <2> QED
    BY <2>1, <2>2 DEF AtKratos
<1>2. CASE EmailShop(s)
  BY <1>2 DEF EmailShop
<1>3. CASE EmailUndoShop(s)
  BY <1>3 DEF EmailUndoShop
<1>4. CASE EmailPatch(s)
  BY <1>4 DEF EmailPatch
<1>5. CASE EmailRead(s) \/ EmailCrash(s) \/ EmailTimeOut(s)
  BY <1>5 DEF EmailRead, EmailCrash, EmailTimeOut
<1> QED
  BY <1>1, <1>2, <1>3, <1>4, <1>5 DEF BridgeStep

\* Whatever the bridge does, forward or back, writes proven addresses.
LEMMA BridgeKeeps ==
  ASSUME EntryInv, ProvenInv, NEW s \in Sessions, BridgeStep(s), UNCHANGED attempt
  PROVE  EntryInv' /\ ProvenInv' /\ acct'.google = acct.google
<1>1. call[s] \in Calls /\ Backed(call[s]) /\ acct \in Account /\ acct.email \in proven
      /\ acct.shop \in proven /\ proven \subseteq Addresses
  BY DEF ProvenInv, EntryInv
<1>2. call[s].stage # "none" => call[s].for \in proven /\ call[s].old \in proven
  BY <1>1 DEF Backed
<1>3. acct' \in Account /\ {acct'.email, acct'.shop} \subseteq proven /\ acct'.google = acct.google
  BY <1>1, <1>2, BridgeWrites DEF Account, InShop
<1>4. row' \in [Sessions -> ProvenRow] /\ busy' \in [Sessions -> Activity] /\ UNCHANGED <<sess, proven>>
  BY BridgeCalls
<1>5. EntryInv'
  BY <1>3, <1>4 DEF EntryInv
<1>6. \/ call' = call
      \/ \E c \in Calls : Backed(c) /\ call' = [call EXCEPT ![s] = c]
  <2>1. NoCall \in Calls /\ Backed(NoCall)
    BY AccountAssumption DEF NoCall, Calls, Backed
  <2>2. ASSUME call[s].stage # "none", NEW g \in {"put", "patch", "undoPut", "undoPatch", "undoShop"}
        PROVE  [call[s] EXCEPT !.stage = g] \in Calls /\ Backed([call[s] EXCEPT !.stage = g])
    BY <1>1, <2>2 DEF Calls, Backed
  <2>3. ASSUME call[s].stage # "none"
        PROVE  LET c == [call[s] EXCEPT !.stage = "shop", !.old = acct.email] IN c \in Calls /\ Backed(c)
    BY <1>1, <2>3 DEF Calls, Backed
  <2>4. ASSUME call[s].stage # "none", NEW g \in {"put", "patch", "undoPut", "undoPatch", "undoShop"},
               call' = [call EXCEPT ![s].stage = g]
        PROVE  \E c \in Calls : Backed(c) /\ call' = [call EXCEPT ![s] = c]
    <3>1. call' = [call EXCEPT ![s] = [call[s] EXCEPT !.stage = g]]
      BY <2>4
    <3> QED
      BY <2>2, <2>4, <3>1
  <2>5. ASSUME call[s].stage # "none", call' = [call EXCEPT ![s].stage = "shop", ![s].old = acct.email]
        PROVE  \E c \in Calls : Backed(c) /\ call' = [call EXCEPT ![s] = c]
    <3>1. call' = [call EXCEPT ![s] = [call[s] EXCEPT !.stage = "shop", !.old = acct.email]]
      BY <2>5
    <3> QED
      BY <2>3, <2>5, <3>1
  <2> QED
    BY <2>1, <2>4, <2>5, BridgeCalls
<1>7. call' \in [Sessions -> Calls] /\ \A t \in Sessions : Backed(call[t])'
  BY <1>4, <1>6 DEF ProvenInv, Backed
<1> QED
  BY <1>1, <1>3, <1>4, <1>5, <1>7 DEF ProvenInv

\* A step of the account writes proven addresses only, and connects Google only when
\* the customer comes back from it in a live session.
LEMMA AccountStepKeeps ==
  ASSUME EntryInv, ProvenInv, AccountStep, UNCHANGED attempt
  PROVE  /\ EntryInv' /\ ProvenInv'
         /\ acct'.google /\ ~acct.google => \E s \in Sessions : ConnectCallback(s) /\ Live(s)
<1> PICK s \in Sessions : (SessionStep(s) /\ UNCHANGED bridgeVars) \/ EmailVerify(s) \/ BridgeStep(s)
  BY DEF AccountStep
<1>1. CASE SessionStep(s) /\ UNCHANGED bridgeVars
  BY <1>1, SessionStepKeeps, SameIsProven
<1>2. CASE EmailVerify(s)
  BY <1>2, EmailVerifyKeeps
<1>3. CASE BridgeStep(s)
  BY <1>3, BridgeKeeps
<1> QED
  BY <1>1, <1>2, <1>3

-----------------------------------------------------------------------------
(* The forms.                                                               *)

\* A step that only writes the attempt.
LEMMA FormKeeps ==
  ASSUME EntryInv, UNCHANGED accountVars,
         \/ \E s \in Sessions \cup {"none"} : StartLogin(s)
         \/ \E kind \in FormKind : OpenForm(kind)
         \/ SubmitGoogle \/ GoogleConflict \/ GoogleContinues \/ GoogleFails
         \/ Handoff
  PROVE  EntryInv'
<1> SUFFICES attempt' \in Plain
  BY DEF EntryInv, accountVars
<1>1. attempt \in Attempts /\ ~attempt.linking
  BY DEF EntryInv, Plain
<1>2. \A k \in FormKind : Form(k) \in Plain /\ [Form(k) EXCEPT !.google = "none"] \in Plain
  BY <1>1, Numbers DEF Form, Plain, Attempts
<1>3. Returned \in Plain /\ \A k \in FormKind :
        /\ [Returned EXCEPT !.kind = k, !.google = "none"] \in Plain
        /\ [Returned EXCEPT !.kind = k, !.google = "bound"] \in Plain
        /\ [Returned EXCEPT !.kind = k, !.aal = 1] \in Plain
  BY <1>1, Numbers DEF Returned, Plain, Attempts
<1>4. "login" \in FormKind /\ "verification" \in FormKind /\ "registration" \in FormKind
  BY DEF FormKind
<1>5. ASSUME NEW s \in Sessions \cup {"none"}, StartLogin(s) PROVE attempt' \in Plain
  <2>1. \A l \in Level :
          [NoAttempt EXCEPT !.kind = "login", !.oauth = TRUE, !.session = s, !.aal = l] \in Plain
    BY <1>4, Emptied DEF Plain, Attempts, OptSession
  <2>2. s # "none" => row[s].aal \in Level
    BY DEF EntryInv, ProvenRow, RowState
  <2> QED
    BY <1>5, <2>1, <2>2, Numbers DEF StartLogin
<1>6. ASSUME NEW kind \in FormKind, OpenForm(kind) PROVE attempt' \in Plain
  <2>1. attempt' = Form(kind) \/ attempt' = [Form(kind) EXCEPT !.google = "none"]
    BY <1>1, <1>6 DEF OpenForm, Form, Attempts
  <2> QED
    BY <1>2, <2>1
<1>7. CASE SubmitGoogle
  <2>1. \/ attempt' = [attempt EXCEPT !.social = "login"]
        \/ attempt' = [attempt EXCEPT !.social = "registration"]
        \/ attempt' = [Form("login") EXCEPT !.google = "none"]
        \/ attempt' = [attempt EXCEPT !.social = "registration", !.google = "submitted"]
    BY <1>7 DEF SubmitGoogle, Ready, Posted
  <2>2. /\ [attempt EXCEPT !.social = "login"] \in Plain
        /\ [attempt EXCEPT !.social = "registration"] \in Plain
        /\ [attempt EXCEPT !.social = "registration", !.google = "submitted"] \in Plain
    BY <1>1 DEF Plain, Attempts
  <2> QED
    BY <1>2, <1>4, <2>1, <2>2
<1>8. CASE GoogleConflict \/ GoogleContinues \/ GoogleFails
  BY <1>3, <1>4, <1>8 DEF GoogleConflict, GoogleContinues, GoogleFails
<1>9. CASE Handoff
  <2>1. InJar => Held \in Sessions /\ sess[Held].aal \in Level
    BY <1>1 DEF InJar, Held, EntryInv, Attempts, OptSession, SessionState
  <2>2. [Form("login") EXCEPT !.aal = 2] \in Plain
    <3>1. \A a \in Plain : [a EXCEPT !.aal = 2] \in Plain
      BY Numbers DEF Plain, Attempts
    <3> QED
      BY <1>2, <1>4, <3>1
  <2>3. \A l \in Level : [attempt EXCEPT !.handed = l] \in Plain
    BY <1>1 DEF Plain, Attempts
  <2> QED
    BY <1>2, <1>4, <1>9, <2>1, <2>2, <2>3 DEF Handoff
<1> QED
  BY <1>5, <1>6, <1>7, <1>8, <1>9

\* A provider session begins for the attempt, or one more factor is shown in it.
LEMMA SignsInTyped ==
  ASSUME EntryInv, NEW s \in Sessions, SignsIn(s)
  PROVE  sess' \in [Sessions -> SessionState]
BY NoSessions DEF EntryInv, SignsIn

\* The forms that sign in change no address and connect Google to a new account only.
LEMMA SignInKeeps ==
  ASSUME EntryInv, NEW s \in Sessions,
         SubmitPassword(s) \/ Recover(s) \/ GoogleSignsIn(s) \/ GoogleRegisters(s)
  PROVE  /\ EntryInv' /\ SameAddress
         /\ acct'.google => acct.google \/ ~acct.registered
<1>1. attempt \in Attempts /\ ~attempt.linking /\ acct \in Account
  BY DEF EntryInv, Plain
<1>2. sess' \in [Sessions -> SessionState] /\ UNCHANGED <<row, busy>>
  BY SignsInTyped DEF SubmitPassword, Recover, GoogleSignsIn, GoogleRegisters
<1>3. /\ [attempt EXCEPT !.session = s] \in Plain
      /\ [Form("reset") EXCEPT !.session = s] \in Plain
      /\ [Returned EXCEPT !.session = s, !.google = "none"] \in Plain
      /\ [Returned EXCEPT !.kind = "login", !.google = "none", !.session = s] \in Plain
  BY <1>1, Numbers DEF Plain, Attempts, OptSession, Form, Returned, FormKind
<1>4. attempt' \in Plain
  BY <1>3 DEF SubmitPassword, Recover, GoogleSignsIn, GoogleRegisters
<1>5. \/ acct' = acct
      \/ acct' = [acct EXCEPT !.google = acct.google \/ attempt.linking]
      \/ acct' = [acct EXCEPT !.verified = TRUE]
      \/ ~acct.registered /\ acct' = [acct EXCEPT !.registered = TRUE, !.verified = TRUE, !.google = TRUE]
  BY DEF SubmitPassword, Recover, GoogleSignsIn, GoogleRegisters
<1>6. acct' \in Account /\ SameAddress /\ (acct'.google => acct.google \/ ~acct.registered)
  BY <1>1, <1>5 DEF Account, SameAddress
<1> QED
  BY <1>2, <1>4, <1>6 DEF EntryInv

\* A step that writes the account without a new session, or ends sessions.
LEMMA SubmitKeeps ==
  ASSUME EntryInv,
         \/ \E f \in {"totp", "lookup"} : SubmitSecondFactor(f)
         \/ Register \/ RegisteredElsewhere \/ Verify \/ Reset \/ Leave
  PROVE  EntryInv' /\ SameAddress /\ acct'.google = acct.google
<1>1. attempt \in Attempts /\ ~attempt.linking /\ acct \in Account
  BY DEF EntryInv, Plain
<1>2. ASSUME NEW f \in {"totp", "lookup"}, SubmitSecondFactor(f)
      PROVE  EntryInv' /\ SameAddress /\ acct'.google = acct.google
  <2>1. Held \in Sessions /\ sess[Held] \in SessionState
    BY <1>1, <1>2 DEF SubmitSecondFactor, InJar, Held, EntryInv, Attempts, OptSession
  <2>2. [sess[Held] EXCEPT !.aal = 2, !.factor = f] \in SessionState
    BY <2>1, Numbers DEF SessionState
  <2>3. sess' \in [Sessions -> SessionState]
    BY <1>2, <2>2 DEF SubmitSecondFactor, EntryInv
  <2>4. f = "lookup" => acct.codes \in Codes /\ acct.codes - 1 \in Codes
    <3>1. attempt.kind = "login" /\ attempt.aal \in Level /\ f \in formMethods
      BY <1>1, <1>2 DEF SubmitSecondFactor, Ready, Posted, Attempts
    <3>2. ASSUME f = "lookup" PROVE acct.codes > 0
      BY <1>1, <3>1, <3>2 DEF formMethods, Level
    <3> QED
      BY <1>1, <3>2, Numbers DEF Account
  <2>5. acct' = IF f = "lookup" THEN [acct EXCEPT !.codes = acct.codes - 1] ELSE acct
    BY <1>2 DEF SubmitSecondFactor
  <2>6. acct' \in Account /\ SameAddress /\ acct'.google = acct.google
    BY <1>1, <2>4, <2>5 DEF Account, SameAddress
  <2> QED
    BY <1>2, <2>3, <2>6 DEF SubmitSecondFactor, EntryInv
<1>3. CASE Register \/ RegisteredElsewhere \/ Verify \/ Reset \/ Leave
  <2>1. \/ acct' = acct
        \/ acct' = [acct EXCEPT !.registered = TRUE, !.password = TRUE]
        \/ acct' = [acct EXCEPT !.registered = TRUE, !.verified = TRUE, !.password = TRUE]
        \/ acct' = [acct EXCEPT !.verified = TRUE]
        \/ acct' = [acct EXCEPT !.password = TRUE]
    BY <1>3 DEF Register, RegisteredElsewhere, Verify, Reset, Leave
  <2>2. acct' \in Account /\ SameAddress /\ acct'.google = acct.google
    BY <1>1, <2>1 DEF Account, SameAddress
  <2>3. sess' \in [Sessions -> SessionState] /\ row' \in [Sessions -> ProvenRow]
    BY <1>3, EndingTyped DEF Register, RegisteredElsewhere, Verify, Reset, Leave, Ending, EntryInv
  <2>4. attempt' \in Plain
    <3>1. Form("verification") \in Plain
      BY <1>1, Numbers DEF Form, Plain, Attempts, FormKind
    <3>2. [NoAttempt EXCEPT !.kind = "login", !.oauth = TRUE] \in Plain
      <4>1. \A a \in Plain : [a EXCEPT !.kind = "login", !.oauth = TRUE] \in Plain
        BY DEF Plain, Attempts, FormKind
      <4> QED
        BY <4>1, Emptied
    <3> QED
      BY <1>3, <3>1, <3>2, Emptied
      DEF Register, RegisteredElsewhere, Verify, Reset, Leave, EntryInv
  <2>5. busy' = busy
    BY <1>3 DEF Register, RegisteredElsewhere, Verify, Reset, Leave
  <2> QED
    BY <2>2, <2>3, <2>4, <2>5 DEF EntryInv
<1> QED
  BY <1>2, <1>3

\* The callback makes the session one of the account, which it does not change.
LEMMA CallbackKeeps == ASSUME EntryInv, Callback PROVE EntryInv' /\ acct' = acct
<1>1. Held \in Sessions /\ attempt.handed \in Level
  BY DEF Callback, InJar, Held, EntryInv, Plain, Attempts, OptSession
<1>2. PICK X : /\ sess' = [Ended(X) EXCEPT ![Held].state = "live"]
               /\ row' = [RowsWithout(X) EXCEPT ![Held] = NewRow(attempt.handed)]
  BY DEF Callback
<1>3. Ended(X) \in [Sessions -> SessionState] /\ RowsWithout(X) \in [Sessions -> ProvenRow]
  BY EndingTyped
<1>4. sess' \in [Sessions -> SessionState]
  <2>1. [Ended(X)[Held] EXCEPT !.state = "live"] \in SessionState
    BY <1>1, <1>3 DEF SessionState
  <2> QED
    BY <1>2, <1>3, <2>1
<1>5. row' \in [Sessions -> ProvenRow]
  BY <1>1, <1>2, <1>3, NewRows
<1> QED
  BY <1>4, <1>5, Emptied DEF Callback, EntryInv

-----------------------------------------------------------------------------
\* What a step may do to the link with Google.
Careful ==
  ~acct.google /\ acct'.google =>
     ~acct.registered \/ \E s \in Sessions : Live(s) /\ ConnectCallback(s)

\* Every step keeps the invariant and is careful with the account.
LEMMA StepEntry == EntryInv /\ ProvenInv /\ [Next]_entryVars => EntryInv' /\ ProvenInv' /\ Careful
<1> SUFFICES ASSUME EntryInv, ProvenInv, [Next]_entryVars PROVE EntryInv' /\ ProvenInv' /\ Careful
  OBVIOUS
<1>1. CASE UNCHANGED entryVars
  BY <1>1 DEF EntryInv, ProvenInv, Backed, Careful, entryVars
<1>2. CASE AccountStep /\ UNCHANGED attempt
  BY <1>2, AccountStepKeeps DEF Careful
<1> DEFINE alone == UNCHANGED bridgeVars
<1>3. CASE alone /\ (\/ \E s \in Sessions \cup {"none"} : StartLogin(s)
                     \/ \E kind \in FormKind : OpenForm(kind)
                     \/ SubmitGoogle \/ GoogleConflict \/ GoogleContinues \/ GoogleFails
                     \/ Handoff)
  <2>1. UNCHANGED accountVars
    BY <1>3 DEF StartLogin, OpenForm, SubmitGoogle, GoogleConflict, GoogleContinues,
                GoogleFails, Handoff
  <2>2. acct' = acct
    BY <2>1 DEF accountVars
  <2> QED
    BY <1>3, <2>1, <2>2, FormKeeps, SameIsProven DEF Careful, SameAddress
<1>4. CASE alone /\ \E s \in Sessions :
             SubmitPassword(s) \/ Recover(s) \/ GoogleSignsIn(s) \/ GoogleRegisters(s)
  BY <1>4, SignInKeeps, SameIsProven DEF Careful
<1>5. CASE alone /\ (\/ \E f \in {"totp", "lookup"} : SubmitSecondFactor(f)
                     \/ Register \/ RegisteredElsewhere \/ Verify \/ Reset \/ Leave)
  BY <1>5, SubmitKeeps, SameIsProven DEF Careful
<1>6. CASE alone /\ Callback
  BY <1>6, CallbackKeeps, SameIsProven DEF Careful, SameAddress
<1> QED
  BY <1>1, <1>2, <1>3, <1>4, <1>5, <1>6 DEF Next, EntryStep

\* Accounts, sessions, challenges and attempts keep their types; in particular the wrong
\* answers that are still counted stay below maxCodeAttempts (account.ts).
THEOREM EntryTypeCorrect == Spec => []TypeOK
<1>1. Spec => [](EntryInv /\ ProvenInv)
  BY InitEntry, StepEntry, PTL DEF Spec
<1> QED
  BY <1>1, InvIsTyped, PTL

\* Kratos and the shop only ever have an address that was proven by the code mailed to
\* it, also when a change is taken back over that of another session (account.py,
\* change_email and _compensate).
THEOREM AddressIsProven == Spec => []EmailIsProven
<1>1. Spec => [](EntryInv /\ ProvenInv)
  BY InitEntry, StepEntry, PTL DEF Spec
<1>2. ProvenInv => EmailIsProven
  BY DEF ProvenInv, EmailIsProven
<1> QED
  BY <1>1, <1>2, PTL

\* No login, recovery or registration with a matching address connects Google to an
\* account that exists (social.ts, completeSocialCallback).
THEOREM AccountsAreNotMerged == Spec => GoogleIsLinkedOnPurpose
<1>1. EntryInv /\ ProvenInv /\ [Next]_entryVars =>
        [~acct.google /\ acct'.google =>
           \/ ~acct.registered
           \/ \E s \in Sessions : Live(s) /\ ConnectCallback(s)]_entryVars
  BY StepEntry DEF Careful
<1> QED
  BY <1>1, InitEntry, StepEntry, PTL DEF Spec, GoogleIsLinkedOnPurpose

\* A settings change is applied only for a session that has shown the second factor, if
\* there is one at that moment (settings.ts, assertSecuritySession; Kratos' required_aal);
\* the bridge changes the address only for a session that was admitted with full
\* assurance, whatever has become of it since (bridge_server.py, _customer_session).
THEOREM ChangesAreGuarded == Spec => AuthenticatorGuardsChanges
<1>1. ASSUME ProvenInv, NEW s \in Sessions
      PROVE  /\ SettingsChange(s) /\ HasSecondFactor(acct) => sess[s].aal = 2
             /\ AddressChange(s) => call[s].assured
  <2>1. SettingsApply(s) \/ SettingsCleanup(s) => AalOk(s)
    BY DEF SettingsApply, SettingsCleanup, Privileged
  <2>2. ConnectCallback(s) => AalOk(s)
    BY DEF ConnectCallback, Usable
  <2>3. AddressChange(s) => call[s].stage # "none"
    BY DEF AddressChange, EmailShop, EmailPut, EmailPatch, EmailUndoShop
  <2>4. AddressChange(s) => call[s].assured
    BY <1>1, <2>3 DEF ProvenInv, Backed
  <2> QED
    BY <2>1, <2>2, <2>4 DEF SettingsChange, AalOk
<1>2. EntryInv /\ ProvenInv /\ [Next]_entryVars =>
        [\A s \in Sessions : acct' # acct =>
           /\ SettingsChange(s) /\ HasSecondFactor(acct) => sess[s].aal = 2
           /\ AddressChange(s) => call[s].assured]_entryVars
  BY <1>1
<1> QED
  BY <1>2, InitEntry, StepEntry, PTL DEF Spec, AuthenticatorGuardsChanges
=============================================================================
