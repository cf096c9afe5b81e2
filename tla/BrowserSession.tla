--------------------------- MODULE BrowserSession ---------------------------
(***************************************************************************)
(* The login sessions the storefront server keeps for browsers, in         *)
(* src/frontend/src/lib/auth: rows of the table browser_sessions that hold *)
(* a login attempt (not yet authenticated) or an established login, the    *)
(* OAuth transaction of an attempt, and what the rows stand for at the two *)
(* services behind them: a session at Kratos and a refresh grant at Hydra. *)
(*                                                                         *)
(* Every handler works under the lock of one row (withBrowser) and calls   *)
(* Kratos and Hydra while it holds it.  A handler that fails rolls its row *)
(* back but not what it has done at the services, so a handler with an     *)
(* outside effect is two actions, the effect and the commit, with Crash    *)
(* between them.  A row's identifier reaches a handler in a cookie; any    *)
(* identifier ever issued may come, as cookies go stale.                   *)
(***************************************************************************)
EXTENDS Naturals, FiniteSets

CONSTANTS Browsers,     \* the identifiers that can be issued, 1 .. n, in order
          MaxRefresh,   \* bound on the refreshes of one grant
          MaxAttempts   \* bound on the attempts that go on at one time

ASSUME BrowsersAssumption == IsFiniteSet(Browsers) /\ Browsers = 1 .. Cardinality(Browsers)
ASSUME BoundsAssumption == MaxRefresh \in Nat /\ MaxAttempts \in Nat

VARIABLES
  rows,     \* the table browser_sessions with the sealed state of each row
  busy,     \* what the holder of each row's lock is in the middle of
  kratos,   \* the provider session begun in each attempt
  grant,    \* the refresh grant of each authenticated row, at Hydra
  codes,    \* attempts whose authorization code is issued and not redeemed
  latest    \* the last login stored and the one it replaced (history)

vars == <<rows, busy, kratos, grant, codes, latest>>

NoBrowser == 0
Idle == [op |-> "none", new |-> NoBrowser]
OptBrowser == Browsers \cup {NoBrowser}

RowState ==
  [status : {"new", "starting", "stored", "deleted"},
   authenticated : BOOLEAN, revoked : BOOLEAN, pending : BOOLEAN,
   aged : BOOLEAN,              \* expires_at or idle_until has passed
   transaction : {"none", "open", "used"},
   jar : OptBrowser,            \* whose provider session the cookie jar holds
   provider : OptBrowser,       \* state.provider.sessionId
   revokeProvider : BOOLEAN,    \* state.revokeProvider, with its defaults
   previous : OptBrowser,       \* state.previousSessionHash
   generation : 0 .. MaxRefresh,\* which refresh token state.tokens holds
   tokenOld : BOOLEAN]          \* the access token ends within 30 seconds

Unissued ==
  [status |-> "new", authenticated |-> FALSE, revoked |-> FALSE, pending |-> FALSE,
   aged |-> FALSE, transaction |-> "none", jar |-> NoBrowser,
   provider |-> NoBrowser, revokeProvider |-> TRUE, previous |-> NoBrowser,
   generation |-> 0, tokenOld |-> FALSE]

\* A deleted row: nothing of it is left.
Gone == [Unissued EXCEPT !.status = "deleted"]

Init ==
  /\ rows = [b \in Browsers |-> Unissued]
  /\ busy = [b \in Browsers |-> Idle]
  /\ kratos = [b \in Browsers |-> "none"]
  /\ grant = [b \in Browsers |-> [state |-> "none", generation |-> 0]]
  /\ codes = {}
  /\ latest = [login |-> NoBrowser, replaced |-> NoBrowser]

-----------------------------------------------------------------------------
Stored(b) == rows[b].status = "stored"
Free(b) == busy[b].op = "none"

\* A row withBrowser accepts: stored, unlocked, neither revoked nor expired.
Usable(b) == Stored(b) /\ Free(b) /\ ~rows[b].revoked /\ ~rows[b].aged

\* A login attempt that can still go on.
Attempting(b) == Usable(b) /\ ~rows[b].authenticated /\ rows[b].transaction = "open"

Live(k) == k # NoBrowser /\ kratos[k] = "live"

\* The identifiers that nothing has used yet; the least is issued next.
Fresh == {b \in Browsers : rows[b] = Unissued /\ grant[b].state = "none"
                           /\ \A a \in Browsers : busy[a].new # b}
NextId(b) == b \in Fresh /\ \A a \in Fresh : b <= a

\* A revoked row; nothing reads its age and the state of its tokens any more.
Revoked(r, pending) ==
  [r EXCEPT !.revoked = TRUE, !.pending = pending,
            !.aged = FALSE, !.tokenOld = FALSE, !.generation = 0]

\* revokeBrowser: only the first revocation of a login leaves a release to do.
Revoke(r) == Revoked(r, IF r.revoked THEN r.pending ELSE r.authenticated)

Unchanged4 == UNCHANGED <<kratos, grant, codes, latest>>

-----------------------------------------------------------------------------
(* A login attempt, from /auth/start to /auth/callback.                    *)

\* An attempt that is being stored or goes on.
Open(a) ==
  rows[a].status = "starting" \/ (Stored(a) /\ ~rows[a].authenticated /\ ~rows[a].revoked)

\* start: the session cookie s names a live login, or no usable one.  A
\* step-up (reauth) borrows the login's provider session; a fresh login does not.
StartRead(b, s, reauth) ==
  /\ NextId(b) /\ Cardinality({a \in Browsers : Open(a)}) < MaxAttempts
  /\ s # NoBrowser => Usable(s) /\ rows[s].authenticated
  /\ rows' = [rows EXCEPT ![b].status = "starting", ![b].previous = s,
                          ![b].jar = IF reauth /\ s # NoBrowser THEN rows[s].jar ELSE NoBrowser,
                          ![b].revokeProvider = ~reauth \/ s = NoBrowser]
  /\ UNCHANGED busy /\ Unchanged4

\* Mutant: the attempt is read without its lock, while the callback holds it.
Cancellable_Unlocked(f) ==
  /\ Stored(f) /\ ~rows[f].authenticated /\ ~rows[f].revoked
  /\ rows[f].transaction # "none"

Cancellable(f) ==
  /\ Stored(f) /\ Free(f) /\ ~rows[f].authenticated /\ ~rows[f].revoked
  /\ rows[f].transaction # "none"

CancelledRow(r) ==
  [Revoked(r, TRUE) EXCEPT !.transaction = "used"]

\* start: the attempt f of the flow cookie, if there is one that goes on, is
\* cancelled; then the row and its transaction are stored.
StartCreate(b, f) ==
  /\ rows[b].status = "starting"
  /\ f # NoBrowser => Cancellable(f)
  /\ rows' = [c \in Browsers |->
                IF c = b THEN [rows[b] EXCEPT !.status = "stored", !.transaction = "open"]
                ELSE IF c = f THEN CancelledRow(rows[c]) ELSE rows[c]]
  /\ UNCHANGED busy /\ Unchanged4

\* Hydra has sent the browser back with a login challenge, and the login form
\* is accepted by Kratos: it refreshes the session in the jar if that is live,
\* and otherwise begins one.
SignIn(b) ==
  /\ Attempting(b)
  /\ IF Live(rows[b].jar)
       THEN UNCHANGED <<rows, kratos>>
       ELSE /\ kratos[b] = "none"
            /\ kratos' = [kratos EXCEPT ![b] = "live"]
            /\ rows' = [rows EXCEPT ![b].jar = b]
  /\ UNCHANGED <<busy, grant, codes, latest>>

\* handoff: the bridge accepts Hydra's challenge for the session in the jar.
Handoff(b) ==
  /\ Attempting(b) /\ Live(rows[b].jar)
  /\ rows' = [rows EXCEPT ![b].provider = rows[b].jar]
  /\ UNCHANGED busy /\ Unchanged4

\* consent: granted for the same provider session; Hydra issues the code.
Consent(b) ==
  /\ Attempting(b) /\ Live(rows[b].provider) /\ rows[b].provider = rows[b].jar
  /\ codes' = codes \cup {b}
  /\ UNCHANGED <<rows, busy, kratos, grant, latest>>

\* callback, under the attempt's lock: the transaction is claimed, the code is
\* redeemed for a grant and the provider session is checked once more.
CallbackExchange(b, n) ==
  /\ Attempting(b) /\ b \in codes /\ NextId(n)
  /\ Live(rows[b].provider) /\ rows[b].provider = rows[b].jar
  /\ codes' = codes \ {b}
  /\ grant' = [grant EXCEPT ![n].state = "live"]
  /\ busy' = [busy EXCEPT ![b] = [op |-> "callback", new |-> n]]
  /\ UNCHANGED <<rows, kratos, latest>>

SignedIn(b) ==
  [Unissued EXCEPT !.status = "stored", !.authenticated = TRUE, !.jar = rows[b].jar,
                   !.provider = rows[b].provider]

\* Mutant: the replaced login signs its provider session out in any case.
Retired_Always(p, provider) == Revoked(rows[p], TRUE)

\* retirePrevious: the login that the attempt started from is revoked; its
\* provider session goes with it unless the new login goes on using it.
Retired(p, provider) ==
  [Revoked(rows[p], TRUE) EXCEPT !.revokeProvider = rows[p].provider # provider]

\* callback commits: the new login is stored, the previous one retired, the
\* attempt deleted.
CallbackCommit(b) ==
  LET n == busy[b].new   p == rows[b].previous IN
  /\ busy[b].op = "callback"
  /\ p # NoBrowser => Stored(p) /\ Free(p)
  /\ rows' = [c \in Browsers |->
                CASE c = n -> SignedIn(b)
                  [] c = b -> Gone
                  [] c = p -> Retired(p, rows[b].provider)
                  [] OTHER -> rows[c]]
  /\ busy' = [busy EXCEPT ![b] = Idle]
  /\ latest' = [login |-> n, replaced |-> p]
  /\ UNCHANGED <<kratos, grant, codes>>

-----------------------------------------------------------------------------
(* Leaving an attempt.                                                     *)

\* cancelLoginAttempt, from the cancel button, the navigation of the browser
\* to another page, or the next start.
Cancel(f) ==
  /\ Cancellable(f)
  /\ rows' = [rows EXCEPT ![f] = CancelledRow(rows[f])]
  /\ UNCHANGED busy /\ Unchanged4

Cleaned(r) ==
  [r EXCEPT !.jar = NoBrowser, !.provider = NoBrowser, !.pending = FALSE]

\* finishCancelledAttempt: signs the attempt's own provider session out, never
\* a borrowed one, and empties the row.  The commit may fail after the sign-out.
FinishCancelled(b) ==
  /\ Stored(b) /\ Free(b) /\ ~rows[b].authenticated /\ rows[b].revoked /\ rows[b].pending
  /\ kratos' = IF rows[b].revokeProvider /\ Live(rows[b].jar)
                 THEN [kratos EXCEPT ![rows[b].jar] = "out"] ELSE kratos
  /\ \/ /\ rows' = [rows EXCEPT ![b] = Cleaned(rows[b])]
     \/ UNCHANGED <<rows>>
  /\ UNCHANGED <<busy, grant, codes, latest>>

-----------------------------------------------------------------------------
(* An established login.                                                   *)

Established(s) == Usable(s) /\ rows[s].authenticated

\* authenticatedState with an access token that has time left.
Read(s) ==
  /\ Established(s) /\ Live(rows[s].provider) /\ ~rows[s].tokenOld
  /\ grant[s].state = "live"
  /\ UNCHANGED vars

TokenAges(s) ==
  /\ Established(s) /\ ~rows[s].tokenOld
  /\ rows' = [rows EXCEPT ![s].tokenOld = TRUE]
  /\ UNCHANGED busy /\ Unchanged4

\* The refresh token in the row is the one Hydra expects.
Current(s) == grant[s].state = "live" /\ grant[s].generation = rows[s].generation

\* authenticatedState with an old token: Hydra rotates the refresh token while
\* the row is locked ...
Refresh(s) ==
  /\ Established(s) /\ Live(rows[s].provider) /\ rows[s].tokenOld /\ Current(s)
  /\ grant[s].generation < MaxRefresh
  /\ grant' = [grant EXCEPT ![s].generation = @ + 1]
  /\ busy' = [busy EXCEPT ![s] = [op |-> "refresh", new |-> NoBrowser]]
  /\ UNCHANGED <<rows, kratos, codes, latest>>

\* Mutant: the new access token is stored, the new refresh token is not.
RefreshCommit_OldToken(s) ==
  /\ busy[s].op = "refresh"
  /\ rows' = [rows EXCEPT ![s].tokenOld = FALSE]
  /\ busy' = [busy EXCEPT ![s] = Idle]
  /\ Unchanged4

\* Mutant: the number of the token after the next is stored.
RefreshCommit_Twice(s) ==
  /\ busy[s].op = "refresh"
  /\ rows' = [rows EXCEPT ![s].generation = grant[s].generation + 1, ![s].tokenOld = FALSE]
  /\ busy' = [busy EXCEPT ![s] = Idle]
  /\ Unchanged4

\* ... the new tokens are stored with the commit ...
RefreshCommit(s) ==
  /\ busy[s].op = "refresh"
  /\ rows' = [rows EXCEPT ![s].generation = grant[s].generation, ![s].tokenOld = FALSE]
  /\ busy' = [busy EXCEPT ![s] = Idle]
  /\ Unchanged4

\* ... or anything fails after the rotation: the row is rolled back and revoked.
RefreshFails(s) ==
  /\ busy[s].op = "refresh"
  /\ rows' = [rows EXCEPT ![s] = Revoke(rows[s])]
  /\ busy' = [busy EXCEPT ![s] = Idle]
  /\ Unchanged4

\* authenticatedState finds the provider session gone, the grant revoked or the
\* refresh token used before (Hydra then revokes the grant): the row is revoked.
Reject(s) ==
  /\ Established(s)
  /\ \/ ~Live(rows[s].provider)
     \/ grant[s].state # "live"
     \/ rows[s].tokenOld /\ ~Current(s)
  /\ grant' = IF Live(rows[s].provider) /\ rows[s].tokenOld
                THEN [grant EXCEPT ![s] = [state |-> "revoked", generation |-> 0]] ELSE grant
  /\ rows' = [rows EXCEPT ![s] = Revoke(rows[s])]
  /\ UNCHANGED <<busy, kratos, codes, latest>>

\* logout: the row is revoked first; what it stands for is released after it.
Logout(s) ==
  /\ Stored(s) /\ Free(s) /\ rows[s].authenticated /\ ~rows[s].revoked
  /\ rows' = [rows EXCEPT ![s] = Revoke(rows[s])]
  /\ UNCHANGED busy /\ Unchanged4

\* revokeSession and the maintenance job, under the lock of a revoked login:
\* the provider session is signed out unless another login took it over ...
ReleaseProvider(s) ==
  /\ Stored(s) /\ Free(s) /\ rows[s].authenticated /\ rows[s].pending
  /\ kratos' = IF rows[s].revokeProvider
                 THEN [kratos EXCEPT ![rows[s].provider] = "out"] ELSE kratos
  /\ busy' = [busy EXCEPT ![s] = [op |-> "release", new |-> NoBrowser]]
  /\ UNCHANGED <<rows, grant, codes, latest>>

\* ... then the grant is revoked and the row marked, or the commit is lost.
ReleaseGrant(s) ==
  /\ busy[s].op = "release"
  /\ grant' = [grant EXCEPT ![s] = [state |-> "revoked", generation |-> 0]]
  /\ \/ /\ rows' = [rows EXCEPT ![s].pending = FALSE]
     \/ UNCHANGED <<rows>>
  /\ busy' = [busy EXCEPT ![s] = Idle]
  /\ UNCHANGED <<kratos, codes, latest>>

\* The process of a handler dies, or a service does not answer it: its row is
\* rolled back, the effects outside stay.
Crash(b) ==
  /\ ~Free(b)
  /\ busy' = [busy EXCEPT ![b] = Idle]
  /\ UNCHANGED <<rows, kratos, grant, codes, latest>>

-----------------------------------------------------------------------------
(* The maintenance job.  Its statements commit one by one and it runs again *)
(* every minute, so each of them may come at any time.                      *)

\* Mutant: an expired row is revoked with nothing left to release.
MarkExpired_NothingPending(b) ==
  /\ Stored(b) /\ Free(b) /\ rows[b].aged /\ ~rows[b].revoked
  /\ rows' = [rows EXCEPT ![b] = Revoked(rows[b], FALSE)]
  /\ UNCHANGED busy /\ Unchanged4

\* An expired attempt, or an expired login whose row is not locked, is revoked.
MarkExpired(b) ==
  /\ Stored(b) /\ Free(b) /\ rows[b].aged /\ ~rows[b].revoked
  /\ rows' = [rows EXCEPT ![b] = Revoked(rows[b], TRUE)]
  /\ UNCHANGED busy /\ Unchanged4

\* Mutant: a revoked row is deleted with its release pending.
Delete_Pending(b) ==
  /\ Stored(b) /\ Free(b)
  /\ \/ ~rows[b].authenticated /\ rows[b].aged
     \/ rows[b].revoked
  /\ rows' = [rows EXCEPT ![b] = Gone]
  /\ UNCHANGED busy /\ Unchanged4

\* Expired attempts, and rows revoked an hour ago, are deleted unless their
\* release is pending.  When the hour is over is left open.
Delete(b) ==
  /\ Stored(b) /\ Free(b) /\ ~rows[b].pending
  /\ \/ ~rows[b].authenticated /\ rows[b].aged
     \/ rows[b].revoked
  /\ rows' = [rows EXCEPT ![b] = Gone]
  /\ UNCHANGED busy /\ Unchanged4

-----------------------------------------------------------------------------
(* Time, and the services on their own.                                    *)

Age(b) ==
  /\ Stored(b) /\ ~rows[b].aged /\ ~rows[b].revoked
  /\ rows' = [rows EXCEPT ![b].aged = TRUE]
  /\ UNCHANGED busy /\ Unchanged4

\* Kratos ends a session itself: it expired, or its user signed it out elsewhere.
ProviderEnds(k) ==
  /\ kratos[k] = "live" /\ \E b \in Browsers : Stored(b) /\ rows[b].jar = k
  /\ kratos' = [kratos EXCEPT ![k] = "out"]
  /\ UNCHANGED <<rows, busy, grant, codes, latest>>

Next ==
  \/ \E b \in Browsers, s \in OptBrowser, reauth \in BOOLEAN : StartRead(b, s, reauth)
  \/ \E b \in Browsers, f \in OptBrowser : StartCreate(b, f)
  \/ \E b, n \in Browsers : CallbackExchange(b, n)
  \/ \E b \in Browsers :
       \/ SignIn(b) \/ Handoff(b) \/ Consent(b) \/ CallbackCommit(b)
       \/ Cancel(b) \/ FinishCancelled(b)
       \/ Read(b) \/ TokenAges(b) \/ Refresh(b) \/ RefreshCommit(b) \/ RefreshFails(b)
       \/ Reject(b) \/ Logout(b) \/ ReleaseProvider(b) \/ ReleaseGrant(b) \/ Crash(b)
       \/ MarkExpired(b) \/ Delete(b) \/ Age(b) \/ ProviderEnds(b)

\* The job runs every minute; a lock is held for a bounded time, as every call
\* has a timeout; a release that is tried again and again succeeds at last.
Fairness ==
  \A b \in Browsers :
    /\ WF_vars(CallbackCommit(b) \/ RefreshCommit(b) \/ RefreshFails(b)
                 \/ ReleaseGrant(b) \/ Crash(b))
    /\ WF_vars(MarkExpired(b))
    /\ WF_vars(ReleaseProvider(b))
    /\ SF_vars(ReleaseGrant(b) /\ rows'[b].pending = FALSE)

Spec == Init /\ [][Next]_vars /\ Fairness
-----------------------------------------------------------------------------
\* Type correctness, which bounds the generation of the tokens in a row by the number
\* of refreshes there were (session.ts, authenticatedState).
TypeOK ==
  /\ rows \in [Browsers -> RowState]
  /\ busy \in [Browsers -> [op : {"none", "callback", "refresh", "release"}, new : OptBrowser]]
  /\ kratos \in [Browsers -> {"none", "live", "out"}]
  /\ grant \in [Browsers -> [state : {"none", "live", "revoked"}, generation : 0 .. MaxRefresh]]
  /\ codes \subseteq Browsers
  /\ latest \in [login : OptBrowser, replaced : OptBrowser]

\* Row b is deleted by the step.
Deleted(b) == Stored(b) /\ rows'[b].status = "deleted"

\* An attempt becomes a login only if it is neither cancelled nor revoked at
\* the moment the login is stored, also when the callback was already redeeming
\* its code when the cancellation came.
CancelledNeverSignsIn ==
  [][\A b \in Browsers : busy[b].op = "callback" /\ latest' # latest /\ Deleted(b) =>
       ~rows[b].revoked /\ rows[b].transaction = "open"]_vars

\* The tokens a login row would serve are those of the grant's last refresh: a
\* refresh that was lost leaves a row that has to refresh, and is then refused.
ServedTokensAreCurrent ==
  \A s \in Browsers :
    Established(s) /\ ~rows[s].tokenOld => rows[s].generation = grant[s].generation

\* No login is deleted before what it stands for is released: its grant is
\* revoked, and its provider session out unless a later login took it over.
NothingIsForgotten ==
  [][\A s \in Browsers : Deleted(s) /\ rows[s].authenticated =>
       /\ grant[s].state = "revoked"
       /\ rows[s].revokeProvider => ~Live(rows[s].provider)]_vars

\* The release of login b, or the clean-up of attempt b, signs session k out.
SignsOut(b, k) ==
  /\ kratos[k] = "live" /\ kratos'[k] = "out"
  /\ ReleaseProvider(b) \/ FinishCancelled(b)

\* The logins that go on using provider session k.
Using(k) == {s \in Browsers : Established(s) /\ rows[s].provider = k}

\* The clean-up of an attempt never signs out a provider session that a login
\* uses, and the release of a replaced login never that of its replacement.
LiveLoginSurvives ==
  [][\A b, k \in Browsers : SignsOut(b, k) =>
       IF rows[b].authenticated THEN b = latest.replaced => latest.login \notin Using(k)
                                ELSE Using(k) = {}]_vars

\* A login that was ended or has expired, and that still has its grant.
Unreleased(s) ==
  /\ Stored(s) /\ rows[s].authenticated /\ (rows[s].revoked \/ rows[s].aged)
  /\ rows[s].pending \/ grant[s].state # "revoked"

\* Every login that is ended or expires has its grant revoked at last, however
\* often a release fails before.
EndedLoginsAreReleased == []<>(\A s \in Browsers : ~Unreleased(s))
=============================================================================
