----------------------- MODULE BrowserSession_proofs -----------------------
(* Theorems about BrowserSession, for any number of rows and refreshes:     *)
(* what a row serves, and what is released before a row is forgotten.       *)
EXTENDS BrowserSession, FiniteSetTheorems, TLAPS

\* A login stored under identifier n, or about to be: the new row of a callback is not
\* written yet, and its grant is fresh.
Awaited(n) ==
  /\ n \in Browsers /\ rows[n].status = "new"
  /\ grant[n].state = "live" /\ grant[n].generation = 0

\* The tokens of a row that is not revoked are those of its grant, or old.
Served(s) ==
  rows[s].authenticated /\ ~rows[s].revoked /\ ~rows[s].tokenOld
    => rows[s].generation = grant[s].generation

\* What the holder of a lock relies on.
LockInv(b) ==
  /\ ~Free(b) => Stored(b)
  /\ busy[b].op = "callback" => Awaited(busy[b].new)
  /\ busy[b].op = "refresh" => rows[b].tokenOld
  /\ busy[b].op = "release" => rows[b].revoked

SessionInv ==
  /\ TypeOK
  /\ \A b \in Browsers :
       /\ LockInv(b) /\ Served(b)
       /\ rows[b].pending => rows[b].revoked
       /\ grant[b].state = "none" => grant[b].generation = 0
  /\ \A a, b \in Browsers :
       busy[a].op = "callback" /\ busy[b].op = "callback" /\ busy[a].new = busy[b].new => a = b

-----------------------------------------------------------------------------
(* The values of a row.                                                     *)

\* The bound on refreshes is a number, and no browser is the placeholder 0.
LEMMA Bound == MaxRefresh \in Nat /\ 0 \in 0 .. MaxRefresh /\ 0 \notin Browsers
BY BoundsAssumption, BrowsersAssumption, FS_CardinalityType

\* A row that was never issued.
LEMMA UnissuedRow ==
  /\ Unissued \in RowState
  /\ Unissued.status = "new" /\ ~Unissued.authenticated /\ ~Unissued.revoked
  /\ ~Unissued.pending /\ ~Unissued.tokenOld /\ Unissued.generation = 0
<1>1. 0 \in 0 .. MaxRefresh /\ 0 \in OptBrowser
  BY Bound DEF OptBrowser, NoBrowser
<1> QED
  BY <1>1 DEF Unissued, RowState, NoBrowser

\* Revoking a row keeps its shape and its status.
LEMMA RevokedRow ==
  ASSUME NEW r \in RowState, NEW pending \in BOOLEAN
  PROVE  /\ Revoked(r, pending) \in RowState /\ Revoked(r, pending).revoked
         /\ Revoked(r, pending).status = r.status
         /\ Revoked(r, pending).pending = pending
BY Bound DEF Revoked, RowState

\* A deleted row has nothing left to release.
LEMMA GoneRow ==
  Gone \in RowState /\ Gone.status = "deleted" /\ ~Gone.pending /\ ~Gone.authenticated
BY UnissuedRow DEF Gone, RowState

\* What a step may make of row c while a lock is not involved.
Rewritten(c) ==
  /\ \/ Free(c)
     \/ rows'[c].status = rows[c].status /\ rows'[c].tokenOld = rows[c].tokenOld
          /\ rows'[c].revoked = rows[c].revoked
  /\ \A a \in Browsers : busy[a].op = "callback" => busy[a].new # c
  /\ rows'[c].pending => rows'[c].revoked
  /\ rows'[c].authenticated /\ ~rows'[c].revoked /\ ~rows'[c].tokenOld
       => rows'[c].generation = grant[c].generation

Services ==
  /\ kratos' \in [Browsers -> {"none", "live", "out"}]
  /\ codes' \subseteq Browsers /\ latest' = latest

\* A step that leaves the locks and the grants alone and rewrites some rows.
LEMMA RowsStep ==
  ASSUME SessionInv, rows' \in [Browsers -> RowState],
         \A c \in Browsers : rows'[c] = rows[c] \/ Rewritten(c),
         UNCHANGED <<busy, grant>>, Services
  PROVE  SessionInv'
<1>1. TypeOK'
  BY DEF SessionInv, TypeOK, Services
<1>2. ASSUME NEW c \in Browsers
      PROVE  /\ Served(c)' /\ LockInv(c)'
             /\ rows'[c].pending => rows'[c].revoked
             /\ grant'[c].state = "none" => grant'[c].generation = 0
  <2>1. busy[c].op = "callback" => Awaited(busy[c].new)'
    BY DEF SessionInv, LockInv, Awaited, Rewritten
  <2>2. CASE Rewritten(c)
    BY <2>1, <2>2 DEF SessionInv, Served, LockInv, Stored, Free, Rewritten
  <2>3. CASE rows'[c] = rows[c]
    BY <2>1, <2>3 DEF SessionInv, Served, LockInv, Stored, Free
  <2> QED
    BY <2>2, <2>3
<1> QED
  BY <1>1, <1>2 DEF SessionInv

\* A row that is in use is not the one a callback waits to write.
LEMMA InUse ==
  ASSUME SessionInv, NEW c \in Browsers, rows[c].status # "new",
         NEW a \in Browsers, busy[a].op = "callback"
  PROVE  busy[a].new # c
BY DEF SessionInv, LockInv, Awaited

\* A step that rewrites one row that is in use and not locked.
LEMMA RowStep ==
  ASSUME SessionInv, NEW b \in Browsers, Free(b), rows[b].status # "new",
         NEW r, r \in RowState, rows' = [rows EXCEPT ![b] = r], r.pending => r.revoked,
         r.authenticated /\ ~r.revoked /\ ~r.tokenOld => r.generation = grant[b].generation,
         UNCHANGED <<busy, grant>>, Services
  PROVE  SessionInv'
<1>1. rows' \in [Browsers -> RowState] /\ rows'[b] = r
      /\ \A c \in Browsers : c # b => rows'[c] = rows[c]
  BY DEF SessionInv, TypeOK
<1>2. Rewritten(b)
  BY <1>1, InUse DEF Rewritten
<1> QED
  BY <1>1, <1>2, RowsStep

\* A row is revoked, and the locks and the grants stay as they are.
LEMMA RevokeStep ==
  ASSUME SessionInv, NEW b \in Browsers, Free(b), Stored(b), NEW pending \in BOOLEAN,
         rows' = [rows EXCEPT ![b] = Revoked(rows[b], pending)],
         UNCHANGED <<busy, grant>>, Services
  PROVE  SessionInv'
<1>1. rows[b] \in RowState
  BY DEF SessionInv, TypeOK
<1> DEFINE r == Revoked(rows[b], pending)
<1>2. r \in RowState /\ r.revoked
  BY <1>1, RevokedRow
<1>3. rows' = [rows EXCEPT ![b] = r]
  OBVIOUS
<1>4. rows[b].status # "new"
  BY DEF Stored
<1> HIDE DEF r
<1> QED
  BY <1>2, <1>3, <1>4, RowStep

-----------------------------------------------------------------------------
(* Every step keeps the invariant.                                          *)

\* Nobody is logged in at first.
LEMMA InitSession == Init => SessionInv
<1> SUFFICES ASSUME Init PROVE SessionInv
  OBVIOUS
<1>1. TypeOK
  BY UnissuedRow, Bound DEF Init, TypeOK, Idle, OptBrowser, NoBrowser
<1> QED
  BY <1>1, UnissuedRow DEF Init, SessionInv, LockInv, Served, Free, Stored, Idle

\* /auth/start reads the row of the login it may replace.
LEMMA StartReadKeeps ==
  ASSUME SessionInv, NEW b \in Browsers, NEW s \in OptBrowser, NEW reauth \in BOOLEAN,
         StartRead(b, s, reauth)
  PROVE  SessionInv'
<1> DEFINE r == [rows[b] EXCEPT !.status = "starting", !.previous = s,
                   !.jar = IF reauth /\ s # NoBrowser THEN rows[s].jar ELSE NoBrowser,
                   !.revokeProvider = ~reauth \/ s = NoBrowser]
<1>1. rows' = [rows EXCEPT ![b] = r] /\ UNCHANGED <<busy, grant, kratos, codes, latest>>
  BY DEF StartRead, Unchanged4
<1>2. rows[b] = Unissued /\ \A a \in Browsers : busy[a].new # b
  BY DEF StartRead, NextId, Fresh
<1>3. r \in RowState /\ r.status = "starting" /\ ~r.pending /\ ~r.authenticated
  <2>1. (IF reauth /\ s # NoBrowser THEN rows[s].jar ELSE NoBrowser) \in OptBrowser
    BY DEF SessionInv, TypeOK, RowState, OptBrowser
  <2>2. rows[b] \in RowState /\ ~rows[b].pending /\ ~rows[b].authenticated
    BY <1>2, UnissuedRow
  <2> QED
    BY <2>1, <2>2 DEF RowState
<1> HIDE DEF r
<1>4. rows' \in [Browsers -> RowState] /\ rows'[b] = r
      /\ \A c \in Browsers : c # b => rows'[c] = rows[c]
  BY <1>1, <1>3 DEF SessionInv, TypeOK
<1>5. Free(b)
  BY <1>2, UnissuedRow DEF SessionInv, LockInv, Stored
<1>6. Rewritten(b)
  BY <1>2, <1>3, <1>4, <1>5 DEF Rewritten
<1>7. Services
  BY <1>1 DEF Services, SessionInv, TypeOK
<1> QED
  BY <1>1, <1>4, <1>6, <1>7, RowsStep

\* The row of a cancelled attempt is revoked and waits for its clean-up.
LEMMA CancelledRowTyped ==
  ASSUME NEW r \in RowState
  PROVE  CancelledRow(r) \in RowState /\ CancelledRow(r).revoked /\ CancelledRow(r).pending
<1>1. Revoked(r, TRUE) \in RowState /\ Revoked(r, TRUE).revoked /\ Revoked(r, TRUE).pending
  BY RevokedRow
<1> QED
  BY <1>1 DEF CancelledRow, RowState

\* /auth/start writes the row of a new attempt.
LEMMA StartCreateKeeps ==
  ASSUME SessionInv, NEW b \in Browsers, NEW f \in OptBrowser, StartCreate(b, f)
  PROVE  SessionInv'
<1> DEFINE r == [rows[b] EXCEPT !.status = "stored", !.transaction = "open"]
<1>1. /\ UNCHANGED <<busy, grant, kratos, codes, latest>> /\ rows[b].status = "starting"
      /\ rows' = [c \in Browsers |-> IF c = b THEN r
                                     ELSE IF c = f THEN CancelledRow(rows[c]) ELSE rows[c]]
  BY DEF StartCreate, Unchanged4
<1>2. f \in Browsers => Free(f) /\ rows[f].status = "stored"
  BY Bound DEF StartCreate, Cancellable, Stored, NoBrowser
<1>3. rows[b] \in RowState /\ Free(b)
  BY <1>1 DEF SessionInv, TypeOK, LockInv, Stored
<1>4. r \in RowState /\ r.pending = rows[b].pending /\ r.revoked = rows[b].revoked
      /\ r.authenticated = rows[b].authenticated /\ r.tokenOld = rows[b].tokenOld
      /\ r.generation = rows[b].generation
  BY <1>3 DEF RowState
<1> HIDE DEF r
<1>5. rows' \in [Browsers -> RowState]
  BY <1>1, <1>4, CancelledRowTyped DEF SessionInv, TypeOK
<1>6. rows'[b] = r
  BY <1>1
<1>7. Rewritten(b)
  BY <1>1, <1>3, <1>4, <1>6, InUse DEF Rewritten, SessionInv, Served
<1>8. ASSUME NEW c \in Browsers, c # b, c = f
      PROVE  Rewritten(c)
  <2>1. rows'[c] = CancelledRow(rows[c]) /\ rows[c] \in RowState
    BY <1>1, <1>8 DEF SessionInv, TypeOK
  <2> QED
    BY <2>1, <1>2, <1>8, CancelledRowTyped, InUse DEF Rewritten
<1>9. \A c \in Browsers : rows'[c] = rows[c] \/ Rewritten(c)
  BY <1>1, <1>7, <1>8
<1>10. Services
  BY <1>1 DEF Services, SessionInv, TypeOK
<1> QED
  BY <1>1, <1>5, <1>9, <1>10, RowsStep

\* The steps of an attempt and of the services that leave the rest alone.
LEMMA AttemptKeeps ==
  ASSUME SessionInv, NEW b \in Browsers,
         SignIn(b) \/ Handoff(b) \/ Consent(b) \/ ProviderEnds(b) \/ Read(b)
  PROVE  SessionInv'
<1>1. rows[b] \in RowState /\ b \in OptBrowser
  BY DEF SessionInv, TypeOK, OptBrowser
<1>2. Services /\ UNCHANGED <<busy, grant>>
  BY DEF SignIn, Handoff, Consent, ProviderEnds, Read, Unchanged4, Services, SessionInv, TypeOK, vars
<1>3. CASE rows' = rows
  BY <1>2, <1>3, RowsStep DEF SessionInv, TypeOK
<1>4. CASE SignIn(b) /\ rows' # rows
  <2> DEFINE r == [rows[b] EXCEPT !.jar = b]
  <2>1. rows' = [rows EXCEPT ![b] = r] /\ Free(b) /\ rows[b].status # "new"
    BY <1>4 DEF SignIn, Attempting, Usable, Stored
  <2>2. r \in RowState /\ r.pending = rows[b].pending /\ r.revoked = rows[b].revoked
        /\ r.authenticated = rows[b].authenticated /\ r.tokenOld = rows[b].tokenOld
        /\ r.generation = rows[b].generation
    BY <1>1 DEF RowState
  <2> HIDE DEF r
  <2>3. r.pending => r.revoked
    BY <2>2 DEF SessionInv
  <2>4. r.authenticated /\ ~r.revoked /\ ~r.tokenOld => r.generation = grant[b].generation
    BY <2>2 DEF SessionInv, Served
  <2> QED
    BY <1>2, <2>1, <2>2, <2>3, <2>4, RowStep
<1>5. CASE Handoff(b)
  <2> DEFINE r == [rows[b] EXCEPT !.provider = rows[b].jar]
  <2>1. rows' = [rows EXCEPT ![b] = r] /\ Free(b) /\ rows[b].status # "new"
    BY <1>5 DEF Handoff, Attempting, Usable, Stored
  <2>2. r \in RowState /\ r.pending = rows[b].pending /\ r.revoked = rows[b].revoked
        /\ r.authenticated = rows[b].authenticated /\ r.tokenOld = rows[b].tokenOld
        /\ r.generation = rows[b].generation
    BY <1>1 DEF RowState
  <2> HIDE DEF r
  <2>3. r.pending => r.revoked
    BY <2>2 DEF SessionInv
  <2>4. r.authenticated /\ ~r.revoked /\ ~r.tokenOld => r.generation = grant[b].generation
    BY <2>2 DEF SessionInv, Served
  <2> QED
    BY <1>2, <2>1, <2>2, <2>3, <2>4, RowStep
<1> QED
  BY <1>3, <1>4, <1>5 DEF Consent, ProviderEnds, Read, vars

\* A token or a row grows old.
LEMMA TimeKeeps ==
  ASSUME SessionInv, NEW b \in Browsers, TokenAges(b) \/ Age(b)
  PROVE  SessionInv'
<1>1. rows[b] \in RowState
  BY DEF SessionInv, TypeOK
<1>2. CASE TokenAges(b)
  <2> DEFINE r == [rows[b] EXCEPT !.tokenOld = TRUE]
  <2>1. rows' = [rows EXCEPT ![b] = r] /\ Free(b) /\ rows[b].status # "new"
    BY <1>2 DEF TokenAges, Established, Usable, Stored
  <2>2. r \in RowState /\ r.pending = rows[b].pending /\ r.revoked = rows[b].revoked /\ r.tokenOld
    BY <1>1 DEF RowState
  <2> HIDE DEF r
  <2>3. Services /\ UNCHANGED <<busy, grant>>
    BY <1>2 DEF TokenAges, Unchanged4, Services, SessionInv, TypeOK
  <2>4. r.pending => r.revoked
    BY <2>2 DEF SessionInv
  <2> QED
    BY <2>1, <2>2, <2>3, <2>4, RowStep
<1>3. CASE Age(b)
  <2> DEFINE r == [rows[b] EXCEPT !.aged = TRUE]
  <2>1. rows' = [rows EXCEPT ![b] = r] /\ rows[b].status # "new"
    BY <1>3 DEF Age, Stored
  <2>2. r \in RowState /\ r.pending = rows[b].pending /\ r.revoked = rows[b].revoked
        /\ r.authenticated = rows[b].authenticated /\ r.tokenOld = rows[b].tokenOld
        /\ r.generation = rows[b].generation /\ r.status = rows[b].status
    BY <1>1 DEF RowState
  <2> HIDE DEF r
  <2>3. Services /\ UNCHANGED <<busy, grant>>
    BY <1>3 DEF Age, Unchanged4, Services, SessionInv, TypeOK
  <2>4. rows' \in [Browsers -> RowState] /\ rows'[b] = r
        /\ \A c \in Browsers : c # b => rows'[c] = rows[c]
    BY <2>1, <2>2 DEF SessionInv, TypeOK
  <2>5. Rewritten(b)
    BY <2>1, <2>2, <2>4, InUse DEF Rewritten, SessionInv, Served
  <2> QED
    BY <2>3, <2>4, <2>5, RowsStep
<1> QED
  BY <1>2, <1>3

\* The steps that end or empty a row that nobody holds.
LEMMA EndKeeps ==
  ASSUME SessionInv, NEW b \in Browsers,
         Cancel(b) \/ FinishCancelled(b) \/ Logout(b) \/ MarkExpired(b) \/ Delete(b)
  PROVE  SessionInv'
<1>1. rows[b] \in RowState
  BY DEF SessionInv, TypeOK
<1>2. Services /\ UNCHANGED <<busy, grant>>
  <2>1. kratos' \in [Browsers -> {"none", "live", "out"}]
    BY DEF Cancel, FinishCancelled, Logout, MarkExpired, Delete, Unchanged4, SessionInv, TypeOK
  <2> QED
    BY <2>1 DEF Cancel, FinishCancelled, Logout, MarkExpired, Delete, Unchanged4, Services,
       SessionInv, TypeOK
<1>3. Free(b) /\ Stored(b) /\ rows[b].status # "new"
  BY DEF Cancel, Cancellable, FinishCancelled, Logout, MarkExpired, Delete, Stored
<1>4. CASE Cancel(b)
  <2>1. rows' = [rows EXCEPT ![b] = CancelledRow(rows[b])]
    BY <1>4 DEF Cancel
  <2> DEFINE r == CancelledRow(rows[b])
  <2>2. r \in RowState /\ r.revoked
    BY <1>1, CancelledRowTyped
  <2>3. rows' = [rows EXCEPT ![b] = r]
    BY <2>1
  <2> HIDE DEF r
  <2> QED
    BY <1>2, <1>3, <2>2, <2>3, RowStep
<1>5. CASE FinishCancelled(b)
  <2> DEFINE r == Cleaned(rows[b])
  <2>1. r \in RowState /\ ~r.pending /\ r.revoked = rows[b].revoked
    BY <1>1 DEF Cleaned, RowState, OptBrowser
  <2>2. rows[b].revoked
    BY <1>5 DEF FinishCancelled
  <2>3. rows' = [rows EXCEPT ![b] = r] \/ rows' = rows
    BY <1>5 DEF FinishCancelled
  <2> HIDE DEF r
  <2>4. CASE rows' = rows
    BY <1>2, <2>4, RowsStep DEF SessionInv, TypeOK
  <2>5. CASE rows' = [rows EXCEPT ![b] = r]
    BY <1>2, <1>3, <2>1, <2>2, <2>5, RowStep
  <2> QED
    BY <2>3, <2>4, <2>5
<1>6. CASE Logout(b)
  <2>1. (IF rows[b].revoked THEN rows[b].pending ELSE rows[b].authenticated) \in BOOLEAN
    BY <1>1 DEF RowState
  <2>2. rows' = [rows EXCEPT ![b] = Revoked(rows[b],
                   IF rows[b].revoked THEN rows[b].pending ELSE rows[b].authenticated)]
    BY <1>6 DEF Logout, Revoke
  <2> QED
    BY <1>2, <1>3, <2>1, <2>2, RevokeStep
<1>7. CASE MarkExpired(b)
  <2>1. rows' = [rows EXCEPT ![b] = Revoked(rows[b], TRUE)] /\ TRUE \in BOOLEAN
    BY <1>7 DEF MarkExpired
  <2> QED
    BY <1>2, <1>3, <2>1, RevokeStep
<1>8. CASE Delete(b)
  <2>1. rows' = [rows EXCEPT ![b] = Gone]
    BY <1>8 DEF Delete
  <2> QED
    BY <1>2, <1>3, <2>1, GoneRow, RowStep
<1> QED
  BY <1>4, <1>5, <1>6, <1>7, <1>8

\* What a lock is held for when no callback holds it.
Lock == [op : {"none", "refresh", "release"}, new : OptBrowser]
Grant == [state : {"none", "live", "revoked"}, generation : 0 .. MaxRefresh]

\* A step that changes what row b's lock is held for, its row and its grant.  The row
\* that another callback waits to write is not b's.
LEMMA LockStep ==
  ASSUME SessionInv, NEW b \in Browsers, Stored(b),
         NEW lock \in Lock, busy' = [busy EXCEPT ![b] = lock],
         NEW r \in RowState, rows' = [rows EXCEPT ![b] = r], r.status = "stored",
         r.pending => r.revoked,
         NEW g \in Grant, grant' = [grant EXCEPT ![b] = g], g.state = "none" => g.generation = 0,
         r.authenticated /\ ~r.revoked /\ ~r.tokenOld => r.generation = g.generation,
         lock.op = "refresh" => r.tokenOld, lock.op = "release" => r.revoked,
         Services
  PROVE  SessionInv'
<1>1. /\ \A c \in Browsers : c # b => busy'[c] = busy[c] /\ rows'[c] = rows[c] /\ grant'[c] = grant[c]
      /\ busy'[b] = lock /\ rows'[b] = r /\ grant'[b] = g
      /\ lock.op \in {"none", "refresh", "release"}
  BY DEF SessionInv, TypeOK, Lock
<1>2. TypeOK'
  BY DEF SessionInv, TypeOK, Services, Lock, Grant
<1>3. \A a \in Browsers : busy[a].op = "callback" => busy[a].new # b
  BY InUse DEF Stored
<1>4. ASSUME NEW c \in Browsers
      PROVE  /\ Served(c)' /\ LockInv(c)'
             /\ rows'[c].pending => rows'[c].revoked
             /\ grant'[c].state = "none" => grant'[c].generation = 0
  <2>1. CASE c = b
    BY <1>1, <2>1 DEF Served, LockInv, Stored, Free
  <2>2. CASE c # b
    <3>1. busy'[c] = busy[c] /\ rows'[c] = rows[c] /\ grant'[c] = grant[c]
      BY <1>1, <2>2
    <3>2. busy[c].op = "callback" =>
            /\ busy[c].new \in Browsers /\ busy[c].new # b /\ rows[busy[c].new].status = "new"
            /\ grant[busy[c].new].state = "live" /\ grant[busy[c].new].generation = 0
      BY <1>3 DEF SessionInv, LockInv, Awaited
    <3>3. busy'[c].op = "callback" => Awaited(busy[c].new)'
      <4> SUFFICES ASSUME busy'[c].op = "callback" PROVE Awaited(busy[c].new)'
        OBVIOUS
      <4> DEFINE n == busy[c].new
      <4>1. /\ n \in Browsers /\ n # b /\ rows[n].status = "new"
            /\ grant[n].state = "live" /\ grant[n].generation = 0
        BY <3>1, <3>2
      <4>2. rows'[n] = rows[n] /\ grant'[n] = grant[n] /\ busy'[c].new = n
        BY <1>1, <3>1, <4>1
      <4> QED
        BY <4>1, <4>2 DEF Awaited
    <3>4. ~Free(c) => Stored(c)
      BY DEF SessionInv, LockInv
    <3> QED
      BY <3>1, <3>3, <3>4 DEF SessionInv, Served, LockInv, Stored, Free
  <2> QED
    BY <2>1, <2>2
<1>5. \A a, c \in Browsers :
        busy'[a].op = "callback" /\ busy'[c].op = "callback" /\ busy'[a].new = busy'[c].new => a = c
  <2> SUFFICES ASSUME NEW a \in Browsers, NEW c \in Browsers, busy'[a].op = "callback",
                      busy'[c].op = "callback", busy'[a].new = busy'[c].new
               PROVE  a = c
    OBVIOUS
  <2>1. a # b /\ c # b
    BY <1>1
  <2>2. busy'[a] = busy[a] /\ busy'[c] = busy[c]
    BY <1>1, <2>1
  <2> QED
    BY <2>2 DEF SessionInv
<1> QED
  BY <1>2, <1>4, <1>5 DEF SessionInv

\* The states of a row lock.
LEMMA Locks ==
  /\ Idle \in Lock /\ Idle.op = "none"
  /\ \A op \in {"refresh", "release"} :
       [op |-> op, new |-> NoBrowser] \in Lock /\ [op |-> op, new |-> NoBrowser].op = op
BY DEF Idle, Lock, OptBrowser

\* A refresh, its ends, and every other end of a login keep the invariant.
LEMMA RefreshKeeps ==
  ASSUME SessionInv, NEW s \in Browsers,
         Refresh(s) \/ RefreshCommit(s) \/ RefreshFails(s) \/ Reject(s)
  PROVE  SessionInv'
<1> DEFINE row == rows[s]
           old == grant[s]
           held == busy[s]
<1>1. /\ row \in RowState /\ old \in Grant
      /\ rows = [rows EXCEPT ![s] = row] /\ grant = [grant EXCEPT ![s] = old]
      /\ busy = [busy EXCEPT ![s] = held]
      /\ row.pending => row.revoked
      /\ old.state = "none" => old.generation = 0
  BY DEF SessionInv, TypeOK, Grant
<1>2. Stored(s) /\ row.status = "stored"
  BY DEF SessionInv, LockInv, Free, Stored, Refresh, RefreshCommit, RefreshFails, Reject, Established, Usable
<1>3. Services
  BY DEF Refresh, RefreshCommit, RefreshFails, Reject, Unchanged4, Services, SessionInv, TypeOK
<1>4. CASE Refresh(s)
  <2> DEFINE lock == [op |-> "refresh", new |-> NoBrowser]
             g == [grant[s] EXCEPT !.generation = @ + 1]
  <2>1. lock \in Lock /\ lock.op = "refresh"
    BY Locks
  <2>2. busy' = [busy EXCEPT ![s] = lock] /\ grant' = [grant EXCEPT ![s] = g] /\ rows' = rows
        /\ row.tokenOld /\ old.state = "live" /\ old.generation < MaxRefresh
    BY <1>4 DEF Refresh, Current
  <2>3. g \in Grant /\ g.state = "live"
    BY <1>1, <2>2, Bound DEF Grant
  <2> HIDE DEF lock, g, row, old, held
  <2>4. rows' = [rows EXCEPT ![s] = row]
    BY <1>1, <2>2
  <2> QED
    BY <1>1, <1>2, <1>3, <2>1, <2>2, <2>3, <2>4, LockStep
<1>5. CASE RefreshCommit(s)
  <2> DEFINE r == [rows[s] EXCEPT !.generation = grant[s].generation, !.tokenOld = FALSE]
  <2>1. r \in RowState /\ r.generation = old.generation /\ r.status = row.status
        /\ r.pending = row.pending /\ r.revoked = row.revoked
    BY <1>1 DEF RowState, Grant
  <2>2. rows' = [rows EXCEPT ![s] = r] /\ busy' = [busy EXCEPT ![s] = Idle] /\ grant' = grant
    BY <1>5 DEF RefreshCommit, Unchanged4
  <2> HIDE DEF r, row, old, held
  <2>3. grant' = [grant EXCEPT ![s] = old]
    BY <1>1, <2>2
  <2>4. r.pending => r.revoked
    BY <1>1, <2>1
  <2>5. r.status = "stored" /\ r.generation = old.generation /\ r \in RowState
    BY <1>2, <2>1
  <2>6. r.authenticated /\ ~r.revoked /\ ~r.tokenOld => r.generation = old.generation
    BY <2>5
  <2>7. rows' = [rows EXCEPT ![s] = r] /\ busy' = [busy EXCEPT ![s] = Idle]
        /\ old \in Grant /\ (old.state = "none" => old.generation = 0)
    BY <1>1, <2>2
  <2> QED
    BY <1>2, <1>3, <2>3, <2>4, <2>5, <2>6, <2>7, Locks, LockStep
<1> DEFINE pending == IF rows[s].revoked THEN rows[s].pending ELSE rows[s].authenticated
           dead == Revoked(rows[s], pending)
<1>6. dead \in RowState /\ dead.revoked /\ dead.status = "stored"
  <2>1. pending \in BOOLEAN
    BY <1>1 DEF RowState
  <2> HIDE DEF pending
  <2> QED
    BY <1>1, <1>2, <2>1, RevokedRow
<1>7. Revoke(rows[s]) = dead
  BY DEF Revoke
<1> HIDE DEF dead
<1>8. CASE RefreshFails(s)
  <2>1. rows' = [rows EXCEPT ![s] = dead] /\ busy' = [busy EXCEPT ![s] = Idle] /\ grant' = grant
    BY <1>7, <1>8 DEF RefreshFails, Unchanged4
  <2> HIDE DEF row, old, held
  <2>2. grant' = [grant EXCEPT ![s] = old]
    BY <1>1, <2>1
  <2> QED
    BY <1>1, <1>2, <1>3, <1>6, <2>1, <2>2, Locks, LockStep
<1>9. CASE Reject(s)
  <2> DEFINE ended == [state |-> "revoked", generation |-> 0]
  <2>1. held \in Lock /\ held.op = "none"
    BY <1>9 DEF Reject, Established, Usable, Free, SessionInv, TypeOK, Lock
  <2>2. rows' = [rows EXCEPT ![s] = dead] /\ busy' = busy
        /\ (grant' = grant \/ grant' = [grant EXCEPT ![s] = ended])
    BY <1>7, <1>9 DEF Reject
  <2>3. ended \in Grant /\ ended.state = "revoked"
    BY Bound DEF Grant
  <2> HIDE DEF ended, row, old, held
  <2>4. busy' = [busy EXCEPT ![s] = held]
    BY <1>1, <2>2
  <2>5. CASE grant' = grant
    <3>1. grant' = [grant EXCEPT ![s] = old]
      BY <1>1, <2>5
    <3> QED
      BY <1>1, <1>2, <1>3, <1>6, <2>1, <2>2, <2>4, <3>1, LockStep
  <2>6. CASE grant' = [grant EXCEPT ![s] = ended]
    BY <1>1, <1>2, <1>3, <1>6, <2>1, <2>2, <2>3, <2>4, <2>6, LockStep
  <2> QED
    BY <2>2, <2>5, <2>6
<1> QED
  BY <1>4, <1>5, <1>8, <1>9

\* A release in two calls and a crash between them keep the invariant.
LEMMA ReleaseKeeps ==
  ASSUME SessionInv, NEW s \in Browsers, ReleaseProvider(s) \/ ReleaseGrant(s) \/ Crash(s)
  PROVE  SessionInv'
<1> DEFINE row == rows[s]
           old == grant[s]
<1>1. /\ row \in RowState /\ old \in Grant
      /\ rows = [rows EXCEPT ![s] = row] /\ grant = [grant EXCEPT ![s] = old]
      /\ row.pending => row.revoked
      /\ old.state = "none" => old.generation = 0
      /\ row.authenticated /\ ~row.revoked /\ ~row.tokenOld => row.generation = old.generation
  BY DEF SessionInv, TypeOK, Grant, Served
<1>2. Stored(s) /\ row.status = "stored"
  BY DEF SessionInv, LockInv, Free, Stored, ReleaseProvider, ReleaseGrant, Crash
<1>3. Services
  <2>1. kratos' \in [Browsers -> {"none", "live", "out"}]
    BY DEF ReleaseProvider, ReleaseGrant, Crash, SessionInv, TypeOK
  <2> QED
    BY <2>1 DEF ReleaseProvider, ReleaseGrant, Crash, Services, SessionInv, TypeOK
<1>4. CASE ReleaseProvider(s)
  <2> DEFINE lock == [op |-> "release", new |-> NoBrowser]
  <2>1. lock \in Lock /\ lock.op = "release"
    BY Locks
  <2>2. busy' = [busy EXCEPT ![s] = lock] /\ grant' = grant /\ rows' = rows /\ row.revoked
    BY <1>1, <1>4 DEF ReleaseProvider
  <2> HIDE DEF lock, row, old
  <2>3. rows' = [rows EXCEPT ![s] = row] /\ grant' = [grant EXCEPT ![s] = old]
        /\ busy' = [busy EXCEPT ![s] = lock]
    BY <1>1, <2>2
  <2>4. (lock.op = "refresh" => row.tokenOld) /\ (lock.op = "release" => row.revoked)
        /\ lock \in Lock /\ row \in RowState /\ old \in Grant
    BY <1>1, <2>1, <2>2
  <2> QED
    BY <1>1, <1>2, <1>3, <2>3, <2>4, LockStep
<1>5. CASE ReleaseGrant(s)
  <2> DEFINE ended == [state |-> "revoked", generation |-> 0]
             r == [rows[s] EXCEPT !.pending = FALSE]
  <2>1. ended \in Grant /\ ended.state = "revoked"
    BY Bound DEF Grant
  <2>2. r \in RowState /\ r.revoked /\ ~r.pending /\ r.status = "stored" /\ row.revoked
    BY <1>1, <1>2, <1>5 DEF RowState, ReleaseGrant, SessionInv, LockInv
  <2>3. busy' = [busy EXCEPT ![s] = Idle] /\ grant' = [grant EXCEPT ![s] = ended]
        /\ (rows' = [rows EXCEPT ![s] = r] \/ rows' = rows)
    BY <1>5 DEF ReleaseGrant
  <2> HIDE DEF ended, r, row, old
  <2>4. CASE rows' = [rows EXCEPT ![s] = r]
    BY <1>2, <1>3, <2>1, <2>2, <2>3, <2>4, Locks, LockStep
  <2>5. CASE rows' = rows
    <3>1. rows' = [rows EXCEPT ![s] = row]
      BY <1>1, <2>5
    <3> QED
      BY <1>1, <1>2, <1>3, <2>1, <2>2, <2>3, <3>1, Locks, LockStep
  <2> QED
    BY <2>3, <2>4, <2>5
<1>6. CASE Crash(s)
  <2>1. busy' = [busy EXCEPT ![s] = Idle] /\ grant' = grant /\ rows' = rows
    BY <1>6 DEF Crash
  <2> HIDE DEF row, old
  <2>2. rows' = [rows EXCEPT ![s] = row] /\ grant' = [grant EXCEPT ![s] = old]
    BY <1>1, <2>1
  <2> QED
    BY <1>1, <1>2, <1>3, <2>1, <2>2, Locks, LockStep
<1> QED
  BY <1>4, <1>5, <1>6

\* The new grant is the one of a row that nothing else uses.
LEMMA CallbackExchangeKeeps ==
  ASSUME SessionInv, NEW b \in Browsers, NEW n \in Browsers, CallbackExchange(b, n)
  PROVE  SessionInv'
<1> DEFINE g == [grant[n] EXCEPT !.state = "live"]
           lock == [op |-> "callback", new |-> n]
<1>1. /\ rows' = rows /\ kratos' = kratos /\ latest' = latest /\ codes' = codes \ {b}
      /\ grant' = [grant EXCEPT ![n] = g] /\ busy' = [busy EXCEPT ![b] = lock]
      /\ rows[n] = Unissued /\ grant[n].state = "none"
      /\ Stored(b) /\ Free(b) /\ \A a \in Browsers : busy[a].new # n
  BY DEF CallbackExchange, NextId, Fresh, Attempting, Usable
<1>2. grant[n].generation = 0 /\ grant[n] \in Grant
  BY <1>1 DEF SessionInv, TypeOK, Grant
<1>3. g \in Grant /\ g.state = "live" /\ g.generation = 0
  BY <1>2 DEF Grant
<1>4. /\ lock.op = "callback" /\ lock.new = n
      /\ lock \in [op : {"none", "callback", "refresh", "release"}, new : OptBrowser]
  BY DEF OptBrowser
<1> HIDE DEF g, lock
<1>5. TypeOK'
  BY <1>1, <1>3, <1>4 DEF SessionInv, TypeOK, Grant
<1>6. /\ \A c \in Browsers : c # n => grant'[c] = grant[c]
      /\ \A c \in Browsers : c # b => busy'[c] = busy[c]
      /\ grant'[n] = g /\ busy'[b] = lock
      /\ rows[n].status = "new" /\ ~rows[n].authenticated
  BY <1>1, UnissuedRow DEF SessionInv, TypeOK
<1>7. ASSUME NEW c \in Browsers
      PROVE  /\ Served(c)' /\ LockInv(c)'
             /\ rows'[c].pending => rows'[c].revoked
             /\ grant'[c].state = "none" => grant'[c].generation = 0
  <2>1. Served(c)' /\ (rows'[c].pending => rows'[c].revoked)
        /\ (grant'[c].state = "none" => grant'[c].generation = 0)
    BY <1>1, <1>3, <1>6 DEF SessionInv, Served
  <2>2. CASE c = b
    <3>1. Awaited(n)'
      BY <1>1, <1>3, <1>6 DEF Awaited
    <3>2. busy'[c].op = "callback" /\ busy'[c].new = n /\ Stored(c)'
      BY <1>1, <1>4, <1>6, <2>2 DEF Stored
    <3>3. LockInv(c)'
      BY <3>1, <3>2 DEF LockInv, Awaited
    <3> QED
      BY <2>1, <3>3
  <2>3. CASE c # b
    <3>1. busy'[c] = busy[c]
      BY <1>6, <2>3
    <3>2. busy[c].op = "callback" => Awaited(busy[c].new)
      BY DEF SessionInv, LockInv
    <3>3. busy[c].new # n
      BY <1>1
    <3>4. busy'[c].op = "callback" => Awaited(busy[c].new)'
      BY <1>1, <1>6, <3>1, <3>2, <3>3 DEF Awaited
    <3>5. LockInv(c)'
      BY <1>1, <3>1, <3>4 DEF SessionInv, LockInv, Free, Stored
    <3> QED
      BY <2>1, <3>5
  <2> QED
    BY <2>2, <2>3
<1>8. \A a, c \in Browsers :
        busy'[a].op = "callback" /\ busy'[c].op = "callback" /\ busy'[a].new = busy'[c].new => a = c
  BY <1>1, <1>4, <1>6 DEF SessionInv
<1> QED
  BY <1>5, <1>7, <1>8 DEF SessionInv

\* The row of a login just made.
LEMMA SignedInRow ==
  ASSUME NEW b \in Browsers, rows[b] \in RowState
  PROVE  /\ SignedIn(b) \in RowState /\ SignedIn(b).status = "stored"
         /\ ~SignedIn(b).pending /\ SignedIn(b).generation = 0
BY UnissuedRow, Bound DEF SignedIn, RowState, OptBrowser

\* The row of the login it replaces.
LEMMA RetiredRow ==
  ASSUME NEW p \in Browsers, rows[p] \in RowState, NEW provider
  PROVE  /\ Retired(p, provider) \in RowState /\ Retired(p, provider).revoked
         /\ Retired(p, provider).status = rows[p].status
<1> DEFINE r == Revoked(rows[p], TRUE)
<1>1. r \in RowState /\ r.revoked /\ r.status = rows[p].status
  BY RevokedRow
<1>2. (rows[p].provider # provider) \in BOOLEAN
  OBVIOUS
<1>3. Retired(p, provider) = [r EXCEPT !.revokeProvider = rows[p].provider # provider]
  BY DEF Retired
<1> HIDE DEF r
<1> QED
  BY <1>1, <1>2, <1>3 DEF RowState

\* The callback's three rows: the new login, the attempt, and the login it replaces.
LEMMA CallbackCommitKeeps ==
  ASSUME SessionInv, NEW b \in Browsers, CallbackCommit(b)
  PROVE  SessionInv'
<1> DEFINE n == busy[b].new
           p == rows[b].previous
           new == SignedIn(b)
           old == Retired(p, rows[b].provider)
<1>1. /\ busy[b].op = "callback"
      /\ p # NoBrowser => Stored(p) /\ Free(p)
      /\ rows' = [c \in Browsers |-> CASE c = n -> new [] c = b -> Gone [] c = p -> old
                                       [] OTHER -> rows[c]]
      /\ busy' = [busy EXCEPT ![b] = Idle] /\ grant' = grant
      /\ latest' = [login |-> n, replaced |-> p] /\ kratos' = kratos /\ codes' = codes
  BY DEF CallbackCommit
<1>2. /\ n \in Browsers /\ rows[n].status = "new" /\ grant[n].state = "live"
      /\ grant[n].generation = 0 /\ Stored(b) /\ busy[b].op # "none"
  BY <1>1 DEF SessionInv, LockInv, Awaited, Free
<1>3. /\ p \in OptBrowser /\ n # b /\ (p \in Browsers => p # b /\ p # n)
      /\ \A c \in Browsers : rows[c] \in RowState
  BY <1>1, <1>2, Bound DEF SessionInv, TypeOK, RowState, Free, Stored, NoBrowser
<1>4. new \in RowState /\ new.status = "stored" /\ ~new.pending /\ new.generation = 0
  BY <1>3, SignedInRow
<1>5. p \in Browsers => old \in RowState /\ old.revoked /\ old.status = "stored"
  <2> SUFFICES ASSUME p \in Browsers PROVE old \in RowState /\ old.revoked /\ old.status = "stored"
    OBVIOUS
  <2>1. rows[p] \in RowState /\ rows[p].status = "stored"
    BY <1>1, <1>3, Bound DEF Stored, NoBrowser
  <2> HIDE DEF p
  <2> QED
    BY <2>1, RetiredRow
<1>6. n \in OptBrowser
  BY <1>2 DEF OptBrowser
<1> HIDE DEF n, p, new, old
<1>7. /\ rows'[n] = new /\ rows'[b] = Gone
      /\ \A c \in Browsers : c = p => rows'[c] = old
      /\ \A c \in Browsers : c \notin {n, b, p} => rows'[c] = rows[c]
  BY <1>1, <1>2, <1>3
<1>8. rows' \in [Browsers -> RowState]
  <2>1. \A c \in Browsers : rows'[c] \in RowState
    BY <1>3, <1>4, <1>5, <1>7, GoneRow
  <2>2. rows' = [c \in Browsers |-> rows'[c]]
    BY <1>1
  <2> QED
    BY <2>1, <2>2
<1>9. TypeOK'
  BY <1>1, <1>3, <1>6, <1>8, Locks DEF SessionInv, TypeOK, Lock
<1>10. busy'[b] = Idle /\ \A c \in Browsers : c # b => busy'[c] = busy[c]
  BY <1>1 DEF SessionInv, TypeOK
<1>11. ASSUME NEW c \in Browsers
       PROVE  /\ Served(c)' /\ LockInv(c)'
              /\ rows'[c].pending => rows'[c].revoked
              /\ grant'[c].state = "none" => grant'[c].generation = 0
  <2>1. grant'[c].state = "none" => grant'[c].generation = 0
    BY <1>1 DEF SessionInv
  <2>2. CASE c = n
    <3>1. Free(c)
      BY <1>2, <2>2 DEF SessionInv, LockInv, Stored
    <3>2. busy'[c].op = "none"
      BY <1>3, <1>10, <2>2, <3>1 DEF Free
    <3>3. LockInv(c)'
      BY <3>2 DEF LockInv, Free
    <3>4. Served(c)' /\ ~rows'[c].pending
      BY <1>1, <1>2, <1>4, <1>7, <2>2 DEF Served
    <3> QED
      BY <2>1, <3>3, <3>4
  <2>3. CASE c = b
    <3>1. LockInv(c)'
      BY <1>10, <2>3, Locks DEF LockInv, Free
    <3>2. Served(c)' /\ ~rows'[c].pending
      BY <1>7, <2>3, GoneRow DEF Served
    <3> QED
      BY <2>1, <3>1, <3>2
  <2>4. CASE c = p
    <3>1. busy'[c].op = "none"
      BY <1>1, <1>3, <1>10, <2>4, Bound DEF Free, NoBrowser
    <3>2. LockInv(c)'
      BY <3>1 DEF LockInv, Free
    <3>3. Served(c)' /\ rows'[c].revoked
      BY <1>5, <1>7, <2>4 DEF Served
    <3> QED
      BY <2>1, <3>2, <3>3
  <2>5. CASE c \notin {n, b, p}
    <3>1. rows'[c] = rows[c] /\ busy'[c] = busy[c]
      BY <1>7, <1>10, <2>5
    <3>2. busy'[c].op = "callback" => Awaited(busy[c].new)'
      <4> SUFFICES ASSUME busy[c].op = "callback" PROVE Awaited(busy[c].new)'
        BY <3>1
      <4> DEFINE m == busy[c].new
      <4>1. m \in Browsers /\ rows[m].status = "new" /\ grant[m].state = "live"
            /\ grant[m].generation = 0
        BY DEF SessionInv, LockInv, Awaited
      <4>2. m # n
        BY <1>1, <2>5 DEF SessionInv, n
      <4>3. m # b /\ m # p
        BY <1>1, <1>2, <4>1, Bound DEF Stored, NoBrowser
      <4>4. rows'[m] = rows[m] /\ grant'[m] = grant[m] /\ busy'[c].new = m
        BY <1>1, <1>7, <3>1, <4>1, <4>2, <4>3
      <4> QED
        BY <4>1, <4>4 DEF Awaited
    <3>3. LockInv(c)'
      BY <1>1, <3>1, <3>2 DEF SessionInv, LockInv, Free, Stored
    <3>4. Served(c)' /\ (rows'[c].pending => rows'[c].revoked)
      BY <1>1, <3>1 DEF SessionInv, Served
    <3> QED
      BY <2>1, <3>3, <3>4
  <2> QED
    BY <2>2, <2>3, <2>4, <2>5
<1>12. \A a, c \in Browsers :
         busy'[a].op = "callback" /\ busy'[c].op = "callback" /\ busy'[a].new = busy'[c].new => a = c
  BY <1>10, Locks DEF SessionInv
<1> QED
  BY <1>9, <1>11, <1>12 DEF SessionInv

\* Every step keeps the invariant of the rows.
LEMMA StepSession == SessionInv /\ [Next]_vars => SessionInv'
<1> SUFFICES ASSUME SessionInv, [Next]_vars PROVE SessionInv'
  OBVIOUS
<1>1. CASE UNCHANGED vars
  <2>1. Services /\ UNCHANGED <<rows, busy, grant>> /\ rows' \in [Browsers -> RowState]
    BY <1>1 DEF vars, Services, SessionInv, TypeOK
  <2> QED
    BY <2>1, RowsStep
<1>2. CASE Next
  <2>1. ASSUME NEW b \in Browsers, NEW s \in OptBrowser, NEW reauth \in BOOLEAN,
               StartRead(b, s, reauth)
        PROVE  SessionInv'
    BY <2>1, StartReadKeeps
  <2>2. ASSUME NEW b \in Browsers, NEW f \in OptBrowser, StartCreate(b, f)
        PROVE  SessionInv'
    BY <2>2, StartCreateKeeps
  <2>3. ASSUME NEW b \in Browsers, NEW n \in Browsers, CallbackExchange(b, n)
        PROVE  SessionInv'
    BY <2>3, CallbackExchangeKeeps
  <2>4. ASSUME NEW b \in Browsers,
               SignIn(b) \/ Handoff(b) \/ Consent(b) \/ ProviderEnds(b) \/ Read(b)
        PROVE  SessionInv'
    BY <2>4, AttemptKeeps
  <2>5. ASSUME NEW b \in Browsers, CallbackCommit(b) PROVE SessionInv'
    BY <2>5, CallbackCommitKeeps
  <2>6. ASSUME NEW b \in Browsers,
               Cancel(b) \/ FinishCancelled(b) \/ Logout(b) \/ MarkExpired(b) \/ Delete(b)
        PROVE  SessionInv'
    BY <2>6, EndKeeps
  <2>7. ASSUME NEW b \in Browsers, TokenAges(b) \/ Age(b) PROVE SessionInv'
    BY <2>7, TimeKeeps
  <2>8. ASSUME NEW b \in Browsers,
               Refresh(b) \/ RefreshCommit(b) \/ RefreshFails(b) \/ Reject(b)
        PROVE  SessionInv'
    BY <2>8, RefreshKeeps
  <2>9. ASSUME NEW b \in Browsers, ReleaseProvider(b) \/ ReleaseGrant(b) \/ Crash(b)
        PROVE  SessionInv'
    BY <2>9, ReleaseKeeps
  <2> QED
    BY <1>2, <2>1, <2>2, <2>3, <2>4, <2>5, <2>6, <2>7, <2>8, <2>9 DEF Next
<1> QED
  BY <1>1, <1>2

-----------------------------------------------------------------------------
(* What an ended login stands for, and what a callback relies on.           *)

\* A login that is over, with nothing left to release.
Over(b) == rows[b].authenticated /\ rows[b].revoked /\ ~rows[b].pending

\* The provider session that row b has to sign out is out.
SignedOut(b) ==
  rows[b].revokeProvider /\ rows[b].provider \in Browsers => kratos[rows[b].provider] = "out"

Settled(b) ==
  /\ busy[b].op = "release" => SignedOut(b)
  /\ Over(b) => grant[b].state = "revoked" /\ SignedOut(b)
  /\ busy[b].op = "callback" =>
       ~rows[b].authenticated /\ ~rows[b].revoked /\ rows[b].transaction = "open"

ReleaseInv == SessionInv /\ \A b \in Browsers : Settled(b)

\* What is out or revoked at the services stays so.
ServicesKeep ==
  /\ \A k \in Browsers : kratos[k] = "out" => kratos'[k] = "out"
  /\ \A c \in Browsers : grant[c].state = "revoked" => grant'[c].state = "revoked"

SameRelease(c) ==
  rows'[c].provider = rows[c].provider /\ rows'[c].revokeProvider = rows[c].revokeProvider

SameAttempt(c) ==
  /\ rows'[c].authenticated = rows[c].authenticated /\ rows'[c].revoked = rows[c].revoked
  /\ rows'[c].transaction = rows[c].transaction

\* A step that neither releases row c nor makes a callback of it, and deletes it only
\* when it is over or was never a login.
Careful(c) ==
  /\ busy'[c] = busy[c] \/ busy'[c].op \in {"none", "refresh"}
  /\ busy'[c].op = "callback" => SameAttempt(c)
  /\ busy'[c].op = "release" => SameRelease(c)
  /\ Over(c)' => Over(c) /\ SameRelease(c)
  /\ rows'[c].status = "deleted" => rows[c].status = "deleted" \/ ~rows[c].authenticated \/ Over(c)

\* What the two theorems say of a step and a row.
Remembers(c) ==
  /\ Deleted(c) /\ rows[c].authenticated => grant[c].state = "revoked" /\ SignedOut(c)
  /\ busy[c].op = "callback" /\ Deleted(c) => ~rows[c].revoked /\ rows[c].transaction = "open"

\* A step that is careful with a row lets nothing of it be forgotten.
LEMMA CarefulRow ==
  ASSUME NEW c \in Browsers, Settled(c), ServicesKeep, Careful(c)
  PROVE  Settled(c)' /\ Remembers(c)
<1>1. SameRelease(c) /\ SignedOut(c) => SignedOut(c)'
  BY DEF SameRelease, SignedOut, ServicesKeep
<1>2. busy'[c].op = "release" => SignedOut(c)'
  BY <1>1 DEF Settled, Careful
<1>3. Over(c)' => grant'[c].state = "revoked" /\ SignedOut(c)'
  BY <1>1 DEF Settled, Careful, ServicesKeep
<1>4. busy'[c].op = "callback" =>
        ~rows'[c].authenticated /\ ~rows'[c].revoked /\ rows'[c].transaction = "open"
  BY DEF Settled, Careful, SameAttempt
<1>5. Deleted(c) /\ rows[c].authenticated => Over(c)
  BY DEF Deleted, Stored, Careful
<1>6. Settled(c)'
  BY <1>2, <1>3, <1>4 DEF Settled
<1> QED
  BY <1>5, <1>6 DEF Settled, Remembers

\* A step that leaves a row alone is careful with it.
LEMMA SameRow ==
  ASSUME NEW c \in Browsers, rows'[c] = rows[c],
         busy'[c] = busy[c] \/ busy'[c].op \in {"none", "refresh"}
  PROVE  Careful(c)
<1>1. SameRelease(c) /\ SameAttempt(c) /\ (Over(c)' => Over(c))
  BY DEF SameRelease, SameAttempt, Over
<1>2. rows'[c].status = "deleted" => rows[c].status = "deleted"
  OBVIOUS
<1>3. busy'[c].op = "release" => SameRelease(c)
  BY <1>1
<1> QED
  BY <1>1, <1>2 DEF Careful

\* A step that rewrites a row that is not locked for a release or a callback.
LEMMA RewrittenRow ==
  ASSUME SessionInv, NEW b \in Browsers, NEW r \in RowState, rows' = [rows EXCEPT ![b] = r],
         \A c \in Browsers : busy'[c] = busy[c] \/ busy'[c].op \in {"none", "refresh"},
         busy'[b].op \in {"none", "refresh"},
         r.authenticated /\ r.revoked /\ ~r.pending
           => Over(b) /\ r.provider = rows[b].provider /\ r.revokeProvider = rows[b].revokeProvider,
         r.status = "deleted" => ~rows[b].authenticated \/ Over(b)
  PROVE  \A c \in Browsers : Careful(c)
<1> SUFFICES ASSUME NEW c \in Browsers PROVE Careful(c)
  OBVIOUS
<1>1. CASE c # b
  <2>1. rows'[c] = rows[c]
    BY <1>1 DEF SessionInv, TypeOK
  <2> QED
    BY <2>1, SameRow
<1>2. CASE c = b
  <2>1. rows'[b] = r
    BY DEF SessionInv, TypeOK
  <2>2. Over(b)' => Over(b) /\ SameRelease(b)
    BY <2>1 DEF Over, SameRelease
  <2>3. busy'[b].op # "callback" /\ busy'[b].op # "release"
    OBVIOUS
  <2> QED
    BY <1>2, <2>1, <2>2, <2>3 DEF Careful
<1> QED
  BY <1>1, <1>2

\* What revoking leaves of a row.
LEMMA RevokedFields ==
  ASSUME NEW r \in RowState, NEW pending \in BOOLEAN
  PROVE  /\ Revoked(r, pending).authenticated = r.authenticated
         /\ Revoked(r, pending).provider = r.provider
         /\ Revoked(r, pending).revokeProvider = r.revokeProvider
         /\ Revoked(r, pending).status = r.status
         /\ Revoked(r, pending).pending = pending
BY DEF Revoked, RowState

\* Nothing comes back to life at Hydra and Kratos in a login that has ended.
LEMMA StepServices == SessionInv /\ [Next]_vars => ServicesKeep
<1> SUFFICES ASSUME SessionInv, [Next]_vars PROVE ServicesKeep
  OBVIOUS
<1>1. /\ kratos \in [Browsers -> {"none", "live", "out"}]
      /\ grant \in [Browsers -> Grant]
  BY DEF SessionInv, TypeOK, Grant
<1>2. \/ kratos' = kratos
      \/ \E k : kratos' = [kratos EXCEPT ![k] = "out"]
      \/ \E k : kratos' = [kratos EXCEPT ![k] = "live"] /\ kratos[k] = "none"
  BY DEF Next, vars, StartRead, StartCreate, CallbackExchange, SignIn, Handoff, Consent, CallbackCommit,
     Cancel, FinishCancelled, Read, TokenAges, Refresh, RefreshCommit, RefreshFails, Reject, Logout,
     ReleaseProvider, ReleaseGrant, Crash, MarkExpired, Delete, Age, ProviderEnds, Unchanged4
<1>3. \A k \in Browsers : kratos[k] = "out" => kratos'[k] = "out"
  BY <1>1, <1>2
<1>4. \/ grant' = grant
      \/ \E b \in Browsers : grant[b].state # "revoked" /\ \A c \in Browsers : c # b => grant'[c] = grant[c]
      \/ \E b \in Browsers : /\ grant' = [grant EXCEPT ![b] = [state |-> "revoked", generation |-> 0]]
  <2>1. ASSUME NEW b \in Browsers, NEW n \in Browsers, CallbackExchange(b, n)
        PROVE  grant[n].state # "revoked" /\ \A c \in Browsers : c # n => grant'[c] = grant[c]
    BY <1>1, <2>1 DEF CallbackExchange, NextId, Fresh
  <2>2. ASSUME NEW b \in Browsers, Refresh(b)
        PROVE  grant[b].state # "revoked" /\ \A c \in Browsers : c # b => grant'[c] = grant[c]
    BY <1>1, <2>2 DEF Refresh, Current
  <2>3. ASSUME NEW b \in Browsers, Reject(b) \/ ReleaseGrant(b)
        PROVE  grant' = grant \/ grant' = [grant EXCEPT ![b] = [state |-> "revoked", generation |-> 0]]
    BY <2>3 DEF Reject, ReleaseGrant
  <2>4. \/ grant' = grant
        \/ \E b, n \in Browsers : CallbackExchange(b, n)
        \/ \E b \in Browsers : Refresh(b) \/ Reject(b) \/ ReleaseGrant(b)
    BY DEF Next, vars, StartRead, StartCreate, SignIn, Handoff, Consent, CallbackCommit,
       Cancel, FinishCancelled, Read, TokenAges, RefreshCommit, RefreshFails, Logout,
       ReleaseProvider, Crash, MarkExpired, Delete, Age, ProviderEnds, Unchanged4
  <2> QED
    BY <2>1, <2>2, <2>3, <2>4
<1>5. \A c \in Browsers : grant[c].state = "revoked" => grant'[c].state = "revoked"
  <2> DEFINE ended == [state |-> "revoked", generation |-> 0]
  <2>1. ended.state = "revoked"
    OBVIOUS
  <2>2. ASSUME NEW b \in Browsers, grant' = [grant EXCEPT ![b] = ended]
        PROVE  \A c \in Browsers : (c = b /\ grant'[c] = ended) \/ grant'[c] = grant[c]
    BY <1>1, <2>2
  <2> HIDE DEF ended
  <2>3. \/ \A c \in Browsers : grant'[c] = grant[c]
        \/ \E b \in Browsers : grant[b].state # "revoked" /\ \A c \in Browsers : c # b => grant'[c] = grant[c]
        \/ \E b \in Browsers : \A c \in Browsers : (c = b /\ grant'[c] = ended) \/ grant'[c] = grant[c]
    BY <1>4, <2>2 DEF ended
  <2> QED
    BY <2>1, <2>3
<1> QED
  BY <1>3, <1>5 DEF ServicesKeep

\* The steps of attempts.
LEMMA AttemptCareful ==
  ASSUME SessionInv, NEW b \in Browsers,
         \/ \E s \in OptBrowser, reauth \in BOOLEAN : StartRead(b, s, reauth)
         \/ \E f \in OptBrowser : StartCreate(b, f)
         \/ SignIn(b) \/ Handoff(b) \/ Consent(b) \/ ProviderEnds(b) \/ Read(b) \/ Age(b)
         \/ TokenAges(b)
  PROVE  \A c \in Browsers : Careful(c)
<1> SUFFICES ASSUME NEW c \in Browsers PROVE Careful(c)
  OBVIOUS
<1>1. busy' = busy /\ rows[c] \in RowState /\ rows \in [Browsers -> RowState]
  BY DEF SessionInv, TypeOK, StartRead, StartCreate, SignIn, Handoff, Consent, ProviderEnds, Read, Age,
     TokenAges, vars
<1>2. CASE rows'[c] = rows[c]
  BY <1>1, <1>2, SameRow
<1>3. ASSUME NEW s \in OptBrowser, NEW reauth \in BOOLEAN, StartRead(b, s, reauth), rows'[c] # rows[c]
      PROVE  Careful(c)
  <2>1. c = b /\ rows[b] = Unissued
    BY <1>1, <1>3 DEF StartRead, NextId, Fresh
  <2>2. rows'[b].authenticated = rows[b].authenticated /\ rows'[b].status = "starting"
    BY <1>1, <1>3 DEF StartRead, RowState
  <2>3. ~rows'[b].authenticated /\ Free(b)
    BY <2>1, <2>2, UnissuedRow DEF SessionInv, LockInv, Stored
  <2> QED
    BY <1>1, <2>1, <2>2, <2>3 DEF Careful, Over, Free
<1>4. ASSUME NEW f \in OptBrowser, StartCreate(b, f), rows'[c] # rows[c]
      PROVE  Careful(c)
  <2>1. CASE c = b
    <3>1. rows'[b] = [rows[b] EXCEPT !.status = "stored", !.transaction = "open"]
          /\ rows[b].status = "starting"
      BY <1>4 DEF StartCreate
    <3>2. rows'[b].status = "stored" /\ SameRelease(b) /\ rows'[b].authenticated = rows[b].authenticated
          /\ rows'[b].revoked = rows[b].revoked /\ rows'[b].pending = rows[b].pending
      BY <1>1, <2>1, <3>1 DEF RowState, SameRelease
    <3>3. Free(b)
      BY <3>1 DEF SessionInv, LockInv, Stored
    <3> QED
      BY <1>1, <2>1, <3>2, <3>3 DEF Careful, Over, Free
  <2>2. CASE c # b
    <3>1. c = f /\ rows'[c] = CancelledRow(rows[c]) /\ Cancellable(c)
      BY <1>4, <2>2, Bound DEF StartCreate, NoBrowser
    <3>2. CancelledRow(rows[c]).pending /\ ~rows[c].authenticated
      BY <1>1, <3>1, CancelledRowTyped DEF Cancellable
    <3> QED
      BY <1>1, <3>1, <3>2 DEF Careful, Over, Cancellable, Free
  <2> QED
    BY <2>1, <2>2
<1>5. ASSUME SignIn(b) \/ Age(b) \/ TokenAges(b), rows'[c] # rows[c]
      PROVE  Careful(c)
  <2>1. SameRelease(c) /\ SameAttempt(c) /\ rows'[c].pending = rows[c].pending
        /\ rows'[c].status = rows[c].status
    BY <1>1, <1>5 DEF SignIn, Age, TokenAges, RowState, SameRelease, SameAttempt
  <2> QED
    BY <1>1, <2>1 DEF Careful, SameAttempt, Over
<1>6. ASSUME Handoff(b), rows'[c] # rows[c]
      PROVE  Careful(c)
  <2>1. c = b /\ ~rows[b].authenticated /\ Free(b)
    BY <1>1, <1>6 DEF Handoff, Attempting, Usable
  <2>2. rows'[b].authenticated = rows[b].authenticated /\ rows'[b].status = rows[b].status
    BY <1>1, <1>6 DEF Handoff, RowState
  <2> QED
    BY <1>1, <2>1, <2>2 DEF Careful, Over, Free
<1> QED
  BY <1>2, <1>3, <1>4, <1>5, <1>6 DEF Consent, ProviderEnds, Read, vars

\* The steps that end, empty or delete a row that nobody holds.
LEMMA EndCareful ==
  ASSUME SessionInv, NEW b \in Browsers,
         Cancel(b) \/ FinishCancelled(b) \/ Logout(b) \/ MarkExpired(b) \/ Delete(b)
  PROVE  \A c \in Browsers : Careful(c)
<1>1. rows[b] \in RowState /\ Free(b) /\ busy' = busy
  BY DEF SessionInv, TypeOK, Cancel, Cancellable, FinishCancelled, Logout, MarkExpired, Delete
<1>2. /\ \A c \in Browsers : busy'[c] = busy[c]
      /\ busy'[b].op \in {"none", "refresh"}
  BY <1>1 DEF Free
<1>3. CASE Cancel(b)
  <2> DEFINE r == CancelledRow(rows[b])
  <2>1. r \in RowState /\ r.pending /\ ~rows[b].authenticated /\ rows' = [rows EXCEPT ![b] = r]
    BY <1>1, <1>3, CancelledRowTyped DEF Cancel, Cancellable
  <2> HIDE DEF r
  <2> QED
    BY <1>2, <2>1, RewrittenRow
<1>4. CASE FinishCancelled(b)
  <2> DEFINE r == Cleaned(rows[b])
  <2>1. r \in RowState /\ r.authenticated = rows[b].authenticated
    BY <1>1 DEF Cleaned, RowState, OptBrowser
  <2>2. ~rows[b].authenticated /\ (rows' = [rows EXCEPT ![b] = r] \/ rows' = rows)
    BY <1>4 DEF FinishCancelled
  <2> HIDE DEF r
  <2>3. CASE rows' = rows
    BY <1>2, <2>3, SameRow
  <2>4. CASE rows' = [rows EXCEPT ![b] = r]
    BY <1>2, <2>1, <2>2, <2>4, RewrittenRow
  <2> QED
    BY <2>2, <2>3, <2>4
<1>5. CASE Logout(b) \/ MarkExpired(b)
  <2> DEFINE r == Revoked(rows[b], TRUE)
  <2>1. r \in RowState /\ r.pending /\ r.status = "stored"
    BY <1>1, <1>5, RevokedRow DEF Logout, MarkExpired, Stored
  <2>2. rows' = [rows EXCEPT ![b] = r]
    <3>1. CASE MarkExpired(b)
      BY <3>1 DEF MarkExpired
    <3>2. CASE Logout(b)
      <4>1. ~rows[b].revoked /\ rows[b].authenticated = TRUE
        BY <1>1, <3>2 DEF Logout, RowState
      <4>2. Revoke(rows[b]) = r
        BY <4>1 DEF Revoke
      <4> QED
        BY <3>2, <4>2 DEF Logout
    <3> QED
      BY <1>5, <3>1, <3>2
  <2> HIDE DEF r
  <2> QED
    BY <1>2, <2>1, <2>2, RewrittenRow
<1>6. CASE Delete(b)
  <2>1. rows' = [rows EXCEPT ![b] = Gone] /\ (~rows[b].authenticated \/ Over(b))
    BY <1>6 DEF Delete, Over
  <2> QED
    BY <1>2, <2>1, GoneRow, RewrittenRow
<1> QED
  BY <1>3, <1>4, <1>5, <1>6

\* The steps that refresh or reject a login, and crashes.
LEMMA RefreshCareful ==
  ASSUME SessionInv, NEW s \in Browsers,
         Refresh(s) \/ RefreshCommit(s) \/ RefreshFails(s) \/ Reject(s) \/ Crash(s)
  PROVE  \A c \in Browsers : Careful(c)
<1>1. rows[s] \in RowState
  BY DEF SessionInv, TypeOK
<1>2. /\ \A c \in Browsers : busy'[c] = busy[c] \/ busy'[c].op \in {"none", "refresh"}
      /\ busy'[s].op \in {"none", "refresh"}
  <2>1. \/ busy' = busy /\ Free(s)
        \/ busy' = [busy EXCEPT ![s] = Idle]
        \/ busy' = [busy EXCEPT ![s] = [op |-> "refresh", new |-> NoBrowser]]
    BY DEF Refresh, RefreshCommit, RefreshFails, Reject, Established, Usable, Crash
  <2>2. [op |-> "refresh", new |-> NoBrowser].op = "refresh"
    OBVIOUS
  <2> DEFINE lock == [op |-> "refresh", new |-> NoBrowser]
  <2> HIDE DEF lock
  <2>3. (busy' = busy /\ Free(s)) \/ busy' = [busy EXCEPT ![s] = Idle] \/ busy' = [busy EXCEPT ![s] = lock]
    BY <2>1 DEF lock
  <2>4. lock.op = "refresh" /\ Idle.op = "none"
    BY <2>2, Locks DEF lock
  <2> QED
    BY <2>3, <2>4 DEF SessionInv, TypeOK, Free
<1>3. CASE Refresh(s) \/ Crash(s)
  <2>1. rows' = rows
    BY <1>3 DEF Refresh, Crash
  <2> QED
    BY <1>2, <2>1, SameRow
<1>4. CASE RefreshCommit(s)
  <2> DEFINE r == [rows[s] EXCEPT !.generation = grant[s].generation, !.tokenOld = FALSE]
  <2>1. /\ r \in RowState /\ r.authenticated = rows[s].authenticated /\ r.revoked = rows[s].revoked
        /\ r.pending = rows[s].pending /\ r.provider = rows[s].provider
        /\ r.revokeProvider = rows[s].revokeProvider /\ r.status = rows[s].status
    BY <1>1 DEF RowState, SessionInv, TypeOK
  <2>2. rows' = [rows EXCEPT ![s] = r] /\ busy[s].op = "refresh"
    BY <1>4 DEF RefreshCommit
  <2>3. rows[s].status = "stored"
    BY <2>2 DEF SessionInv, LockInv, Free, Stored
  <2> HIDE DEF r
  <2>4. r.authenticated /\ r.revoked /\ ~r.pending => Over(s)
    BY <2>1 DEF Over
  <2>5. r.status # "deleted"
    BY <2>1, <2>3
  <2> QED
    BY <1>2, <2>1, <2>2, <2>4, <2>5, RewrittenRow
<1>5. CASE RefreshFails(s) \/ Reject(s)
  <2> DEFINE pending == IF rows[s].revoked THEN rows[s].pending ELSE rows[s].authenticated
             r == Revoked(rows[s], pending)
  <2>1. pending \in BOOLEAN
    BY <1>1 DEF RowState
  <2>2. ~pending => ~rows[s].authenticated \/ (rows[s].revoked /\ ~rows[s].pending)
    OBVIOUS
  <2>3. rows' = [rows EXCEPT ![s] = r]
    BY <1>5 DEF RefreshFails, Reject, Revoke
  <2>4. Stored(s)
    BY <1>5 DEF RefreshFails, Reject, Established, Usable, SessionInv, LockInv, Free
  <2> HIDE DEF pending
  <2>5. /\ r \in RowState /\ r.authenticated = rows[s].authenticated /\ r.provider = rows[s].provider
        /\ r.revokeProvider = rows[s].revokeProvider /\ r.status = "stored" /\ r.pending = pending
    BY <1>1, <2>1, <2>4, RevokedRow, RevokedFields DEF Stored
  <2> HIDE DEF r
  <2>6. r.authenticated /\ r.revoked /\ ~r.pending => Over(s)
    BY <2>2, <2>5 DEF Over
  <2> QED
    BY <1>2, <2>3, <2>5, <2>6, RewrittenRow
<1> QED
  BY <1>3, <1>4, <1>5

\* The callback deletes an attempt, and replaces a login that still is to be released.
LEMMA CallbackCareful ==
  ASSUME ReleaseInv, NEW b \in Browsers, CallbackCommit(b)
  PROVE  \A c \in Browsers : Careful(c)
<1> DEFINE n == busy[b].new
           p == rows[b].previous
           new == SignedIn(b)
           old == Retired(p, rows[b].provider)
<1>0. SessionInv /\ Settled(b)
  BY DEF ReleaseInv
<1>1. /\ busy[b].op = "callback" /\ ~rows[b].authenticated
      /\ busy' = [busy EXCEPT ![b] = Idle] /\ busy'[b].op = "none"
      /\ rows[n].status = "new" /\ n \in Browsers
  BY <1>0, Locks DEF CallbackCommit, Settled, SessionInv, TypeOK, LockInv, Awaited
<1>2. /\ p # NoBrowser => Stored(p) /\ Free(p)
      /\ rows' = [c \in Browsers |-> CASE c = n -> new [] c = b -> Gone [] c = p -> old
                                       [] OTHER -> rows[c]]
  BY DEF CallbackCommit
<1>3. new.status = "stored" /\ ~new.revoked
  <2>1. rows[b] \in RowState
    BY <1>0 DEF SessionInv, TypeOK
  <2> QED
    BY <2>1, UnissuedRow DEF SignedIn, RowState
<1>4. p \in Browsers => old.pending /\ old.status = "stored" /\ Free(p)
  <2> SUFFICES ASSUME p \in Browsers PROVE old.pending /\ old.status = "stored" /\ Free(p)
    OBVIOUS
  <2>1. rows[p] \in RowState /\ rows[p].status = "stored" /\ Free(p)
    BY <1>0, <1>2, Bound DEF SessionInv, TypeOK, Stored, NoBrowser
  <2> DEFINE r == Revoked(rows[p], TRUE)
  <2>2. r \in RowState /\ r.pending /\ r.status = "stored"
    BY <2>1, RevokedRow
  <2>3. old = [r EXCEPT !.revokeProvider = rows[p].provider # rows[b].provider]
    BY DEF Retired
  <2> HIDE DEF r, old
  <2> QED
    BY <2>1, <2>2, <2>3 DEF RowState
<1>5. n # b /\ p # b /\ p # n
  BY <1>0, <1>1, <1>2, Bound DEF SessionInv, LockInv, Free, Stored, NoBrowser
<1> HIDE DEF n, p, new, old
<1>6. ASSUME NEW c \in Browsers PROVE Careful(c)
  <2>1. c # b => busy'[c] = busy[c]
    BY <1>0, <1>1 DEF SessionInv, TypeOK
  <2>2. CASE c \notin {n, b, p}
    BY <1>2, <2>1, <2>2, SameRow
  <2>3. CASE c = b
    <3>1. rows'[b] = Gone
      BY <1>2, <1>5
    <3>2. ~Over(b)'
      BY <3>1, GoneRow DEF Over
    <3> QED
      BY <1>1, <2>3, <3>2 DEF Careful
  <2>4. CASE c = n /\ c # b
    <3>1. rows'[c] = new /\ Free(c)
      BY <1>0, <1>1, <1>2, <1>5, <2>4 DEF SessionInv, LockInv, Stored
    <3> QED
      BY <1>3, <2>1, <2>4, <3>1 DEF Careful, Over, Free
  <2>5. CASE c = p /\ c # n /\ c # b
    <3>1. rows'[c] = old /\ old.pending /\ old.status = "stored" /\ Free(c)
      BY <1>2, <1>4, <2>5
    <3> QED
      BY <2>1, <2>5, <3>1 DEF Careful, Over, Free
  <2> QED
    BY <2>2, <2>3, <2>4, <2>5
<1> QED
  BY <1>6

\* A callback and a release begin: the row they hold is as they rely on it.
LEMMA LockedSettled ==
  ASSUME ReleaseInv, ServicesKeep, NEW b \in Browsers,
         (\E n \in Browsers : CallbackExchange(b, n)) \/ ReleaseProvider(b) \/ ReleaseGrant(b)
  PROVE  \A c \in Browsers : Settled(c)' /\ Remembers(c)
<1> SUFFICES ASSUME NEW c \in Browsers PROVE Settled(c)' /\ Remembers(c)
  OBVIOUS
<1>1. /\ SessionInv /\ Settled(c) /\ Settled(b) /\ rows[b] \in RowState
      /\ busy \in [Browsers -> [op : {"none", "callback", "refresh", "release"}, new : OptBrowser]]
      /\ kratos \in [Browsers -> {"none", "live", "out"}] /\ grant \in [Browsers -> Grant]
  BY DEF ReleaseInv, SessionInv, TypeOK, Grant
<1>2. CASE c # b
  <2>1. rows'[c] = rows[c] /\ busy'[c] = busy[c]
    BY <1>1, <1>2 DEF CallbackExchange, ReleaseProvider, ReleaseGrant, SessionInv, TypeOK
  <2> QED
    BY <1>1, <2>1, SameRow, CarefulRow
<1>3. ASSUME NEW n \in Browsers, CallbackExchange(b, n), c = b
      PROVE  Settled(c)' /\ Remembers(c)
  <2> DEFINE lock == [op |-> "callback", new |-> n]
  <2>1. rows' = rows /\ busy' = [busy EXCEPT ![b] = lock] /\ Attempting(b)
    BY <1>3 DEF CallbackExchange
  <2>2. lock.op = "callback"
    OBVIOUS
  <2> HIDE DEF lock
  <2>3. busy'[b].op = "callback" /\ ~rows'[b].authenticated /\ ~rows'[b].revoked
        /\ rows'[b].transaction = "open" /\ rows'[b].status # "deleted"
    BY <1>1, <2>1, <2>2 DEF Attempting, Usable, Stored
  <2> QED
    BY <1>3, <2>3 DEF Settled, Over, Remembers, Deleted
<1>4. CASE ReleaseProvider(b) /\ c = b
  <2> DEFINE lock == [op |-> "release", new |-> NoBrowser]
  <2>1. rows' = rows /\ busy' = [busy EXCEPT ![b] = lock] /\ Stored(b) /\ rows[b].pending
    BY <1>4 DEF ReleaseProvider
  <2>2. lock.op = "release"
    OBVIOUS
  <2> HIDE DEF lock
  <2>3. busy'[b].op = "release" /\ ~Over(b)'
    BY <1>1, <2>1, <2>2 DEF Over
  <2>4. SignedOut(b)'
    BY <1>1, <1>4, <2>1 DEF ReleaseProvider, SignedOut
  <2>5. ~Deleted(b)
    BY <2>1 DEF Stored, Deleted
  <2> QED
    BY <1>4, <2>3, <2>4, <2>5 DEF Settled, Remembers
<1>5. CASE ReleaseGrant(b) /\ c = b
  <2> DEFINE r == [rows[b] EXCEPT !.pending = FALSE]
             ended == [state |-> "revoked", generation |-> 0]
  <2>1. /\ rows' = [rows EXCEPT ![b] = r] \/ rows' = rows
        /\ busy[b].op = "release" /\ busy' = [busy EXCEPT ![b] = Idle]
        /\ grant' = [grant EXCEPT ![b] = ended] /\ kratos' = kratos
    BY <1>5 DEF ReleaseGrant
  <2>2. r.provider = rows[b].provider /\ r.revokeProvider = rows[b].revokeProvider
        /\ r.status = rows[b].status
    BY <1>1 DEF RowState
  <2>3. ended.state = "revoked"
    OBVIOUS
  <2>4. rows[b].status = "stored"
    BY <1>1, <2>1 DEF SessionInv, LockInv, Free, Stored
  <2> HIDE DEF r, ended
  <2>5. rows'[b] = r \/ rows'[b] = rows[b]
    BY <1>1, <2>1 DEF SessionInv, TypeOK
  <2>6. SameRelease(b) /\ rows'[b].status = "stored"
    BY <2>2, <2>4, <2>5 DEF SameRelease
  <2>7. busy'[b].op = "none" /\ grant'[b].state = "revoked"
    BY <1>1, <2>1, <2>3, Locks
  <2>8. SignedOut(b)'
    BY <1>1, <2>1, <2>6 DEF Settled, SignedOut, SameRelease
  <2> QED
    BY <1>5, <2>6, <2>7, <2>8 DEF Settled, Remembers, Deleted
<1> QED
  BY <1>2, <1>3, <1>4, <1>5

\* Initially there is nothing to release that no row remembers.
LEMMA InitRelease == Init => ReleaseInv
<1>1. Init => \A b \in Browsers : Settled(b)
  BY UnissuedRow DEF Init, Settled, Over, Idle
<1> QED
  BY <1>1, InitSession DEF ReleaseInv

\* Every step keeps what is to be released in the memory of a row.
LEMMA StepRelease ==
  ReleaseInv /\ [Next]_vars => ReleaseInv' /\ \A c \in Browsers : Remembers(c)
<1> SUFFICES ASSUME ReleaseInv, [Next]_vars
             PROVE  ReleaseInv' /\ \A c \in Browsers : Remembers(c)
  OBVIOUS
<1>1. SessionInv /\ SessionInv' /\ ServicesKeep /\ \A c \in Browsers : Settled(c)
  BY StepSession, StepServices DEF ReleaseInv
<1>2. ASSUME \A c \in Browsers : Careful(c)
      PROVE  \A c \in Browsers : Settled(c)' /\ Remembers(c)
  BY <1>1, <1>2, CarefulRow
<1>3. CASE UNCHANGED vars
  <2>1. \A c \in Browsers : Careful(c)
    BY <1>3, SameRow DEF vars
  <2> QED
    BY <1>1, <1>2, <2>1 DEF ReleaseInv
<1>4. CASE Next
  <2>1. ASSUME NEW b \in Browsers,
               \/ \E s \in OptBrowser, reauth \in BOOLEAN : StartRead(b, s, reauth)
               \/ \E f \in OptBrowser : StartCreate(b, f)
               \/ SignIn(b) \/ Handoff(b) \/ Consent(b) \/ ProviderEnds(b) \/ Read(b) \/ Age(b)
               \/ TokenAges(b)
        PROVE  \A c \in Browsers : Careful(c)
    BY <1>1, <2>1, AttemptCareful
  <2>2. ASSUME NEW b \in Browsers,
               Cancel(b) \/ FinishCancelled(b) \/ Logout(b) \/ MarkExpired(b) \/ Delete(b)
        PROVE  \A c \in Browsers : Careful(c)
    BY <1>1, <2>2, EndCareful
  <2>3. ASSUME NEW b \in Browsers,
               Refresh(b) \/ RefreshCommit(b) \/ RefreshFails(b) \/ Reject(b) \/ Crash(b)
        PROVE  \A c \in Browsers : Careful(c)
    BY <1>1, <2>3, RefreshCareful
  <2>4. ASSUME NEW b \in Browsers, CallbackCommit(b)
        PROVE  \A c \in Browsers : Careful(c)
    BY <2>4, CallbackCareful
  <2>5. ASSUME NEW b \in Browsers,
               (\E n \in Browsers : CallbackExchange(b, n)) \/ ReleaseProvider(b) \/ ReleaseGrant(b)
        PROVE  \A c \in Browsers : Settled(c)' /\ Remembers(c)
    BY <1>1, <2>5, LockedSettled
  <2>6. \A c \in Browsers : Settled(c)' /\ Remembers(c)
    BY <1>2, <1>4, <2>1, <2>2, <2>3, <2>4, <2>5 DEF Next
  <2> QED
    BY <1>1, <2>6 DEF ReleaseInv
<1> QED
  BY <1>3, <1>4

-----------------------------------------------------------------------------
(* Who may sign a provider session out.                                     *)

\* The attempt that began provider session k has ended in a login, or k is that login's.
Passed(k) == rows[k].status = "deleted" \/ rows[k].authenticated

\* The same after a step.
PassedNext(k) == rows'[k].status = "deleted" \/ rows'[k].authenticated

\* A row holds the provider session that its own attempt began, or one that a login had
\* before; an attempt that would sign out what it holds began it itself, and the row it
\* started from was a login.
Handed(b) ==
  /\ rows[b].jar \in {NoBrowser, b} \/ Passed(rows[b].jar)
  /\ rows[b].provider \in {NoBrowser, b} \/ Passed(rows[b].provider)
  /\ ~rows[b].authenticated /\ rows[b].revokeProvider => rows[b].jar \in {NoBrowser, b}
  /\ rows[b].previous # NoBrowser => Passed(rows[b].previous)

\* Login n and the login p it replaced: p signs nothing out that n uses.
Apart(n, p) ==
  /\ rows[n].status \in {"stored", "deleted"} /\ rows[p].status \in {"stored", "deleted"}
  /\ rows[p].authenticated /\ rows[p].revokeProvider /\ rows[n].authenticated
       => rows[n].provider # rows[p].provider

\* The same after a step.
ApartNext(n, p) ==
  /\ rows'[n].status \in {"stored", "deleted"} /\ rows'[p].status \in {"stored", "deleted"}
  /\ rows'[p].authenticated /\ rows'[p].revokeProvider /\ rows'[n].authenticated
       => rows'[n].provider # rows'[p].provider

LatestApart ==
  latest.replaced # NoBrowser =>
    /\ latest.login \in Browsers /\ latest.replaced \in Browsers
    /\ Apart(latest.login, latest.replaced)

TakeoverInv == ReleaseInv /\ (\A b \in Browsers : Handed(b)) /\ LatestApart

\* What a step other than a start and a callback may make of row c.
Kept(c) ==
  \/ rows'[c] = Gone
  \/ /\ rows'[c].authenticated = rows[c].authenticated
     /\ rows'[c].status = rows[c].status \/ rows[c].status = "starting"
     /\ rows'[c].revokeProvider = rows[c].revokeProvider
     /\ rows'[c].previous = rows[c].previous
     /\ rows'[c].jar \in {rows[c].jar, NoBrowser, c}
     /\ rows'[c].provider \in {rows[c].provider, rows[c].jar, NoBrowser, c}
     /\ rows[c].authenticated => rows'[c].provider = rows[c].provider

\* What a deleted row holds.
LEMMA GoneHolds ==
  /\ Gone.status = "deleted" /\ ~Gone.authenticated
  /\ Gone.jar = NoBrowser /\ Gone.provider = NoBrowser /\ Gone.previous = NoBrowser
BY DEF Gone, Unissued

\* A login or a deleted row is never anything else again.
LEMMA PassedStays ==
  ASSUME NEW k, Kept(k), Passed(k)
  PROVE  PassedNext(k)
BY GoneHolds DEF Kept, Passed, PassedNext

\* Rows that are kept keep what the invariant says of them.
LEMMA KeptHanded ==
  ASSUME TakeoverInv, \A c \in Browsers : Kept(c), latest' = latest
  PROVE  (\A b \in Browsers : Handed(b)') /\ LatestApart'
<1>1. /\ \A c \in Browsers : rows[c] \in RowState /\ Handed(c)
      /\ LatestApart
  BY DEF TakeoverInv, ReleaseInv, SessionInv, TypeOK
<1>2. \A k \in Browsers : Passed(k) => PassedNext(k)
  BY PassedStays
<1>3. ASSUME NEW b \in Browsers PROVE Handed(b)'
  <2>1. CASE rows'[b] = Gone
    BY <2>1, GoneHolds DEF Handed
  <2>2. CASE rows'[b] # Gone
    <3>1. rows[b].jar \in OptBrowser /\ rows[b].provider \in OptBrowser
      BY <1>1 DEF RowState
    <3>2. /\ rows[b].jar \in {NoBrowser, b} \/ PassedNext(rows[b].jar)
          /\ rows[b].provider \in {NoBrowser, b} \/ PassedNext(rows[b].provider)
      BY <1>1, <1>2, <3>1 DEF Handed, OptBrowser
    <3>3. /\ rows'[b].jar \in {NoBrowser, b} \/ PassedNext(rows'[b].jar)
          /\ rows'[b].provider \in {NoBrowser, b} \/ PassedNext(rows'[b].provider)
      <4>1. rows'[b].jar \in {rows[b].jar, NoBrowser, b}
            /\ rows'[b].provider \in {rows[b].provider, rows[b].jar, NoBrowser, b}
        BY <2>2 DEF Kept
      <4> QED
        BY <3>2, <4>1
    <3>4. ~rows'[b].authenticated /\ rows'[b].revokeProvider => rows'[b].jar \in {NoBrowser, b}
      BY <1>1, <2>2 DEF Kept, Handed
    <3>5. rows'[b].previous # NoBrowser => PassedNext(rows'[b].previous)
      <4>1. rows'[b].previous = rows[b].previous /\ rows[b].previous \in OptBrowser
        BY <1>1, <2>2 DEF Kept, RowState
      <4> QED
        BY <1>1, <1>2, <4>1 DEF Handed, OptBrowser
    <3> QED
      BY <3>3, <3>4, <3>5 DEF Handed, Passed, PassedNext
  <2> QED
    BY <2>1, <2>2
<1>4. ASSUME NEW n \in Browsers, NEW p \in Browsers, Apart(n, p) PROVE Apart(n, p)'
  <2>1. Kept(n) /\ Kept(p)
    OBVIOUS
  <2>2. rows'[n].status \in {"stored", "deleted"} /\ rows'[p].status \in {"stored", "deleted"}
    BY <1>4, <2>1, GoneHolds DEF Kept, Apart
  <2>3. ASSUME rows'[p].authenticated, rows'[p].revokeProvider, rows'[n].authenticated
        PROVE  rows'[n].provider # rows'[p].provider
    BY <1>4, <2>1, <2>3, GoneHolds DEF Kept, Apart
  <2> QED
    BY <2>2, <2>3 DEF Apart
<1> QED
  BY <1>1, <1>3, <1>4 DEF LatestApart

\* A row that is rewritten with the same holdings is kept.
LEMMA OneKept ==
  ASSUME SessionInv, NEW b \in Browsers, NEW r, rows' = [rows EXCEPT ![b] = r] \/ rows' = rows,
         \/ r = Gone
         \/ /\ r.authenticated = rows[b].authenticated /\ r.status = rows[b].status
            /\ r.revokeProvider = rows[b].revokeProvider /\ r.previous = rows[b].previous
            /\ r.jar \in {rows[b].jar, NoBrowser, b}
            /\ r.provider \in {rows[b].provider, rows[b].jar, NoBrowser, b}
            /\ rows[b].authenticated => r.provider = rows[b].provider
  PROVE  \A c \in Browsers : Kept(c)
<1> SUFFICES ASSUME NEW c \in Browsers PROVE Kept(c)
  OBVIOUS
<1>1. CASE rows'[c] = rows[c]
  BY <1>1 DEF Kept
<1>2. CASE rows'[c] # rows[c]
  <2>1. c = b /\ rows'[b] = r
    BY <1>2 DEF SessionInv, TypeOK
  <2> QED
    BY <2>1 DEF Kept
<1> QED
  BY <1>1, <1>2

\* A revoked row holds what it held.
LEMMA RevokedKept ==
  ASSUME SessionInv, NEW b \in Browsers, NEW pending \in BOOLEAN
  PROVE  /\ Revoked(rows[b], pending).jar = rows[b].jar
         /\ Revoked(rows[b], pending).previous = rows[b].previous
         /\ Revoked(rows[b], pending).authenticated = rows[b].authenticated
         /\ Revoked(rows[b], pending).provider = rows[b].provider
         /\ Revoked(rows[b], pending).revokeProvider = rows[b].revokeProvider
         /\ Revoked(rows[b], pending).status = rows[b].status
<1>1. rows[b] \in RowState
  BY DEF SessionInv, TypeOK
<1> QED
  BY <1>1 DEF Revoked, RowState

\* So does a cancelled one.
LEMMA CancelledKept ==
  ASSUME SessionInv, NEW b \in Browsers
  PROVE  /\ CancelledRow(rows[b]).jar = rows[b].jar
         /\ CancelledRow(rows[b]).previous = rows[b].previous
         /\ CancelledRow(rows[b]).authenticated = rows[b].authenticated
         /\ CancelledRow(rows[b]).provider = rows[b].provider
         /\ CancelledRow(rows[b]).revokeProvider = rows[b].revokeProvider
         /\ CancelledRow(rows[b]).status = rows[b].status
<1> DEFINE r == Revoked(rows[b], TRUE)
<1>1. r \in RowState
  <2>1. rows[b] \in RowState
    BY DEF SessionInv, TypeOK
  <2> QED
    BY <2>1, RevokedRow
<1>2. CancelledRow(rows[b]) = [r EXCEPT !.transaction = "used"]
  BY DEF CancelledRow
<1>3. /\ r.jar = rows[b].jar /\ r.previous = rows[b].previous /\ r.authenticated = rows[b].authenticated
      /\ r.provider = rows[b].provider /\ r.revokeProvider = rows[b].revokeProvider
      /\ r.status = rows[b].status
  BY RevokedKept
<1> HIDE DEF r
<1> QED
  BY <1>1, <1>2, <1>3 DEF RowState

\* The actions that leave every row with what it held.
LEMMA AttemptKept ==
  ASSUME SessionInv, NEW b \in Browsers,
         \/ SignIn(b) \/ Handoff(b) \/ Consent(b) \/ ProviderEnds(b) \/ Read(b) \/ Age(b)
         \/ TokenAges(b) \/ RefreshCommit(b)
         \/ (\E n \in Browsers : CallbackExchange(b, n))
         \/ Refresh(b) \/ ReleaseProvider(b) \/ ReleaseGrant(b) \/ Crash(b)
  PROVE  (\A c \in Browsers : Kept(c)) /\ latest' = latest
<1>1. rows[b] \in RowState
  BY DEF SessionInv, TypeOK
<1>2. CASE \/ Consent(b) \/ ProviderEnds(b) \/ Read(b) \/ (\E n \in Browsers : CallbackExchange(b, n))
           \/ Refresh(b) \/ ReleaseProvider(b) \/ Crash(b)
  <2>1. rows' = rows /\ latest' = latest
    BY <1>2 DEF Consent, ProviderEnds, Read, CallbackExchange, Refresh, ReleaseProvider, Crash, vars
  <2> QED
    BY <2>1 DEF Kept
<1>3. CASE SignIn(b)
  <2> DEFINE r == [rows[b] EXCEPT !.jar = b]
  <2>1. (rows' = [rows EXCEPT ![b] = r] \/ rows' = rows) /\ latest' = latest
    BY <1>3 DEF SignIn
  <2>2. /\ r.authenticated = rows[b].authenticated /\ r.status = rows[b].status
        /\ r.previous = rows[b].previous
        /\ r.revokeProvider = rows[b].revokeProvider /\ r.jar = b /\ r.provider = rows[b].provider
    BY <1>1 DEF RowState
  <2> HIDE DEF r
  <2> QED
    BY <2>1, <2>2, OneKept
<1>4. CASE Handoff(b)
  <2> DEFINE r == [rows[b] EXCEPT !.provider = rows[b].jar]
  <2>1. rows' = [rows EXCEPT ![b] = r] /\ latest' = latest /\ ~rows[b].authenticated
    BY <1>4 DEF Handoff, Unchanged4, Attempting
  <2>2. /\ r.authenticated = rows[b].authenticated /\ r.status = rows[b].status
        /\ r.previous = rows[b].previous
        /\ r.revokeProvider = rows[b].revokeProvider /\ r.jar = rows[b].jar
        /\ r.provider = rows[b].jar
    BY <1>1 DEF RowState
  <2> HIDE DEF r
  <2> QED
    BY <2>1, <2>2, OneKept
<1>5. CASE Age(b) \/ TokenAges(b) \/ RefreshCommit(b) \/ ReleaseGrant(b)
  <2>1. PICK r : /\ rows' = [rows EXCEPT ![b] = r] \/ rows' = rows
                 /\ \/ r = [rows[b] EXCEPT !.aged = TRUE]
                    \/ r = [rows[b] EXCEPT !.tokenOld = TRUE]
                    \/ r = [rows[b] EXCEPT !.generation = grant[b].generation, !.tokenOld = FALSE]
                    \/ r = [rows[b] EXCEPT !.pending = FALSE]
    <3>1. CASE Age(b)
      BY <3>1 DEF Age
    <3>2. CASE TokenAges(b)
      BY <3>2 DEF TokenAges
    <3>3. CASE RefreshCommit(b)
      <4> DEFINE r == [rows[b] EXCEPT !.generation = grant[b].generation, !.tokenOld = FALSE]
      <4>1. rows' = [rows EXCEPT ![b] = r]
        BY <3>3 DEF RefreshCommit, SessionInv, TypeOK
      <4> QED
        BY <4>1
    <3>4. CASE ReleaseGrant(b)
      BY <3>4 DEF ReleaseGrant
    <3> QED
      BY <1>5, <3>1, <3>2, <3>3, <3>4
  <2>2. latest' = latest
    BY <1>5 DEF Age, TokenAges, RefreshCommit, ReleaseGrant, Unchanged4
  <2>3. /\ r.authenticated = rows[b].authenticated /\ r.status = rows[b].status
        /\ r.previous = rows[b].previous
        /\ r.revokeProvider = rows[b].revokeProvider /\ r.jar = rows[b].jar
        /\ r.provider = rows[b].provider
    BY <1>1, <2>1 DEF RowState
  <2> QED
    BY <2>1, <2>2, <2>3, OneKept
<1> QED
  BY <1>2, <1>3, <1>4, <1>5

\* The ends of an attempt and of a login: revoked, cancelled, cleaned and deleted rows.
LEMMA EndKept ==
  ASSUME SessionInv, NEW b \in Browsers,
         \/ Cancel(b) \/ FinishCancelled(b) \/ Logout(b) \/ MarkExpired(b) \/ Delete(b)
         \/ RefreshFails(b) \/ Reject(b)
  PROVE  (\A c \in Browsers : Kept(c)) /\ latest' = latest
<1>1. rows[b] \in RowState
  BY DEF SessionInv, TypeOK
<1>2. CASE Logout(b) \/ MarkExpired(b) \/ RefreshFails(b) \/ Reject(b)
  <2>1. \E pending \in BOOLEAN : rows' = [rows EXCEPT ![b] = Revoked(rows[b], pending)]
    <3>1. CASE MarkExpired(b)
      BY <3>1 DEF MarkExpired
    <3>2. CASE Logout(b) \/ RefreshFails(b) \/ Reject(b)
      <4>1. rows' = [rows EXCEPT ![b] = Revoke(rows[b])]
        BY <3>2 DEF Logout, RefreshFails, Reject
      <4>2. (IF rows[b].revoked THEN rows[b].pending ELSE rows[b].authenticated) \in BOOLEAN
        BY <1>1 DEF RowState
      <4> QED
        BY <4>1, <4>2 DEF Revoke
    <3> QED
      BY <1>2, <3>1, <3>2
  <2>2. PICK pending \in BOOLEAN : rows' = [rows EXCEPT ![b] = Revoked(rows[b], pending)]
    BY <2>1
  <2>3. latest' = latest
    BY <1>2 DEF Logout, MarkExpired, RefreshFails, Reject, Unchanged4
  <2> DEFINE r == Revoked(rows[b], pending)
  <2>4. /\ r.authenticated = rows[b].authenticated /\ r.status = rows[b].status
        /\ r.previous = rows[b].previous
        /\ r.revokeProvider = rows[b].revokeProvider /\ r.jar = rows[b].jar
        /\ r.provider = rows[b].provider
    BY RevokedKept
  <2>5. rows' = [rows EXCEPT ![b] = r]
    BY <2>2
  <2> HIDE DEF r
  <2> QED
    BY <2>3, <2>4, <2>5, OneKept
<1>3. CASE Cancel(b)
  <2> DEFINE r == CancelledRow(rows[b])
  <2>1. rows' = [rows EXCEPT ![b] = r] /\ latest' = latest
    BY <1>3 DEF Cancel, Unchanged4
  <2>2. /\ r.authenticated = rows[b].authenticated /\ r.status = rows[b].status
        /\ r.previous = rows[b].previous
        /\ r.revokeProvider = rows[b].revokeProvider /\ r.jar = rows[b].jar
        /\ r.provider = rows[b].provider
    BY CancelledKept
  <2> HIDE DEF r
  <2> QED
    BY <2>1, <2>2, OneKept
<1>4. CASE FinishCancelled(b)
  <2> DEFINE r == Cleaned(rows[b])
  <2>1. (rows' = [rows EXCEPT ![b] = r] \/ rows' = rows) /\ latest' = latest /\ ~rows[b].authenticated
    BY <1>4 DEF FinishCancelled
  <2>2. /\ r.authenticated = rows[b].authenticated /\ r.status = rows[b].status
        /\ r.previous = rows[b].previous
        /\ r.revokeProvider = rows[b].revokeProvider /\ r.jar = NoBrowser
        /\ r.provider = NoBrowser
    BY <1>1 DEF Cleaned, RowState
  <2> HIDE DEF r
  <2> QED
    BY <2>1, <2>2, OneKept
<1>5. CASE Delete(b)
  <2>1. rows' = [rows EXCEPT ![b] = Gone] /\ latest' = latest
    BY <1>5 DEF Delete, Unchanged4
  <2> QED
    BY <2>1, OneKept
<1> QED
  BY <1>2, <1>3, <1>4, <1>5

\* /auth/start stores an attempt, and cancels the one of the flow cookie.
LEMMA StartCreateKept ==
  ASSUME SessionInv, NEW b \in Browsers, NEW f \in OptBrowser, StartCreate(b, f)
  PROVE  (\A c \in Browsers : Kept(c)) /\ latest' = latest
<1>1. latest' = latest /\ rows[b].status = "starting"
  BY DEF StartCreate, Unchanged4
<1>2. \A c \in Browsers : rows[c] \in RowState
  BY DEF SessionInv, TypeOK
<1>3. ASSUME NEW c \in Browsers PROVE Kept(c)
  <2>1. CASE c = b
    <3> DEFINE r == [rows[b] EXCEPT !.status = "stored", !.transaction = "open"]
    <3>1. rows'[c] = r
      BY <2>1 DEF StartCreate
    <3>2. /\ r.authenticated = rows[b].authenticated /\ r.previous = rows[b].previous
          /\ r.revokeProvider = rows[b].revokeProvider /\ r.jar = rows[b].jar
          /\ r.provider = rows[b].provider
      BY <1>2 DEF RowState
    <3> HIDE DEF r
    <3> QED
      BY <1>1, <2>1, <3>1, <3>2 DEF Kept
  <2>2. CASE c # b /\ c = f
    <3>1. rows'[c] = CancelledRow(rows[c])
      BY <2>2 DEF StartCreate
    <3> QED
      BY <3>1, CancelledKept DEF Kept
  <2>3. CASE c # b /\ c # f
    <3>1. rows'[c] = rows[c]
      BY <2>3 DEF StartCreate
    <3> QED
      BY <3>1 DEF Kept
  <2> QED
    BY <2>1, <2>2, <2>3
<1> QED
  BY <1>1, <1>3

\* An attempt starts with the provider session of the login it steps up, which it will
\* not sign out, or with none.
LEMMA StartReadHanded ==
  ASSUME TakeoverInv, NEW b \in Browsers, NEW s \in OptBrowser, NEW reauth \in BOOLEAN,
         StartRead(b, s, reauth)
  PROVE  (\A c \in Browsers : Handed(c)') /\ LatestApart'
<1> DEFINE j == IF reauth /\ s # NoBrowser THEN rows[s].jar ELSE NoBrowser
           r == [rows[b] EXCEPT !.status = "starting", !.previous = s, !.jar = j,
                                !.revokeProvider = ~reauth \/ s = NoBrowser]
<1>1. /\ rows' = [rows EXCEPT ![b] = r] /\ latest' = latest /\ rows[b] = Unissued
      /\ s # NoBrowser => rows[s].authenticated
  BY DEF StartRead, Unchanged4, NextId, Fresh
<1>2. /\ SessionInv /\ LatestApart /\ \A c \in Browsers : rows[c] \in RowState /\ Handed(c)
  BY DEF TakeoverInv, ReleaseInv, SessionInv, TypeOK
<1>3. r.previous = s /\ r.jar = j /\ r.provider = NoBrowser /\ ~r.authenticated
      /\ r.revokeProvider = (~reauth \/ s = NoBrowser) /\ rows[b].status = "new" /\ ~rows[b].authenticated
  BY <1>1, <1>2 DEF Unissued, RowState
<1>4. j = NoBrowser \/ (j \in Browsers /\ Passed(j) /\ reauth /\ s # NoBrowser)
  <2>1. CASE reauth /\ s # NoBrowser
    <3>1. s \in Browsers /\ Passed(s) /\ rows[s].jar \in OptBrowser /\ Handed(s)
      BY <1>1, <1>2, <2>1 DEF OptBrowser, RowState, Passed
    <3> QED
      BY <2>1, <3>1 DEF Handed, OptBrowser
  <2>2. CASE ~(reauth /\ s # NoBrowser)
    BY <2>2
  <2> QED
    BY <2>1, <2>2
<1> HIDE DEF r, j
<1>5. rows'[b] = r /\ \A c \in Browsers : c # b => rows'[c] = rows[c]
  BY <1>1, <1>2 DEF SessionInv, TypeOK
<1>6. \A k \in Browsers : Passed(k) => PassedNext(k)
  BY <1>3, <1>5 DEF Passed, PassedNext
<1>7. ASSUME NEW c \in Browsers PROVE Handed(c)'
  <2>1. CASE c = b
    <3>1. rows'[c].jar = NoBrowser \/ PassedNext(rows'[c].jar)
      BY <1>3, <1>4, <1>5, <1>6, <2>1
    <3>2. rows'[c].previous # NoBrowser => PassedNext(rows'[c].previous)
      BY <1>1, <1>3, <1>5, <1>6, <2>1 DEF OptBrowser, Passed
    <3>3. ~rows'[c].authenticated /\ rows'[c].revokeProvider => rows'[c].jar = NoBrowser
      BY <1>3, <1>4, <1>5, <2>1
    <3> QED
      BY <1>3, <1>5, <2>1, <3>1, <3>2, <3>3 DEF Handed, Passed, PassedNext
  <2>2. CASE c # b
    <3>1. rows'[c] = rows[c] /\ Handed(c)
      BY <1>2, <1>5, <2>2
    <3>2. rows[c].jar \in OptBrowser /\ rows[c].provider \in OptBrowser /\ rows[c].previous \in OptBrowser
      BY <1>2 DEF RowState
    <3>3. /\ rows[c].jar \in {NoBrowser, c} \/ PassedNext(rows[c].jar)
          /\ rows[c].provider \in {NoBrowser, c} \/ PassedNext(rows[c].provider)
          /\ rows[c].previous # NoBrowser => PassedNext(rows[c].previous)
      BY <1>6, <3>1, <3>2 DEF Handed, OptBrowser
    <3> QED
      BY <3>1, <3>3 DEF Handed, Passed, PassedNext
  <2> QED
    BY <2>1, <2>2
<1>8. ASSUME NEW n \in Browsers, NEW p \in Browsers, Apart(n, p) PROVE Apart(n, p)'
  <2>1. n # b /\ p # b
    BY <1>3, <1>8 DEF Apart
  <2> QED
    BY <1>5, <1>8, <2>1 DEF Apart
<1> QED
  BY <1>1, <1>2, <1>7, <1>8 DEF LatestApart

\* The new login takes over what the attempt held, and the login it replaces is told.
LEMMA CallbackHanded ==
  ASSUME TakeoverInv, NEW b \in Browsers, CallbackCommit(b)
  PROVE  (\A c \in Browsers : Handed(c)') /\ LatestApart'
<1> DEFINE n == busy[b].new
           p == rows[b].previous
           new == SignedIn(b)
           old == Retired(p, rows[b].provider)
<1>0. SessionInv /\ \A c \in Browsers : rows[c] \in RowState /\ Handed(c)
  BY DEF TakeoverInv, ReleaseInv, SessionInv, TypeOK
<1>1. /\ busy[b].op = "callback" /\ rows[n].status = "new" /\ n \in Browsers /\ Stored(b)
      /\ p # NoBrowser => Stored(p) /\ Free(p) /\ Passed(p)
      /\ rows' = [c \in Browsers |-> CASE c = n -> new [] c = b -> Gone [] c = p -> old
                                       [] OTHER -> rows[c]]
      /\ latest' = [login |-> n, replaced |-> p]
  BY <1>0 DEF CallbackCommit, SessionInv, LockInv, Awaited, Free, Handed
<1>2. p \in OptBrowser /\ rows[b].jar \in OptBrowser /\ rows[b].provider \in OptBrowser
  BY <1>0 DEF RowState
<1>3. /\ new.status = "stored" /\ new.authenticated /\ new.jar = rows[b].jar
      /\ new.provider = rows[b].provider /\ new.previous = NoBrowser
  BY <1>2 DEF SignedIn, Unissued
<1>4. p \in Browsers =>
        /\ rows[p].status = "stored" /\ rows[p].authenticated
        /\ old.status = "stored" /\ old.authenticated
        /\ old.jar = rows[p].jar /\ old.provider = rows[p].provider /\ old.previous = rows[p].previous
        /\ old.revokeProvider = (rows[p].provider # rows[b].provider)
  <2> SUFFICES ASSUME p \in Browsers
               PROVE  /\ rows[p].status = "stored" /\ rows[p].authenticated
                      /\ old.status = "stored" /\ old.authenticated
                      /\ old.jar = rows[p].jar /\ old.provider = rows[p].provider
                      /\ old.previous = rows[p].previous
                      /\ old.revokeProvider = (rows[p].provider # rows[b].provider)
    OBVIOUS
  <2>1. rows[p].status = "stored" /\ rows[p].authenticated
    BY <1>1, Bound DEF Stored, Passed, NoBrowser
  <2> DEFINE r == Revoked(rows[p], TRUE)
  <2>2. r \in RowState
    BY <1>0, RevokedRow
  <2>3. /\ r.jar = rows[p].jar /\ r.authenticated = rows[p].authenticated
        /\ r.provider = rows[p].provider /\ r.previous = rows[p].previous
        /\ r.status = rows[p].status
    BY <1>0, RevokedKept
  <2>4. old = [r EXCEPT !.revokeProvider = rows[p].provider # rows[b].provider]
    BY DEF Retired
  <2> HIDE DEF r, old
  <2> QED
    BY <2>1, <2>2, <2>3, <2>4 DEF RowState
<1>5. n # b /\ p # b /\ p # n
  BY <1>0, <1>1, Bound DEF SessionInv, LockInv, Free, Stored, NoBrowser
<1> HIDE DEF n, p, new, old
<1>6. /\ rows'[n] = new /\ rows'[b] = Gone
      /\ \A c \in Browsers : c = p => rows'[c] = old
      /\ \A c \in Browsers : c \notin {n, b, p} => rows'[c] = rows[c]
  BY <1>1, <1>5
<1>7. PassedNext(n) /\ PassedNext(b) /\ \A k \in Browsers : Passed(k) => PassedNext(k)
  BY <1>3, <1>4, <1>6, GoneHolds DEF Passed, PassedNext
<1>8. ASSUME NEW c \in Browsers PROVE Handed(c)'
  <2>1. CASE c = n
    <3>1. rows'[c].jar = NoBrowser \/ PassedNext(rows'[c].jar)
      BY <1>0, <1>2, <1>3, <1>6, <1>7, <2>1 DEF Handed, OptBrowser
    <3>2. rows'[c].provider = NoBrowser \/ PassedNext(rows'[c].provider)
      BY <1>0, <1>2, <1>3, <1>6, <1>7, <2>1 DEF Handed, OptBrowser
    <3> QED
      BY <1>3, <1>6, <2>1, <3>1, <3>2 DEF Handed, Passed, PassedNext
  <2>2. CASE c = b
    BY <1>6, <2>2, GoneHolds DEF Handed
  <2>3. CASE c # n /\ c # b
    <3>1. /\ rows'[c].jar = rows[c].jar /\ rows'[c].provider = rows[c].provider
          /\ rows'[c].previous = rows[c].previous
          /\ rows'[c].authenticated = rows[c].authenticated
          /\ ~rows[c].authenticated => rows'[c].revokeProvider = rows[c].revokeProvider
      <4>1. CASE c = p
        <5>1. rows'[c] = old /\ p \in Browsers
          BY <1>6, <4>1
        <5> QED
          BY <1>4, <4>1, <5>1
      <4>2. CASE c # p
        <5>1. rows'[c] = rows[c]
          BY <1>6, <2>3, <4>2
        <5> QED
          BY <5>1
      <4> QED
        BY <4>1, <4>2
    <3>2. rows[c].jar \in OptBrowser /\ rows[c].provider \in OptBrowser /\ rows[c].previous \in OptBrowser
      BY <1>0 DEF RowState
    <3>3. /\ rows[c].jar \in {NoBrowser, c} \/ PassedNext(rows[c].jar)
          /\ rows[c].provider \in {NoBrowser, c} \/ PassedNext(rows[c].provider)
          /\ rows[c].previous # NoBrowser => PassedNext(rows[c].previous)
      BY <1>0, <1>7, <3>2 DEF Handed, OptBrowser
    <3>4. ~rows'[c].authenticated /\ rows'[c].revokeProvider => rows'[c].jar \in {NoBrowser, c}
      BY <1>0, <3>1 DEF Handed
    <3> QED
      BY <3>1, <3>3, <3>4 DEF Handed, Passed, PassedNext
  <2> QED
    BY <2>1, <2>2, <2>3
<1>9. p # NoBrowser => p \in Browsers /\ ApartNext(n, p)
  <2> SUFFICES ASSUME p # NoBrowser PROVE p \in Browsers /\ ApartNext(n, p)
    OBVIOUS
  <2>1. p \in Browsers /\ rows'[p] = old /\ rows'[n] = new
    BY <1>2, <1>6 DEF OptBrowser
  <2> QED
    BY <1>3, <1>4, <2>1 DEF ApartNext
<1>10. latest'.login = n /\ latest'.replaced = p
  BY <1>1
<1> QED
  BY <1>1, <1>8, <1>9, <1>10 DEF LatestApart, Apart, ApartNext

\* Initially nobody holds anything.
LEMMA InitTakeover == Init => TakeoverInv
<1>1. Init => \A b \in Browsers : Handed(b)
  BY DEF Init, Unissued, Handed
<1>2. Init => LatestApart
  BY DEF Init, LatestApart
<1> QED
  BY <1>1, <1>2, InitRelease DEF TakeoverInv

\* Every step keeps who holds what.
LEMMA StepTakeover == TakeoverInv /\ [Next]_vars => TakeoverInv'
<1> SUFFICES ASSUME TakeoverInv, [Next]_vars PROVE TakeoverInv'
  OBVIOUS
<1>1. ReleaseInv' /\ SessionInv
  BY StepRelease DEF TakeoverInv, ReleaseInv
<1>2. CASE UNCHANGED vars
  <2>1. (\A c \in Browsers : Kept(c)) /\ latest' = latest
    BY <1>2 DEF vars, Kept
  <2> QED
    BY <1>1, <2>1, KeptHanded DEF TakeoverInv
<1>3. ASSUME NEW b \in Browsers,
             \/ \E s \in OptBrowser, reauth \in BOOLEAN : StartRead(b, s, reauth)
             \/ CallbackCommit(b)
      PROVE  TakeoverInv'
  <2>1. (\A c \in Browsers : Handed(c)') /\ LatestApart'
    BY <1>3, StartReadHanded, CallbackHanded
  <2> QED
    BY <1>1, <2>1 DEF TakeoverInv
<1>4. ASSUME NEW b \in Browsers,
             \/ SignIn(b) \/ Handoff(b) \/ Consent(b) \/ ProviderEnds(b) \/ Read(b) \/ Age(b)
             \/ TokenAges(b) \/ RefreshCommit(b)
             \/ (\E n \in Browsers : CallbackExchange(b, n))
             \/ Refresh(b) \/ ReleaseProvider(b) \/ ReleaseGrant(b) \/ Crash(b)
      PROVE  TakeoverInv'
  BY <1>1, <1>4, AttemptKept, KeptHanded DEF TakeoverInv
<1>5. ASSUME NEW b \in Browsers,
             \/ Cancel(b) \/ FinishCancelled(b) \/ Logout(b) \/ MarkExpired(b) \/ Delete(b)
             \/ RefreshFails(b) \/ Reject(b)
      PROVE  TakeoverInv'
  BY <1>1, <1>5, EndKept, KeptHanded DEF TakeoverInv
<1>6. ASSUME NEW b \in Browsers, NEW f \in OptBrowser, StartCreate(b, f)
      PROVE  TakeoverInv'
  BY <1>1, <1>6, StartCreateKept, KeptHanded DEF TakeoverInv
<1> QED
  BY <1>2, <1>3, <1>4, <1>5, <1>6 DEF Next

\* The clean-up of an attempt signs out the provider session that it began, which no
\* login has; the release of a replaced login one that its replacement does not use.
LEMMA SignOutIsApart ==
  ASSUME TakeoverInv, NEW b \in Browsers, NEW k \in Browsers, SignsOut(b, k)
  PROVE  IF rows[b].authenticated THEN b = latest.replaced => latest.login \notin Using(k)
                                  ELSE Using(k) = {}
<1>1. /\ \A c \in Browsers : rows[c] \in RowState /\ Handed(c)
      /\ LatestApart /\ kratos \in [Browsers -> {"none", "live", "out"}]
  BY DEF TakeoverInv, ReleaseInv, SessionInv, TypeOK
<1>2. CASE ReleaseProvider(b)
  <2>1. /\ rows[b].authenticated /\ rows[b].revokeProvider
        /\ kratos' = [kratos EXCEPT ![rows[b].provider] = "out"]
    BY <1>2 DEF SignsOut, ReleaseProvider
  <2>2. rows[b].provider = k
    BY <1>1, <2>1 DEF SignsOut
  <2>3. ASSUME b = latest.replaced, latest.login \in Using(k) PROVE FALSE
    <3>1. Apart(latest.login, b) /\ latest.login \in Browsers
      BY <1>1, <2>3, Bound DEF LatestApart, NoBrowser
    <3>2. rows[latest.login].authenticated /\ rows[latest.login].provider = k
      BY <2>3 DEF Using, Established
    <3> QED
      BY <2>1, <2>2, <3>1, <3>2 DEF Apart
  <2> QED
    BY <2>1, <2>3
<1>3. CASE FinishCancelled(b)
  <2>1. /\ Stored(b) /\ ~rows[b].authenticated
        /\ rows[b].revokeProvider /\ kratos' = [kratos EXCEPT ![rows[b].jar] = "out"]
    BY <1>3 DEF SignsOut, FinishCancelled
  <2>2. rows[b].jar = k
    BY <1>1, <2>1 DEF SignsOut
  <2>3. k = b
    BY <1>1, <2>1, <2>2, Bound DEF Handed, NoBrowser
  <2>4. ASSUME NEW s \in Using(k) PROVE FALSE
    <3>1. s \in Browsers /\ rows[s].authenticated /\ rows[s].provider = b
      BY <2>3 DEF Using, Established
    <3>2. b = s \/ Passed(b)
      BY <1>1, <3>1, Bound DEF Handed, NoBrowser
    <3> QED
      BY <2>1, <3>1, <3>2 DEF Passed, Stored
  <2> QED
    BY <2>1, <2>4
<1> QED
  BY <1>2, <1>3 DEF SignsOut

-----------------------------------------------------------------------------
\* The rows, the locks and the two services stay of their types: the number of the token
\* in a row never exceeds the number of its refreshes (session.ts, authenticatedState).
THEOREM SessionTypeCorrect == Spec => []TypeOK
<1>1. Spec => []SessionInv
  BY InitSession, StepSession, PTL DEF Spec
<1>2. SessionInv => TypeOK
  BY DEF SessionInv
<1> QED
  BY <1>1, <1>2, PTL

\* The refresh token of a row that may be served is the one Hydra expects next, whatever
\* commits were lost between Hydra's answer and the row (session.ts, authenticatedState).
THEOREM ServedTokens == Spec => []ServedTokensAreCurrent
<1>1. Spec => []SessionInv
  BY InitSession, StepSession, PTL DEF Spec
<1>2. SessionInv => ServedTokensAreCurrent
  BY DEF SessionInv, Served, ServedTokensAreCurrent, Established, Usable
<1> QED
  BY <1>1, <1>2, PTL

\* No row of a login is deleted before its grant is revoked and its provider session is
\* out, unless that session was taken over (session.ts, maintainSessions).
THEOREM NothingForgotten == Spec => NothingIsForgotten
<1>1. ASSUME ReleaseInv, [Next]_vars, NEW s \in Browsers, Deleted(s), rows[s].authenticated
      PROVE  grant[s].state = "revoked" /\ (rows[s].revokeProvider => ~Live(rows[s].provider))
  <2>1. grant[s].state = "revoked" /\ SignedOut(s)
    BY <1>1, StepRelease DEF Remembers
  <2>2. rows[s].provider \in OptBrowser
    BY <1>1 DEF ReleaseInv, SessionInv, TypeOK, RowState
  <2> QED
    BY <1>1, <2>1, <2>2 DEF SignedOut, Live, OptBrowser
<1>2. ReleaseInv /\ [Next]_vars =>
        [\A s \in Browsers : Deleted(s) /\ rows[s].authenticated =>
           /\ grant[s].state = "revoked"
           /\ rows[s].revokeProvider => ~Live(rows[s].provider)]_vars
  BY <1>1
<1> QED
  BY <1>2, InitRelease, StepRelease, PTL DEF Spec, NothingIsForgotten

\* A callback that stores a login does so for an attempt nobody has cancelled or revoked
\* since it redeemed its code (attempt.ts, handlers.ts callback).
THEOREM CancelledAttemptsEnd == Spec => CancelledNeverSignsIn
<1>1. ReleaseInv /\ [Next]_vars =>
        [\A b \in Browsers : busy[b].op = "callback" /\ latest' # latest /\ Deleted(b) =>
           ~rows[b].revoked /\ rows[b].transaction = "open"]_vars
  BY StepRelease DEF Remembers
<1> QED
  BY <1>1, InitRelease, StepRelease, PTL DEF Spec, CancelledNeverSignsIn

\* No clean-up of an attempt signs out a provider session that a login uses, and the
\* release of a replaced login never that of its replacement, however many attempts began
\* from one login (attempt.ts finishCancelledAttempt, store.ts retirePrevious).
THEOREM LoginsSurvive == Spec => LiveLoginSurvives
<1>1. TakeoverInv /\ [Next]_vars =>
        [\A b, k \in Browsers : SignsOut(b, k) =>
           IF rows[b].authenticated THEN b = latest.replaced => latest.login \notin Using(k)
                                    ELSE Using(k) = {}]_vars
  BY SignOutIsApart
<1> QED
  BY <1>1, InitTakeover, StepTakeover, PTL DEF Spec, LiveLoginSurvives
=============================================================================
