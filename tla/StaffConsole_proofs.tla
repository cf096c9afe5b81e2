------------------------ MODULE StaffConsole_proofs ------------------------
(* Theorems about StaffConsole, for any users, tokens and kinds of records.   *)
EXTENDS StaffConsole, FiniteSetTheorems, WellFoundedInduction, TLAPS

Acts ==
  {"createProduct", "importProducts", "updateProductDetails", "saveBrand", "deleteProduct",
   "createVariant", "createInactiveVariant", "activateVariant", "deactivateVariant",
   "deleteVariant", "saveVariantMeasures", "setStock", "uploadImage", "updateAlt",
   "removeImage", "makePrimary", "moveImage", "createCategory", "createSubcategory",
   "updateCategory", "deleteCategory", "moveSubcategory", "createDeliveryOption",
   "createInactiveOption", "activateOption", "deactivateOption", "deleteDeliveryOption",
   "hideReview", "restoreReview", "setHelpful", "saveReview", "removeReview",
   "staffSetTracking", "markProcessing", "markShipping", "markCompleted", "staffCancel",
   "staffApproveRefund", "staffRejectRefund", "cancelMyOrder", "requestMyRefund",
   "addMyAddress", "updateMyAddress", "deleteMyAddress"}
RecordForm == [act : Acts, user : {None}, role : {None}]
RoleForm == [act : {"changeUserRole"}, user : Users, role : Roles]
Form == RecordForm \cup RoleForm

Token == [user : Users \cup {None}, role : Roles \cup {None}, aal2 : BOOLEAN,
          status : {"live", "cached", "dead"}, lost : {None, "reported", "spent"}]
Call == [by : Users, token : TokenIds, side : {"staff", "shop", "users", None},
         act : Acts \cup {"changeUserRole"}, user : Users \cup {None}, role : Roles \cup {None},
         stage : {"sent", "admitted", "locking", "committed"}, late : BOOLEAN,
         spent : BOOLEAN, admins : SUBSET Users, held : SUBSET Users]

\* A form for a role names a user and a role, only a change of roles locks rows, and no
\* call has been let in with a token that was spent.
Sound(c) ==
  /\ c.act = "changeUserRole" => c.user \in Users /\ c.role \in Roles
  /\ c.stage = "locking" => c.act = "changeUserRole"
  /\ ~c.spent

\* The types of everything, and what makes a token from before a reported change of
\* roles powerless: once it is spent, it is dead.
ConsoleInv ==
  /\ subject \in Subjects /\ record \in States(subject)
  /\ role \in [Users -> Roles]
  /\ account \in [Users -> {"active", "deleting", "removed", "deleted"}]
  /\ tokens \in [TokenIds -> Token]
  /\ session \in [Users -> TokenIds \cup {None}]
  /\ page \in [Users -> [side : {"staff", "shop", "users", None}, forms : SUBSET Form]]
  /\ calls \subseteq Call
  /\ \A c \in calls : Sound(c)
  /\ \A u \in Users : session[u] # None => tokens[session[u]].user = u
  /\ \A c \in calls : tokens[c.token].user = c.by
  /\ \A t \in TokenIds : tokens[t].lost = "spent" => tokens[t].status = "dead"
  /\ \A t \in TokenIds : tokens[t] = NoToken \/ tokens[t].user \in Users

-----------------------------------------------------------------------------
(* The pages.                                                               *)

\* A form of the staff pages submits one of the console's acts.
LEMMA StaffFormsTyped ==
  ASSUME NEW r, NEW seen
  PROVE  StaffForms(r, seen) \subseteq Acts
<1>1. ProductForms(r, seen) \subseteq Acts
  BY DEF ProductForms, Acts
<1>2. VariantForms(r, seen) \subseteq Acts
  BY DEF VariantForms, Acts
<1>3. NewProductForms(seen) \subseteq Acts /\ ImportForms(seen) \subseteq Acts
  BY DEF NewProductForms, ImportForms, Acts
<1>4. GalleryForms(r, seen) \subseteq Acts
  BY DEF GalleryForms, Acts
<1>5. CategoryForms(r, seen) \subseteq Acts
  BY DEF CategoryForms, Acts
<1>6. DeliveryForms(r, seen) \subseteq Acts /\ ModerationForms(r, seen) \subseteq Acts
  BY DEF DeliveryForms, ModerationForms, Acts
<1>7. OrderForms(r, seen) \subseteq Acts
  BY DEF OrderForms, Acts
<1>8. RequestForms(r, seen) \subseteq Acts
  BY DEF RequestForms, Acts
<1> QED
  BY <1>1, <1>2, <1>3, <1>4, <1>5, <1>6, <1>7, <1>8 DEF StaffForms

\* The forms of the shop are among the known actions.
LEMMA ShopFormsTyped ==
  ASSUME NEW u, NEW r, NEW seen
  PROVE  ShopForms(u, r, seen) \subseteq Acts
<1>1. ReviewForms(u, r, seen) \subseteq Acts
  BY DEF ReviewForms, Acts
<1>2. MyOrderForms(seen) \subseteq Acts /\ AddressForms(seen) \subseteq Acts
  BY DEF MyOrderForms, AddressForms, Acts
<1> QED
  BY <1>1, <1>2 DEF ShopForms

\* The roles an administrator may give are roles.
LEMMA AssignableRoles == Assignable \subseteq Roles
BY DEF Assignable, SideRoles, Roles, adminRoles, orderRoles, adminOnly

\* A page offers forms that exist, and a form for a role names a user and a role.
LEMMA FormsTyped ==
  ASSUME NEW u, NEW r, NEW seen, NEW side \in {"staff", "shop", "users"}
  PROVE  Forms(u, side, r, seen) \subseteq Form
<1>1. RoleForms(r) \subseteq RoleForm
  BY AssignableRoles, ConsoleAssumption DEF RoleForms, RoleForm, Reassigned
<1>2. CASE side = "staff"
  <2>1. Forms(u, side, r, seen) = [act : StaffForms(r, seen), user : {None}, role : {None}]
    BY <1>2 DEF Forms
  <2> QED
    BY <2>1, StaffFormsTyped DEF Form, RecordForm
<1>3. CASE side = "shop"
  <2>1. Forms(u, side, r, seen) = [act : ShopForms(u, r, seen), user : {None}, role : {None}]
    BY <1>3 DEF Forms
  <2> QED
    BY <2>1, ShopFormsTyped DEF Form, RecordForm
<1>4. CASE side = "users"
  <2>1. Forms(u, side, r, seen) = RoleForms(r)
    BY <1>4 DEF Forms
  <2> QED
    BY <2>1, <1>1 DEF Form
<1> QED
  BY <1>2, <1>3, <1>4

-----------------------------------------------------------------------------
(* Every step keeps the invariant.                                          *)

\* Before the first page there is a record and nothing on the way.
LEMMA InitConsole == Init => ConsoleInv
<1> SUFFICES ASSUME Init PROVE ConsoleInv
  OBVIOUS
<1>1. record \in States(subject)
  BY DEF Init, States
<1>2. NoToken \in Token /\ NoToken.lost # "spent"
  BY DEF NoToken, DeadToken, Token, None
<1>3. NoPage \in [side : {"staff", "shop", "users", None}, forms : SUBSET Form]
  BY DEF NoPage
<1> QED
  BY <1>1, <1>2, <1>3, AssignableRoles DEF Init, ConsoleInv

\* Forgetting the tokens nobody presents keeps what is said of tokens.
TokensInv(T) ==
  /\ T \in [TokenIds -> Token]
  /\ \A t \in TokenIds : T[t].lost = "spent" => T[t].status = "dead"
  /\ \A t \in TokenIds : T[t] = NoToken \/ T[t].user \in Users

\* The token nobody has.
LEMMA NoTokenTyped == NoToken \in Token /\ NoToken.lost # "spent" /\ NoToken.user = None
BY DEF NoToken, DeadToken, Token, None

\* Forgetting the tokens nobody presents leaves the others as they are.
LEMMA KeptTokens ==
  ASSUME NEW T, TokensInv(T)
  PROVE  TokensInv(Kept(T)) /\ \A t \in Presented : t \in TokenIds => Kept(T)[t] = T[t]
BY NoTokenTyped DEF TokensInv, Kept

\* What a revocation makes of the tokens of a user.
LEMMA RevokedTokens ==
  ASSUME ConsoleInv, NEW u, NEW reported \in BOOLEAN
  PROVE  /\ TokensInv(Revoked(u, reported))
         /\ \A t \in TokenIds : Revoked(u, reported)[t].user = tokens[t].user
<1> DEFINE R == Revoked(u, reported)
<1>1. ASSUME NEW t \in TokenIds
      PROVE  /\ R[t] \in Token /\ R[t].user = tokens[t].user
             /\ R[t].lost = "spent" => R[t].status = "dead"
             /\ R[t] = NoToken \/ R[t].user \in Users
  <2>1. tokens[t] \in Token /\ (tokens[t].lost = "spent" => tokens[t].status = "dead")
        /\ (tokens[t] = NoToken \/ tokens[t].user \in Users)
    BY <1>1 DEF ConsoleInv
  <2>2. CASE tokens[t].user = u /\ Accepted(t)
    <3>1. R[t] = [tokens[t] EXCEPT !.status = "cached",
                    !.lost = IF reported /\ @ # "spent" THEN "reported" ELSE @]
      BY <2>2 DEF Revoked
    <3>2. tokens[t].status # "dead" /\ tokens[t] # NoToken
      BY <2>2 DEF Accepted, NoToken, DeadToken
    <3> QED
      BY <3>1, <3>2, <2>1 DEF Token
  <2>3. CASE ~(tokens[t].user = u /\ Accepted(t))
    <3>1. R[t] = tokens[t]
      BY <2>3 DEF Revoked
    <3> QED
      BY <3>1, <2>1
  <2> QED
    BY <2>2, <2>3
<1>2. R = [t \in TokenIds |-> R[t]]
  BY DEF Revoked
<1> HIDE DEF R
<1>3. R \in [TokenIds -> Token]
  BY <1>1, <1>2
<1> QED
  BY <1>1, <1>3 DEF TokensInv, R

\* The part of the invariant that relates the tokens to the rest.
LEMMA Holders ==
  ASSUME ConsoleInv, TokensInv(tokens'),
         session' \in [Users -> TokenIds \cup {None}], calls' \subseteq Call,
         \A u \in Users : session'[u] # None =>
           tokens'[session'[u]].user = tokens[session'[u]].user /\ session'[u] = session[u],
         \A c \in calls' : tokens'[c.token].user = tokens[c.token].user,
         \A c \in calls' : \E d \in calls : c.token = d.token /\ c.by = d.by
  PROVE  /\ \A u \in Users : session'[u] # None => tokens'[session'[u]].user = u
         /\ \A c \in calls' : tokens'[c.token].user = c.by
BY DEF ConsoleInv

\* A login mints a token with the role of the moment.
LEMMA LoginKeeps ==
  ASSUME ConsoleInv, NEW u \in Users, Login(u)
  PROVE  ConsoleInv'
<1> PICK t \in TokenIds, aal2 \in BOOLEAN :
      /\ tokens[t] = NoToken
      /\ session' = [session EXCEPT ![u] = t]
      /\ tokens' = [tokens EXCEPT ![t] =
           [user |-> u, role |-> role[u], aal2 |-> aal2, status |-> "live", lost |-> None]]
  BY DEF Login
<1>1. UNCHANGED <<subject, record, role, account, page, calls>> /\ session[u] = None
  BY DEF Login
<1>2. [user |-> u, role |-> role[u], aal2 |-> aal2, status |-> "live", lost |-> None] \in Token
  BY DEF ConsoleInv, Token
<1>3. TokensInv(tokens')
  BY <1>2 DEF ConsoleInv, TokensInv, None
<1>4. session' \in [Users -> TokenIds \cup {None}]
  BY DEF ConsoleInv
<1>5. ASSUME NEW v \in Users, session'[v] # None
      PROVE  tokens'[session'[v]].user = v
  <2>1. CASE v = u
    BY <2>1, <1>5 DEF ConsoleInv
  <2>2. CASE v # u
    <3>1. session'[v] = session[v] /\ session[v] \in TokenIds /\ tokens[session[v]].user = v
      BY <2>2, <1>5 DEF ConsoleInv
    <3>2. v # None
      BY ConsoleAssumption
    <3>3. session[v] # t
      BY <3>1, <3>2, NoTokenTyped
    <3> QED
      BY <3>1, <3>3 DEF ConsoleInv
  <2> QED
    BY <2>1, <2>2
<1>6. ASSUME NEW c \in calls
      PROVE  tokens'[c.token].user = c.by
  <2>1. c.token \in TokenIds /\ c.by \in Users /\ tokens[c.token].user = c.by
    BY DEF ConsoleInv, Call
  <2>2. c.token # t
    BY <2>1, NoTokenTyped, ConsoleAssumption
  <2> QED
    BY <2>1, <2>2 DEF ConsoleInv
<1> QED
  BY <1>1, <1>3, <1>4, <1>5, <1>6 DEF ConsoleInv, TokensInv, Sound

\* A token that is presented is kept, and so is what the invariant says of it.
LEMMA ForgettingKeeps ==
  ASSUME ConsoleInv, NEW T, TokensInv(T), tokens' = Kept(T),
         \A t \in TokenIds : T[t].user = tokens[t].user,
         session' \in [Users -> TokenIds \cup {None}],
         \A u \in Users : session'[u] \in {None, session[u]},
         calls' \subseteq Call,
         \A c \in calls' : \E d \in calls : c.token = d.token /\ c.by = d.by
  PROVE  /\ TokensInv(tokens')
         /\ \A u \in Users : session'[u] # None => tokens'[session'[u]].user = u
         /\ \A c \in calls' : tokens'[c.token].user = c.by
<1>1. TokensInv(tokens') /\ \A t \in Presented : t \in TokenIds => tokens'[t] = T[t]
  BY KeptTokens
<1>2. ASSUME NEW u \in Users, session'[u] # None
      PROVE  tokens'[session'[u]].user = tokens[session'[u]].user /\ session'[u] = session[u]
  BY <1>1, <1>2 DEF Presented
<1>3. ASSUME NEW c \in calls'
      PROVE  tokens'[c.token].user = tokens[c.token].user
  BY <1>1, <1>3 DEF Presented, Call
<1> QED
  BY <1>1, <1>2, <1>3, Holders

\* The invariant says of the tokens what the lemmas above need.
LEMMA TokensNow == ConsoleInv => TokensInv(tokens)
BY DEF ConsoleInv, TokensInv

\* A session whose role has changed ends.
LEMMA DeniedKeeps ==
  ASSUME ConsoleInv, NEW u \in Users, Denied(u)
  PROVE  ConsoleInv'
<1>1. /\ UNCHANGED <<subject, record, role, account, calls>> /\ tokens' = Kept(tokens)
      /\ page' = [page EXCEPT ![u] = NoPage]
      /\ session' \in {session, [session EXCEPT ![u] = None]}
  BY DEF Denied
<1>2. session' \in [Users -> TokenIds \cup {None}] /\ \A v \in Users : session'[v] \in {None, session[v]}
  BY <1>1 DEF ConsoleInv
<1>3. calls' \subseteq Call /\ \A c \in calls' : \E d \in calls : c.token = d.token /\ c.by = d.by
  BY <1>1 DEF ConsoleInv
<1>4. /\ TokensInv(tokens')
      /\ \A v \in Users : session'[v] # None => tokens'[session'[v]].user = v
      /\ \A c \in calls' : tokens'[c.token].user = c.by
  BY <1>1, <1>2, <1>3, TokensNow, ForgettingKeeps
<1>5. page' \in [Users -> [side : {"staff", "shop", "users", None}, forms : SUBSET Form]]
  BY <1>1 DEF ConsoleInv, NoPage
<1> QED
  BY <1>1, <1>2, <1>3, <1>4, <1>5 DEF ConsoleInv, TokensInv, Sound

\* Loading a page.
LEMMA LoadKeeps ==
  ASSUME ConsoleInv, NEW u \in Users, NEW side \in {"staff", "shop", "users"}, Load(u, side)
  PROVE  ConsoleInv'
<1>1. CASE Denied(u)
  BY <1>1, DeniedKeeps
<1>2. CASE /\ page' = [page EXCEPT ![u] =
                Shown(side, Forms(u, side, tokens[session[u]].role, record))]
           /\ UNCHANGED <<subject, record, role, account, tokens, session, calls>>
  <2>1. page' \in [Users -> [side : {"staff", "shop", "users", None}, forms : SUBSET Form]]
    <3>1. Forms(u, side, tokens[session[u]].role, record) \subseteq Form
      BY FormsTyped
    <3> QED
      BY <1>2, <3>1 DEF ConsoleInv, Shown, NoPage
  <2> QED
    BY <1>2, <2>1 DEF ConsoleInv, Sound
<1> QED
  BY <1>1, <1>2 DEF Load

\* A form is sent with the token of its session.
LEMMA SubmitKeeps ==
  ASSUME ConsoleInv, NEW u \in Users, Submit(u)
  PROVE  ConsoleInv'
<1>1. CASE Denied(u)
  BY <1>1, DeniedKeeps
<1>2. CASE ~Denied(u)
  <2>1. PICK f \in page[u].forms :
          calls' = calls \cup {[by |-> u, token |-> session[u], side |-> page[u].side, act |-> f.act,
                                user |-> f.user, role |-> f.role, stage |-> "sent", late |-> FALSE,
                                spent |-> FALSE, admins |-> {}, held |-> {}]}
    BY <1>2 DEF Submit
  <2>2. /\ page' = [page EXCEPT ![u] = NoPage] /\ session[u] # None
        /\ UNCHANGED <<subject, record, role, account, tokens, session>>
    BY <1>2 DEF Submit, Submittable
  <2> DEFINE new == [by |-> u, token |-> session[u], side |-> page[u].side, act |-> f.act,
                     user |-> f.user, role |-> f.role, stage |-> "sent", late |-> FALSE,
                     spent |-> FALSE, admins |-> {}, held |-> {}]
  <2>3. f \in Form /\ page[u].side \in {"staff", "shop", "users", None} /\ session[u] \in TokenIds
    BY <2>2 DEF ConsoleInv
  <2>4. f.act \in Acts \cup {"changeUserRole"} /\ f.user \in Users \cup {None} /\ f.role \in Roles \cup {None}
    BY <2>3 DEF Form, RecordForm, RoleForm
  <2>5. f.act = "changeUserRole" => f.user \in Users /\ f.role \in Roles
    BY <2>3 DEF Form, RecordForm, RoleForm, Acts
  <2>6. new \in Call /\ Sound(new) /\ tokens[new.token].user = new.by
    BY <2>2, <2>3, <2>4, <2>5 DEF Call, Sound, ConsoleInv
  <2>7. page' \in [Users -> [side : {"staff", "shop", "users", None}, forms : SUBSET Form]]
    BY <2>2 DEF ConsoleInv, NoPage
  <2>8. calls' = calls \cup {new}
    BY <2>1
  <2> HIDE DEF new
  <2> QED
    BY <2>2, <2>6, <2>7, <2>8 DEF ConsoleInv, Sound
<1> QED
  BY <1>1, <1>2

\* A step of the API that replaces a call c by one of the same user and token, or by
\* none, and forgets tokens.
LEMMA CallEnds ==
  ASSUME ConsoleInv, NEW c \in calls, NEW more, more \subseteq Call,
         \A d \in more : d.token = c.token /\ d.by = c.by /\ Sound(d),
         calls' = (calls \ {c}) \cup more,
         NEW T, TokensInv(T), tokens' = Kept(T), \A t \in TokenIds : T[t].user = tokens[t].user,
         UNCHANGED <<subject, account, session, page>>,
         record' \in States(subject), role' \in [Users -> Roles]
  PROVE  ConsoleInv'
<1>1. session' \in [Users -> TokenIds \cup {None}] /\ \A u \in Users : session'[u] \in {None, session[u]}
  BY DEF ConsoleInv
<1>2. calls' \subseteq Call /\ (\A d \in calls' : Sound(d))
      /\ \A d \in calls' : \E e \in calls : d.token = e.token /\ d.by = e.by
  BY DEF ConsoleInv
<1>3. /\ TokensInv(tokens')
      /\ \A u \in Users : session'[u] # None => tokens'[session'[u]].user = u
      /\ \A d \in calls' : tokens'[d.token].user = d.by
  BY <1>1, <1>2, ForgettingKeeps
<1> QED
  BY <1>1, <1>2, <1>3 DEF ConsoleInv, TokensInv, Sound

\* A call that has ended leaves its token to be forgotten.
LEMMA CallForgotten ==
  ASSUME ConsoleInv, NEW c \in calls, calls' = calls \ {c},
         NEW T, TokensInv(T), tokens' = Kept(T), \A t \in TokenIds : T[t].user = tokens[t].user,
         UNCHANGED <<subject, record, role, account, session, page>>
  PROVE  ConsoleInv'
<1> DEFINE more == {}
<1>1. more \subseteq Call /\ \A d \in more : d.token = c.token /\ d.by = c.by /\ Sound(d)
  OBVIOUS
<1>2. calls' = (calls \ {c}) \cup more
  OBVIOUS
<1>3. record' \in States(subject) /\ role' \in [Users -> Roles]
  BY DEF ConsoleInv
<1>4. UNCHANGED <<subject, account, session, page>>
  OBVIOUS
<1> HIDE DEF more
<1> QED
  BY <1>1, <1>2, <1>3, <1>4, CallEnds, Zenon

\* A step that only moves a call c on, to a call d of the same user and token.
LEMMA CallMoves ==
  ASSUME ConsoleInv, NEW c \in calls, NEW d \in Call, Sound(d), d.by = c.by, d.token = c.token,
         calls' = (calls \ {c}) \cup {d}, role' \in [Users -> Roles],
         UNCHANGED <<subject, record, account, tokens, session, page>>
  PROVE  ConsoleInv'
<1>1. calls' \subseteq Call /\ \A e \in calls' : Sound(e) /\ tokens'[e.token].user = e.by
  BY DEF ConsoleInv
<1> QED
  BY <1>1 DEF ConsoleInv, Sound

\* The storefront gives a call up.
LEMMA TimeOutKeeps ==
  ASSUME ConsoleInv, NEW c \in calls, TimeOut(c)
  PROVE  ConsoleInv'
<1> DEFINE late == [c EXCEPT !.late = TRUE]
<1>1. /\ calls' = (calls \ {c}) \cup {late}
      /\ UNCHANGED <<subject, record, role, account, tokens, session, page>>
  BY DEF TimeOut
<1>2. late \in Call /\ Sound(late) /\ late.by = c.by /\ late.token = c.token
  BY DEF ConsoleInv, Call, Sound
<1> HIDE DEF late
<1>3. role' \in [Users -> Roles]
  BY <1>1 DEF ConsoleInv
<1> QED
  BY <1>1, <1>2, <1>3, CallMoves

\* The API lets a call in: never with a spent token, which is dead.
LEMMA AdmitKeeps ==
  ASSUME ConsoleInv, NEW c \in calls, Admit(c)
  PROVE  ConsoleInv'
<1> DEFINE in == [c EXCEPT !.stage = "admitted", !.spent = tokens[c.token].lost = "spent"]
<1>1. /\ calls' = (calls \ {c}) \cup {in} /\ Authorized(c)
      /\ UNCHANGED <<subject, record, role, account, tokens, session, page>>
  BY DEF Admit, Becomes
<1>2. c \in Call /\ Sound(c) /\ c.token \in TokenIds
  BY DEF ConsoleInv, Call
<1>3. tokens[c.token].lost # "spent"
  BY <1>1, <1>2 DEF ConsoleInv, Authorized, Accepted
<1>4. in \in Call /\ in.by = c.by /\ in.token = c.token
  BY <1>2, <1>3 DEF Call
<1>5. Sound(in)
  BY <1>2, <1>3 DEF Call, Sound
<1> HIDE DEF in
<1>6. role' \in [Users -> Roles]
  BY <1>1 DEF ConsoleInv
<1> QED
  BY <1>1, <1>4, <1>5, <1>6, CallMoves

\* A change of roles finds the active administrators.
LEMMA FindAdminsKeeps ==
  ASSUME ConsoleInv, NEW c \in calls, FindAdmins(c)
  PROVE  ConsoleInv'
<1> DEFINE d == [c EXCEPT !.stage = "locking",
                          !.admins = IF c.role = "ADMIN" THEN {} ELSE ActiveAdmins]
<1>1. /\ calls' = (calls \ {c}) \cup {d} /\ c.act = "changeUserRole"
      /\ UNCHANGED <<subject, record, role, account, tokens, session, page>>
  BY DEF FindAdmins, Becomes
<1>2. d \in Call /\ d.by = c.by /\ d.token = c.token
  BY DEF ConsoleInv, Call, ActiveAdmins
<1>3. Sound(d)
  BY <1>1 DEF ConsoleInv, Call, Sound
<1> HIDE DEF d
<1>4. role' \in [Users -> Roles]
  BY <1>1 DEF ConsoleInv
<1> QED
  BY <1>1, <1>2, <1>3, <1>4, CallMoves

\* The row a change of roles waits for is that of a user.
LEMMA AwaitedUser ==
  ASSUME ConsoleInv, NEW c \in calls, c.stage = "locking"
  PROVE  Awaited(c) \subseteq Users
BY DEF ConsoleInv, Sound, Call, Awaited

\* A change of roles that waits for no row has all it needs: some administrator is next
\* as long as one is left.
LEMMA AllLocked ==
  ASSUME ConsoleInv, NEW c \in calls, c.stage = "locking", Awaited(c) = {}
  PROVE  c.admins \subseteq c.held /\ c.user \in c.held
<1>1. c.admins \subseteq Users
  BY DEF ConsoleInv, Call
<1>2. CASE c.admins \ c.held = {}
  BY <1>2 DEF Awaited
<1>3. CASE c.admins \ c.held # {}
  <2> DEFINE ids == {Id[u] : u \in c.admins \ c.held}
  <2>1. ids \subseteq Nat /\ ids # {}
    BY <1>1, <1>3, ConsoleAssumption
  <2>2. PICK i \in ids : \A j \in ids : <<j, i>> \notin OpToRel(<, Nat)
    <3> HIDE DEF ids
    <3> QED
      BY <2>1, WFMin, NatLessThanWellFounded
  <2>3. ASSUME NEW j \in ids PROVE i <= j
    <3>1. i \in Nat /\ j \in Nat /\ <<j, i>> \notin OpToRel(<, Nat)
      BY <2>1, <2>2, <2>3
    <3> QED
      BY <3>1 DEF OpToRel
  <2>4. \E u \in c.admins \ c.held : \A v \in c.admins \ c.held : Id[u] <= Id[v]
    BY <2>3
  <2> QED
    BY <1>3, <2>4 DEF Awaited
<1> QED
  BY <1>2, <1>3

\* A row is locked.
LEMMA LockRowKeeps ==
  ASSUME ConsoleInv, NEW c \in calls, LockRow(c)
  PROVE  ConsoleInv'
<1>1. PICK r \in Awaited(c) :
        calls' = (calls \ {c}) \cup
          {[c EXCEPT !.held = @ \cup {r}, !.admins = IF IsActiveAdmin(r) THEN @ ELSE @ \ {r}]}
  BY DEF LockRow, Becomes
<1> DEFINE d == [c EXCEPT !.held = @ \cup {r}, !.admins = IF IsActiveAdmin(r) THEN @ ELSE @ \ {r}]
<1>2. r \in Users /\ UNCHANGED <<subject, record, role, account, tokens, session, page>>
  BY AwaitedUser DEF LockRow
<1>3. d \in Call /\ d.by = c.by /\ d.token = c.token
  BY <1>2 DEF ConsoleInv, Call
<1>4. Sound(d)
  BY DEF ConsoleInv, Call, Sound
<1>5. calls' = (calls \ {c}) \cup {d}
  BY <1>1
<1> HIDE DEF d
<1>6. role' \in [Users -> Roles]
  BY <1>2 DEF ConsoleInv
<1> QED
  BY <1>2, <1>3, <1>4, <1>5, <1>6, CallMoves

\* The API refuses a call.
LEMMA RefuseKeeps ==
  ASSUME ConsoleInv, NEW c \in calls, Refuse(c)
  PROVE  ConsoleInv'
<1>1. /\ calls' = calls \ {c} /\ tokens' = Kept(tokens)
      /\ UNCHANGED <<subject, record, role, account, session, page>>
  BY DEF Refuse
<1> QED
  BY <1>1, TokensNow, CallForgotten

\* The API executes a call on a record.
LEMMA ChangeKeeps ==
  ASSUME ConsoleInv, NEW c \in calls, Change(c)
  PROVE  ConsoleInv'
<1>1. /\ calls' = (calls \ {c}) \cup Rest(c) /\ tokens' = Kept(tokens)
      /\ UNCHANGED <<subject, role, account, session, page>>
  BY DEF Change
<1>2. record' \in States(subject)
  BY DEF Change, Allowed, States
<1> DEFINE next == [c EXCEPT !.act = "deactivateVariant", !.stage = "sent"]
<1>3. next \in Call /\ next.token = c.token /\ next.by = c.by /\ Sound(next)
  <2>1. c \in Call /\ ~c.spent /\ "deactivateVariant" \in Acts /\ "changeUserRole" # "deactivateVariant"
    BY DEF ConsoleInv, Sound, Acts
  <2>2. /\ next.act = "deactivateVariant" /\ next.stage = "sent" /\ next.spent = c.spent
        /\ next.token = c.token /\ next.by = c.by /\ next \in Call
    <3> HIDE DEF Acts
    <3> QED
      BY <2>1 DEF Call
  <2> HIDE DEF next
  <2> QED
    BY <2>1, <2>2 DEF Sound
<1> HIDE DEF next
<1>4. Rest(c) \subseteq Call /\ \A d \in Rest(c) : d.token = c.token /\ d.by = c.by /\ Sound(d)
  BY <1>3 DEF Rest, next
<1>5. role' \in [Users -> Roles]
  BY <1>1 DEF ConsoleInv
<1> QED
  BY <1>1, <1>2, <1>4, <1>5, TokensNow, CallEnds

\* A role is changed, the last administrator's never.
LEMMA AssignRoleKeeps ==
  ASSUME ConsoleInv, NEW c \in calls, AssignRole(c)
  PROVE  ConsoleInv'
<1> DEFINE done == [c EXCEPT !.stage = "committed", !.admins = {}, !.held = {}]
<1>1. /\ calls' = (calls \ {c}) \cup {done} /\ c.stage = "locking"
      /\ role' = [role EXCEPT ![c.user] = c.role]
      /\ UNCHANGED <<subject, record, account, tokens, session, page>>
  BY DEF AssignRole, Becomes
<1>2. c.user \in Users /\ c.role \in Roles
  BY <1>1 DEF ConsoleInv, Sound
<1>3. done \in Call /\ Sound(done) /\ done.by = c.by /\ done.token = c.token
  BY DEF ConsoleInv, Call, Sound
<1> HIDE DEF done
<1>4. role' \in [Users -> Roles]
  BY <1>1, <1>2 DEF ConsoleInv
<1> QED
  BY <1>1, <1>3, <1>4, CallMoves

\* The grants of an account are revoked after the change has committed.
LEMMA RevokeGrantsKeeps ==
  ASSUME ConsoleInv, NEW c \in calls, RevokeGrants(c)
  PROVE  ConsoleInv'
<1>1. /\ calls' = calls \ {c}
      /\ UNCHANGED <<subject, record, role, account, session, page>>
  BY DEF RevokeGrants
<1>3. CASE tokens' = Kept(tokens)
  BY <1>1, <1>3, TokensNow, CallForgotten
<1>4. CASE tokens' = Kept(Revoked(c.user, ~c.late))
  <2>1. (~c.late) \in BOOLEAN
    OBVIOUS
  <2>2. /\ TokensInv(Revoked(c.user, ~c.late))
        /\ \A t \in TokenIds : Revoked(c.user, ~c.late)[t].user = tokens[t].user
    BY <2>1, RevokedTokens
  <2> QED
    BY <1>1, <1>4, <2>2, CallForgotten
<1> QED
  BY <1>3, <1>4 DEF RevokeGrants

\* A cached introspection expires.
LEMMA CacheExpiresKeeps ==
  ASSUME ConsoleInv, NEW t \in TokenIds, CacheExpires(t)
  PROVE  ConsoleInv'
<1> DEFINE gone ==
  DeadToken(tokens[t].user, IF tokens[t].lost = "reported" THEN "spent" ELSE None)
<1>1. /\ tokens[t].status = "cached" /\ tokens' = [tokens EXCEPT ![t] = gone]
      /\ UNCHANGED <<subject, record, role, account, session, page, calls>>
  BY DEF CacheExpires
<1>2. tokens[t] \in Token /\ tokens[t].user \in Users
  BY <1>1 DEF ConsoleInv, NoToken, DeadToken
<1>3. gone \in Token /\ gone.status = "dead" /\ gone.user = tokens[t].user
  BY <1>2 DEF DeadToken, Token
<1> HIDE DEF gone
<1>4. \A s \in TokenIds : tokens'[s].user = tokens[s].user
  BY <1>1, <1>3 DEF ConsoleInv
<1>5. TokensInv(tokens')
  BY <1>1, <1>2, <1>3 DEF ConsoleInv, TokensInv
<1> QED
  BY <1>1, <1>4, <1>5 DEF ConsoleInv, TokensInv, Sound, Call

\* A customer buys, which allows a review.
LEMMA BuyKeeps ==
  ASSUME ConsoleInv, Buy
  PROVE  ConsoleInv'
<1>1. record' = "sold" /\ subject = "product"
      /\ UNCHANGED <<subject, role, account, tokens, session, page, calls>>
  BY DEF Buy
<1>2. "sold" \in States("product")
  BY DEF States
<1> QED
  BY <1>1, <1>2 DEF ConsoleInv, Sound

\* An account is deleted in three transactions, the last administrator never.
LEMMA DeletionKeeps ==
  ASSUME ConsoleInv, NEW u \in Users,
         BeginDeletion(u) \/ RemoveIdentity(u) \/ FinishDeletion(u)
  PROVE  ConsoleInv'
<1>1. UNCHANGED <<subject, record, session, page, calls>>
  BY DEF BeginDeletion, RemoveIdentity, FinishDeletion
<1>2. account' \in [Users -> {"active", "deleting", "removed", "deleted"}]
  BY DEF BeginDeletion, RemoveIdentity, FinishDeletion, ConsoleInv
<1>3. role' \in [Users -> Roles]
  BY DEF BeginDeletion, RemoveIdentity, FinishDeletion, ConsoleInv, Roles
<1>4. tokens' = tokens \/ \E reported \in BOOLEAN : tokens' = Revoked(u, reported)
  BY DEF BeginDeletion, RemoveIdentity, FinishDeletion
<1>5. TokensInv(tokens') /\ \A t \in TokenIds : tokens'[t].user = tokens[t].user
  BY <1>4, TokensNow, RevokedTokens
<1> QED
  BY <1>1, <1>2, <1>3, <1>5 DEF ConsoleInv, TokensInv, Sound, Call

\* Every step keeps the invariant.
LEMMA StepConsole == ConsoleInv /\ [Next]_vars => ConsoleInv'
<1> SUFFICES ASSUME ConsoleInv, [Next]_vars PROVE ConsoleInv'
  OBVIOUS
<1>1. ASSUME NEW u \in Users, Login(u) PROVE ConsoleInv'
  BY <1>1, LoginKeeps
<1>2. ASSUME NEW u \in Users, Submit(u) PROVE ConsoleInv'
  BY <1>2, SubmitKeeps
<1>3. ASSUME NEW u \in Users, BeginDeletion(u) \/ RemoveIdentity(u) \/ FinishDeletion(u)
      PROVE  ConsoleInv'
  BY <1>3, DeletionKeeps
<1>4. ASSUME NEW u \in Users, NEW side \in {"staff", "shop", "users"}, Load(u, side)
      PROVE  ConsoleInv'
  BY <1>4, LoadKeeps
<1>5. ASSUME NEW c \in calls, TimeOut(c) \/ Admit(c) \/ Refuse(c) PROVE ConsoleInv'
  BY <1>5, TimeOutKeeps, AdmitKeeps, RefuseKeeps
<1>6. ASSUME NEW c \in calls, Change(c) PROVE ConsoleInv'
  BY <1>6, ChangeKeeps
<1>7. ASSUME NEW c \in calls, FindAdmins(c) \/ LockRow(c) \/ AssignRole(c) \/ RevokeGrants(c)
      PROVE  ConsoleInv'
  BY <1>7, FindAdminsKeeps, LockRowKeeps, AssignRoleKeeps, RevokeGrantsKeeps
<1>8. ASSUME NEW t \in TokenIds, CacheExpires(t) PROVE ConsoleInv'
  BY <1>8, CacheExpiresKeeps
<1>9. CASE Buy
  BY <1>9, BuyKeeps
<1>10. CASE UNCHANGED vars
  BY <1>10 DEF vars, ConsoleInv, Sound
<1> QED
  BY <1>1, <1>2, <1>3, <1>4, <1>5, <1>6, <1>7, <1>8, <1>9, <1>10 DEF Next

\* The invariant holds always.
LEMMA ConsoleAlways == Spec => []ConsoleInv
BY InitConsole, StepConsole, PTL DEF Spec

-----------------------------------------------------------------------------
(* The rows that changes of roles lock.                                     *)

\* Only a change of roles that has found its administrators holds rows, no row is held
\* twice, and an administrator whose row is held stays one.
LocksInv ==
  /\ \A c \in calls : c.stage # "locking" => c.held = {}
  /\ \A c, d \in calls : c # d => c.held \cap d.held = {}
  /\ \A c \in calls : \A u \in c.admins \cap c.held : IsActiveAdmin(u)

\* A call that is sent holds nothing.
LEMMA SubmitKeepsLocks ==
  ASSUME LocksInv, NEW u \in Users, Submit(u)
  PROVE  LocksInv'
<1>1. UNCHANGED <<role, account>>
  BY DEF Submit, Denied
<1>2. CASE UNCHANGED calls
  BY <1>1, <1>2 DEF LocksInv, IsActiveAdmin
<1>3. CASE ~UNCHANGED calls
  <2>1. PICK f \in page[u].forms :
          calls' = calls \cup {[by |-> u, token |-> session[u], side |-> page[u].side, act |-> f.act,
                                user |-> f.user, role |-> f.role, stage |-> "sent", late |-> FALSE,
                                spent |-> FALSE, admins |-> {}, held |-> {}]}
    BY <1>3 DEF Submit, Denied
  <2> DEFINE new == [by |-> u, token |-> session[u], side |-> page[u].side, act |-> f.act,
                     user |-> f.user, role |-> f.role, stage |-> "sent", late |-> FALSE,
                     spent |-> FALSE, admins |-> {}, held |-> {}]
  <2>2. calls' = calls \cup {new} /\ new.held = {} /\ new.stage = "sent"
    BY <2>1
  <2> HIDE DEF new
  <2> QED
    BY <1>1, <2>2 DEF LocksInv, IsActiveAdmin
<1> QED
  BY <1>2, <1>3

\* A call that ends keeps the rows in order.
LEMMA LocksGo ==
  ASSUME LocksInv, NEW c \in calls, calls' = calls \ {c}, UNCHANGED <<role, account>>
  PROVE  LocksInv'
BY DEF LocksInv, IsActiveAdmin

\* So does one that moves on with the rows and administrators it has.
LEMMA LocksMove ==
  ASSUME LocksInv, NEW c \in calls, NEW d, calls' = (calls \ {c}) \cup {d},
         d.stage # "locking" => d.held = {}, d.held = c.held,
         d.admins = c.admins \/ c.held = {}, UNCHANGED <<role, account>>
  PROVE  LocksInv'
<1>1. \A e \in calls' : e.stage # "locking" => e.held = {}
  BY DEF LocksInv
<1>2. \A e \in calls \ {c} : e.held \cap d.held = {}
  BY DEF LocksInv
<1>3. \A e, f \in calls' : e # f => e.held \cap f.held = {}
  BY <1>2 DEF LocksInv
<1>4. \A u \in d.admins \cap d.held : IsActiveAdmin(u)
  BY DEF LocksInv
<1>5. \A e \in calls' : \A u \in e.admins \cap e.held : IsActiveAdmin(u)'
  BY <1>4 DEF LocksInv, IsActiveAdmin
<1> QED
  BY <1>1, <1>3, <1>5 DEF LocksInv

\* The administrators are found before any row is locked.
LEMMA CallKeepsLocks ==
  ASSUME ConsoleInv, LocksInv, NEW c \in calls,
         TimeOut(c) \/ Admit(c) \/ Refuse(c) \/ Change(c) \/ FindAdmins(c) \/ RevokeGrants(c)
  PROVE  LocksInv'
<1>1. c \in Call /\ (c.stage # "locking" => c.held = {})
  BY DEF ConsoleInv, LocksInv
<1>2. UNCHANGED <<role, account>>
  BY DEF TimeOut, Admit, Refuse, Change, FindAdmins, RevokeGrants
<1>3. CASE TimeOut(c)
  <2> DEFINE d == [c EXCEPT !.late = TRUE]
  <2>1. d.stage = c.stage /\ d.held = c.held /\ d.admins = c.admins
    BY <1>1 DEF Call
  <2>2. calls' = (calls \ {c}) \cup {d}
    BY <1>3 DEF TimeOut
  <2> HIDE DEF d
  <2> QED
    BY <1>1, <1>2, <2>1, <2>2, LocksMove
<1>4. CASE Admit(c)
  <2> DEFINE d == [c EXCEPT !.stage = "admitted", !.spent = tokens[c.token].lost = "spent"]
  <2>1. d.held = c.held /\ d.admins = c.admins /\ c.held = {}
    BY <1>1, <1>4 DEF Call, Admit
  <2>2. calls' = (calls \ {c}) \cup {d}
    BY <1>4 DEF Admit, Becomes
  <2> HIDE DEF d
  <2> QED
    BY <1>2, <2>1, <2>2, LocksMove
<1>5. CASE FindAdmins(c)
  <2> DEFINE d == [c EXCEPT !.stage = "locking",
                            !.admins = IF c.role = "ADMIN" THEN {} ELSE ActiveAdmins]
  <2>1. d.held = c.held /\ c.held = {}
    BY <1>1, <1>5 DEF Call, FindAdmins
  <2>2. calls' = (calls \ {c}) \cup {d}
    BY <1>5 DEF FindAdmins, Becomes
  <2> HIDE DEF d
  <2> QED
    BY <1>2, <2>1, <2>2, LocksMove
<1>6. CASE Refuse(c) \/ RevokeGrants(c)
  <2>1. calls' = calls \ {c}
    BY <1>6 DEF Refuse, RevokeGrants
  <2> QED
    BY <1>2, <2>1, LocksGo
<1>7. CASE Change(c)
  <2> DEFINE d == [c EXCEPT !.act = "deactivateVariant", !.stage = "sent"]
  <2>1. d.held = c.held /\ d.admins = c.admins /\ c.held = {}
    BY <1>1, <1>7 DEF Call, Change
  <2>2. calls' = (calls \ {c}) \cup {d} \/ calls' = calls \ {c}
    BY <1>7 DEF Change, Rest
  <2> HIDE DEF d
  <2> QED
    BY <1>2, <2>1, <2>2, LocksMove, LocksGo
<1> QED
  BY <1>3, <1>4, <1>5, <1>6, <1>7

\* A row is locked when nobody has it, and found again only as an active administrator's.
LEMMA LockRowKeepsLocks ==
  ASSUME ConsoleInv, LocksInv, NEW c \in calls, LockRow(c)
  PROVE  LocksInv'
<1>0. PICK r \in Awaited(c) :
        /\ ~IsLocked(r)
        /\ calls' = (calls \ {c}) \cup
             {[c EXCEPT !.held = @ \cup {r}, !.admins = IF IsActiveAdmin(r) THEN @ ELSE @ \ {r}]}
  BY DEF LockRow, Becomes
<1> DEFINE d == [c EXCEPT !.held = @ \cup {r}, !.admins = IF IsActiveAdmin(r) THEN @ ELSE @ \ {r}]
<1>1. /\ calls' = (calls \ {c}) \cup {d} /\ c.stage = "locking" /\ ~IsLocked(r)
      /\ UNCHANGED <<role, account>>
  BY <1>0 DEF LockRow
<1>2. /\ d.held = c.held \cup {r} /\ d.stage = "locking" /\ d.admins \subseteq c.admins
      /\ r \in d.admins => IsActiveAdmin(r)
  BY <1>1 DEF ConsoleInv, Call
<1> HIDE DEF d
<1>3. \A e \in calls : r \notin e.held
  BY <1>1 DEF IsLocked
<1>4. \A e \in calls' : e.stage # "locking" => e.held = {}
  BY <1>1, <1>2 DEF LocksInv
<1>5. \A e \in calls \ {c} : e.held \cap d.held = {}
  BY <1>2, <1>3 DEF LocksInv
<1>6. \A e, f \in calls' : e # f => e.held \cap f.held = {}
  BY <1>1, <1>5 DEF LocksInv
<1>7. \A u \in d.admins \cap d.held : IsActiveAdmin(u)
  BY <1>2 DEF LocksInv
<1>8. \A e \in calls' : \A u \in e.admins \cap e.held : IsActiveAdmin(u)'
  BY <1>1, <1>7 DEF LocksInv, IsActiveAdmin
<1> QED
  BY <1>4, <1>6, <1>8 DEF LocksInv

\* A change of roles commits with the row of the user it changes, and releases its rows.
LEMMA AssignRoleKeepsLocks ==
  ASSUME ConsoleInv, LocksInv, NEW c \in calls, AssignRole(c)
  PROVE  LocksInv'
<1> DEFINE d == [c EXCEPT !.stage = "committed", !.admins = {}, !.held = {}]
<1>1. /\ calls' = (calls \ {c}) \cup {d} /\ c.user \in c.held
      /\ role' = [role EXCEPT ![c.user] = c.role] /\ UNCHANGED account
  BY AllLocked DEF AssignRole, Becomes
<1>2. d.held = {} /\ d.admins = {}
  BY DEF ConsoleInv, Call
<1> HIDE DEF d
<1>3. \A e \in calls' : e.stage # "locking" => e.held = {}
  BY <1>1, <1>2 DEF LocksInv
<1>4. \A e, f \in calls' : e # f => e.held \cap f.held = {}
  BY <1>1, <1>2 DEF LocksInv
<1>5. ASSUME NEW e \in calls', NEW u \in e.admins \cap e.held
      PROVE  IsActiveAdmin(u)'
  <2>1. e \in calls /\ e # c /\ u # c.user
    BY <1>1, <1>2, <1>5 DEF LocksInv
  <2>2. IsActiveAdmin(u) /\ u \in Users
    BY <2>1, <1>5 DEF LocksInv, ConsoleInv, Call
  <2> QED
    BY <1>1, <2>1, <2>2 DEF IsActiveAdmin, ConsoleInv
<1> QED
  BY <1>3, <1>4, <1>5 DEF LocksInv

\* A deletion changes an account whose row is free, or one that no longer counts.
LEMMA DeletionKeepsLocks ==
  ASSUME ConsoleInv, LocksInv, NEW u \in Users,
         BeginDeletion(u) \/ RemoveIdentity(u) \/ FinishDeletion(u)
  PROVE  LocksInv'
<1>1. UNCHANGED calls /\ \A v \in Users \ {u} : role'[v] = role[v] /\ account'[v] = account[v]
  BY DEF BeginDeletion, RemoveIdentity, FinishDeletion, ConsoleInv
<1>2. ~IsLocked(u) \/ account[u] # "active"
  BY DEF BeginDeletion, RemoveIdentity, FinishDeletion
<1>3. ASSUME NEW c \in calls, NEW v \in c.admins \cap c.held
      PROVE  IsActiveAdmin(v)'
  <2>1. IsActiveAdmin(v) /\ v \in Users
    BY <1>3 DEF LocksInv, ConsoleInv, Call
  <2>2. v # u
    BY <1>2, <1>3, <2>1 DEF IsLocked, IsActiveAdmin
  <2> QED
    BY <1>1, <2>1, <2>2 DEF IsActiveAdmin
<1> QED
  BY <1>1, <1>3 DEF LocksInv

\* Every step keeps the rows in order.
LEMMA StepLocks == ConsoleInv /\ LocksInv /\ [Next]_vars => LocksInv'
<1> SUFFICES ASSUME ConsoleInv, LocksInv, [Next]_vars PROVE LocksInv'
  OBVIOUS
<1>1. ASSUME NEW u \in Users, Submit(u) PROVE LocksInv'
  BY <1>1, SubmitKeepsLocks
<1>2. ASSUME NEW u \in Users, BeginDeletion(u) \/ RemoveIdentity(u) \/ FinishDeletion(u)
      PROVE  LocksInv'
  BY <1>2, DeletionKeepsLocks
<1>3. ASSUME NEW c \in calls,
             TimeOut(c) \/ Admit(c) \/ Refuse(c) \/ Change(c) \/ FindAdmins(c) \/ RevokeGrants(c)
      PROVE  LocksInv'
  BY <1>3, CallKeepsLocks
<1>4. ASSUME NEW c \in calls, LockRow(c) PROVE LocksInv'
  BY <1>4, LockRowKeepsLocks
<1>5. ASSUME NEW c \in calls, AssignRole(c) PROVE LocksInv'
  BY <1>5, AssignRoleKeepsLocks
<1>6. CASE UNCHANGED <<role, account, calls>>
  BY <1>6 DEF LocksInv, IsActiveAdmin
<1>7. ASSUME NEW u \in Users, Login(u) \/ \E side \in {"staff", "shop", "users"} : Load(u, side)
      PROVE  UNCHANGED <<role, account, calls>>
  BY <1>7 DEF Login, Load, Denied
<1>8. (\E t \in TokenIds : CacheExpires(t)) \/ Buy \/ UNCHANGED vars => UNCHANGED <<role, account, calls>>
  BY DEF CacheExpires, Buy, vars
<1> QED
  BY <1>1, <1>2, <1>3, <1>4, <1>5, <1>6, <1>7, <1>8 DEF Next

\* No row is held twice, always.
LEMMA LocksAlways == Spec => []LocksInv
<1>1. Init => LocksInv
  BY DEF Init, LocksInv
<1> QED
  BY <1>1, ConsoleAlways, StepLocks, PTL DEF Spec

-----------------------------------------------------------------------------
(* The theorems.                                                            *)

\* TypeOK of StaffConsole: the types, that a record stays in the states of its kind,
\* and that a session and a call only ever hold a token of their own user.
THEOREM ConsoleTypeCorrect == Spec => []TypeOK
<1>1. ConsoleInv => TypeOK
  BY DEF ConsoleInv, TypeOK, Call, Token
<1> QED
  BY <1>1, ConsoleAlways, PTL

\* However many administrators change each other's roles at once, late or during a
\* deletion, each with the administrators he found and locked, a change of roles leaves
\* an active administrator (UserService.updateRole).
THEOREM AdministratorRemains == Spec => LastAdminStays
<1>1. ASSUME ConsoleInv, LocksInv, [Next]_vars, InCharge, account' = account
      PROVE  InCharge'
  <2>1. CASE role' = role
    BY <1>1, <2>1 DEF InCharge, IsActiveAdmin
  <2>2. ASSUME NEW c \in calls, AssignRole(c)
        PROVE  InCharge'
    <3>1. /\ role' = [role EXCEPT ![c.user] = c.role] /\ MayAssign(c)
          /\ c.admins \subseteq c.held /\ c.admins \subseteq Users
      BY <1>1, <2>2, AllLocked DEF AssignRole, ConsoleInv, Call
    <3>2. PICK a \in Users : IsActiveAdmin(a)
      BY <1>1 DEF InCharge
    <3>3. CASE role[c.user] = "ADMIN" /\ c.role # "ADMIN"
      <4>1. Cardinality(c.admins) > 1
        BY <3>1, <3>3 DEF MayAssign
      <4>2. IsFiniteSet(c.admins)
        BY <3>1, ConsoleAssumption, FS_Subset
      <4>3. PICK v \in c.admins : v # c.user
        <5> SUFFICES ASSUME c.admins \subseteq {c.user} PROVE FALSE
          OBVIOUS
        <5>1. IsFiniteSet({c.user}) /\ Cardinality({c.user}) = 1
          BY FS_Singleton
        <5>2. Cardinality(c.admins) <= 1
          BY <5>1, FS_Subset
        <5> QED
          BY <4>1, <4>2, <5>2, FS_CardinalityType
      <4>4. IsActiveAdmin(v)
        BY <1>1, <3>1, <4>3 DEF LocksInv
      <4> QED
        BY <1>1, <3>1, <4>3, <4>4 DEF InCharge, IsActiveAdmin, ConsoleInv
    <3>4. CASE ~(role[c.user] = "ADMIN" /\ c.role # "ADMIN")
      BY <1>1, <3>1, <3>2, <3>4 DEF InCharge, IsActiveAdmin, ConsoleInv
    <3> QED
      BY <3>3, <3>4
  <2>3. ASSUME NEW u \in Users, FinishDeletion(u)
        PROVE  FALSE
    BY <1>1, <2>3 DEF FinishDeletion, ConsoleInv
  <2>4. role' = role \/ (\E c \in calls : AssignRole(c)) \/ \E u \in Users : FinishDeletion(u)
    BY <1>1 DEF Next, vars, Login, Submit, Denied, BeginDeletion, RemoveIdentity, Load, TimeOut,
       Admit, Refuse, Change, FindAdmins, LockRow, RevokeGrants, CacheExpires, Buy
  <2> QED
    BY <2>1, <2>2, <2>3, <2>4
<1>2. ConsoleInv /\ LocksInv /\ [Next]_vars => [InCharge /\ account' = account => InCharge']_vars
  BY <1>1
<1> QED
  BY <1>2, ConsoleAlways, LocksAlways, PTL DEF Spec, LastAdminStays

\* Once a reported loss of a role has outlived the introspection cache, no call is let in
\* any more with a token from before, and so none that comes in then changes anything
\* (HydraTokenIntrospector, RevokeGrants).  A call that was let in earlier may.
THEOREM LostRolesArePowerless == Spec => LostRoleIsPowerless
<1>1. ConsoleInv /\ [Next]_vars =>
        [\A c \in calls : (c \notin calls' /\ c.spent) => UNCHANGED <<record, role>>]_vars
  BY DEF ConsoleInv, Sound
<1> QED
  BY <1>1, ConsoleAlways, PTL DEF Spec, LostRoleIsPowerless
=============================================================================
