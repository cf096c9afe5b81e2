----------------------------- MODULE StaffConsole -----------------------------
(***************************************************************************)
(* The staff console and the customer's own pages: what their forms offer, *)
(* the server actions behind them (src/frontend/src/lib/admin, lib/orders, *)
(* lib/reviews) and the two checks every change passes, the session check  *)
(* of the storefront and the token check of the API.                       *)
(*                                                                         *)
(* All forms work on one record: a product with its variant, a gallery, a  *)
(* category, a delivery option, a review, a paid order, a refund request,  *)
(* an address or, when the subject is "users", the accounts themselves.    *)
(* A page offers forms for the record as it was when it was loaded; a      *)
(* server action checks the session and calls the API, which checks the    *)
(* token when the call comes in and executes it later, by when the record, *)
(* the role of its user and the token may have changed.  The server action *)
(* gives up after a while, and the API may execute the call all the same.  *)
(*                                                                         *)
(* Bounds: MaxOpen pages and calls at a time, one of them late.  Beside a  *)
(* record, one call on the record and one change of the Owner's role are   *)
(* under way at a time, and no account is deleted: several changes of      *)
(* roles at once, late ones and deletions are the behaviours of the        *)
(* subject "users", where only administrators with a second factor log in: *)
(* nobody else has a form there.                                           *)
(***************************************************************************)
EXTENDS Naturals, FiniteSets

CONSTANTS Users,
          Owner,       \* whose order, review or address the record is
          TokenIds,    \* access tokens: as many as are remembered at a time
          Id,          \* the number of each user: rows of users are locked in its order
          Subjects,    \* the kinds of records
          MaxOpen,     \* bound on the open pages and the calls under way
          Faults       \* whether a call can time out, or a revocation fail

None == "none"
Roles == {"ADMIN", "CATALOG_MANAGER", "ORDER_MANAGER", "USER"}

ASSUME ConsoleAssumption ==
  /\ IsFiniteSet(Users) /\ Owner \in Users /\ MaxOpen \in Nat /\ Faults \in BOOLEAN
  /\ Id \in [Users -> Nat] /\ \A u, v \in Users : Id[u] = Id[v] => u = v
  /\ None \notin Users \cup TokenIds

VARIABLES
  subject,  \* the kind of the record
  record,   \* its state
  role,     \* the role of each user in the database
  account,  \* how far the deletion of each account has come
  tokens,   \* the access tokens
  session,  \* the token of the browser session of each user
  page,     \* the page each user has open: its side of the site and its forms
  calls     \* server actions that wait for the API, which has let them in or not, and of
            \* a change of roles the administrators it has found and the rows it has locked

vars == <<subject, record, role, account, tokens, session, page, calls>>

\* status: "live" while it is active at Hydra, "cached" when it is not, but the
\* introspection cache still holds an answer from before, then "dead", when its role
\* counts no more.
\* lost: history.  "reported" when a change of its user's role has been reported done
\* since it was issued, "spent" when also the cached answers of that time have expired.
DeadToken(u, lost) == [user |-> u, role |-> None, aal2 |-> FALSE, status |-> "dead", lost |-> lost]
NoToken == DeadToken(None, None)
NoPage == [side |-> None, forms |-> {}]

-----------------------------------------------------------------------------
(* What the API makes of each action, per kind of record.  An action that   *)
(* no edge allows from the present state is refused.                        *)

Edge(a, from, to) == {[act |-> a, from |-> s, to |-> to] : s \in from}
Stay(a, states) == {[act |-> a, from |-> s, to |-> s] : s \in states}

\* A product and one variant of it: "sold" and "retired" are an active and an inactive
\* variant with order history, which keeps both from being deleted.
Variant == {"active", "inactive", "sold", "retired"}
ProductEdges ==
  Edge("createProduct", {"absent"}, "bare")
  \cup Edge("importProducts", {"absent"}, "active")
  \cup Stay("updateProductDetails", Variant \cup {"bare"})
  \cup Stay("saveBrand", Variant \cup {"bare"})
  \cup Edge("deleteProduct", {"bare", "active", "inactive"}, "absent")
VariantEdges ==
  Edge("createVariant", {"bare"}, "active") \cup Stay("createVariant", Variant)
  \cup Edge("createInactiveVariant", {"bare"}, "active") \cup Stay("createInactiveVariant", Variant)
  \cup Edge("activateVariant", {"active", "inactive"}, "active")
  \cup Edge("activateVariant", {"sold", "retired"}, "sold")
  \cup Edge("deactivateVariant", {"active", "inactive"}, "inactive")
  \cup Edge("deactivateVariant", {"sold", "retired"}, "retired")
  \cup Edge("deleteVariant", {"active", "inactive"}, "bare")
  \cup Stay("saveVariantMeasures", Variant) \cup Stay("setStock", Variant)
\* The gallery of a product, by its number of images.
GalleryEdges ==
  Edge("uploadImage", {"empty"}, "one") \cup Edge("uploadImage", {"one"}, "two")
  \cup Edge("removeImage", {"two"}, "one") \cup Edge("removeImage", {"one"}, "empty")
  \cup Stay("updateAlt", {"one", "two"}) \cup Stay("makePrimary", {"one", "two"})
  \cup Stay("moveImage", {"two"})
\* A category: "parent" has a subcategory, which keeps it from being deleted.
CategoryEdges ==
  Edge("createCategory", {"absent"}, "leaf") \cup Edge("createSubcategory", {"leaf", "parent"}, "parent")
  \cup Stay("updateCategory", {"leaf", "parent"}) \cup Edge("moveSubcategory", {"parent"}, "leaf")
  \cup Edge("deleteCategory", {"leaf"}, "absent")
DeliveryEdges ==
  Edge("createDeliveryOption", {"absent"}, "active")
  \cup Edge("createInactiveOption", {"absent"}, "inactive")
  \cup Edge("activateOption", {"active", "inactive"}, "active")
  \cup Edge("deactivateOption", {"active", "inactive"}, "inactive")
  \cup Edge("deleteDeliveryOption", {"active", "inactive"}, "absent")
\* An edit leaves a hidden review hidden.
ReviewEdges ==
  Edge("saveReview", {"absent"}, "visible") \cup Stay("saveReview", {"visible", "hidden"})
RemoveReviewEdges == Edge("removeReview", {"visible", "hidden"}, "absent")
HelpfulEdges == Stay("setHelpful", {"visible"})
ModerationEdges ==
  Edge("hideReview", {"visible", "hidden"}, "hidden") \cup Edge("restoreReview", {"visible", "hidden"}, "visible")
\* A paid order that is to be shipped: "+" when it has tracking details.
OrderEdges ==
  Edge("markProcessing", {"PAID"}, "PROCESSING") \cup Edge("markProcessing", {"PAID+"}, "PROCESSING+")
  \cup Edge("markShipping", {"PROCESSING+"}, "SHIPPING") \cup Edge("markCompleted", {"SHIPPING"}, "COMPLETED")
  \cup Edge("staffSetTracking", {"PAID", "PAID+"}, "PAID+")
  \cup Edge("staffSetTracking", {"PROCESSING", "PROCESSING+"}, "PROCESSING+")
  \cup Stay("staffSetTracking", {"SHIPPING", "COMPLETED"})
  \cup Edge("staffCancel", {"PAID", "PAID+", "CANCELLED"}, "CANCELLED")
MyOrderEdges == Edge("cancelMyOrder", {"PAID", "PAID+", "CANCELLED"}, "CANCELLED")
\* The refund request of a completed order.
MyRefundEdges == Edge("requestMyRefund", {"NONE", "REJECTED", "REQUESTED"}, "REQUESTED")
\* Mutant: a request that has been approved can be rejected.
RefundEdges_Redecided ==
  Edge("staffApproveRefund", {"REQUESTED"}, "APPROVED")
  \cup Edge("staffRejectRefund", {"REQUESTED", "APPROVED"}, "REJECTED")
RefundEdges ==
  Edge("staffApproveRefund", {"REQUESTED"}, "APPROVED")
  \cup Edge("staffRejectRefund", {"REQUESTED"}, "REJECTED")
AddressEdges ==
  Edge("addMyAddress", {"absent"}, "saved") \cup Stay("updateMyAddress", {"saved"})
  \cup Edge("deleteMyAddress", {"saved"}, "absent")

Edges == [product |-> ProductEdges \cup VariantEdges, gallery |-> GalleryEdges,
          category |-> CategoryEdges, delivery |-> DeliveryEdges,
          review |-> ReviewEdges \cup RemoveReviewEdges \cup HelpfulEdges \cup ModerationEdges,
          order |-> OrderEdges \cup MyOrderEdges, refund |-> RefundEdges \cup MyRefundEdges, address |-> AddressEdges, users |-> {}]
First == [product |-> "absent", gallery |-> "empty", category |-> "absent", delivery |-> "absent",
          review |-> "absent", order |-> "PAID", refund |-> "NONE", address |-> "absent", users |-> None]
States(kind) == {First[kind]} \cup {e.to : e \in Edges[kind]}
                  \cup (IF kind = "product" THEN {"sold", "retired"} ELSE {})

-----------------------------------------------------------------------------
(* The forms on the pages, for the role of the session and the state shown. *)

NewProductForms(seen) == IF seen = "absent" THEN {"createProduct"} ELSE {}
ImportForms(seen) == IF seen = "absent" THEN {"importProducts"} ELSE {}
ProductForms(r, seen) ==
  IF seen = "absent" THEN {}
  ELSE {"updateProductDetails", "saveBrand", "deleteProduct", "createVariant", "createInactiveVariant"}
VariantForms(r, seen) ==
  IF seen \notin Variant THEN {}
  ELSE {"activateVariant", "deactivateVariant", "deleteVariant", "saveVariantMeasures"}
         \cup (IF r = "ADMIN" THEN {"setStock"} ELSE {})
GalleryForms(r, seen) ==
  {"uploadImage"} \cup (IF seen = "empty" THEN {} ELSE {"updateAlt", "removeImage", "makePrimary"})
                  \cup (IF seen = "two" THEN {"moveImage"} ELSE {})
CategoryForms(r, seen) ==
  IF seen = "absent" THEN {"createCategory"}
  ELSE {"createSubcategory", "updateCategory", "deleteCategory"}
         \cup (IF seen = "parent" THEN {"moveSubcategory"} ELSE {})
DeliveryForms(r, seen) ==
  IF seen = "absent" THEN {"createDeliveryOption", "createInactiveOption"}
  ELSE {"activateOption", "deactivateOption", "deleteDeliveryOption"}
ModerationForms(r, seen) ==
  CASE seen = "visible" -> {"hideReview"} [] seen = "hidden" -> {"restoreReview"} [] OTHER -> {}
ReviewForms(u, r, seen) ==
  IF r # "USER" THEN {}
  ELSE IF u # Owner THEN IF seen = "visible" THEN {"setHelpful"} ELSE {}
  ELSE {"saveReview"} \cup (IF seen = "absent" THEN {} ELSE {"removeReview"})
\* allowedStatusTransitions and cancellationEligibility come with the order.
OrderForms(r, seen) ==
  (IF seen = "CANCELLED" THEN {} ELSE {"staffSetTracking"})
  \cup {e.act : e \in {d \in OrderEdges : d.from = seen /\ seen # "CANCELLED" /\
                                     d.act \in {"markProcessing", "markShipping", "markCompleted", "staffCancel"}}}
  \cup (IF seen = "PROCESSING" THEN {"markShipping"} ELSE {})
RequestForms(r, seen) ==
  IF seen = "REQUESTED" THEN {"staffApproveRefund", "staffRejectRefund"} ELSE {}
MyOrderForms(seen) ==
  IF seen \in {"PAID", "PAID+"} THEN {"cancelMyOrder"}
  ELSE IF seen \in {"NONE", "REJECTED"} THEN {"requestMyRefund"} ELSE {}
AddressForms(seen) == {"addMyAddress"} \cup (IF seen = "saved" THEN {"updateMyAddress", "deleteMyAddress"} ELSE {})

StaffForms(r, seen) ==
  CASE subject = "product" -> NewProductForms(seen) \cup ImportForms(seen) \cup ProductForms(r, seen)
                              \cup VariantForms(r, seen)
    [] subject = "gallery" -> GalleryForms(r, seen)
    [] subject = "category" -> CategoryForms(r, seen)
    [] subject = "delivery" -> DeliveryForms(r, seen)
    [] subject = "review" -> ModerationForms(r, seen)
    [] subject = "order" -> OrderForms(r, seen)
    [] subject = "refund" -> RequestForms(r, seen)
    [] OTHER -> {}
ShopForms(u, r, seen) ==
  CASE subject = "review" -> ReviewForms(u, r, seen)
    [] subject \in {"order", "refund"} /\ u = Owner -> MyOrderForms(seen)
    [] subject = "address" /\ u = Owner -> AddressForms(seen)
    [] OTHER -> {}
-----------------------------------------------------------------------------
(* The two checks.                                                          *)

adminRoles == {"ADMIN", "CATALOG_MANAGER"}
orderRoles == {"ADMIN", "ORDER_MANAGER"}
adminOnly == {"ADMIN"}

\* Which roles a side of the site is open to: adminAccess, or the customer's session.
SideRoles(side) ==
  CASE side = "shop" -> Roles
    [] side = "users" \/ subject = "delivery" -> adminOnly
    [] subject \in {"order", "refund"} -> orderRoles
    [] subject \in {"address", "users"} -> {}
    [] OTHER -> adminRoles

Assignable == SideRoles("staff") \cup {"ADMIN", "USER"}

\* The page of users offers every role for every user.  A role that opens nothing here
\* is like any other such role: the customer's stands for them.
Reassigned == IF subject = "users" THEN Users ELSE {Owner}
RoleForms(r) ==
  IF r = "ADMIN" THEN [act : {"changeUserRole"}, user : Reassigned, role : Assignable] ELSE {}

Forms(u, side, r, seen) ==
  CASE side = "staff" -> [act : StaffForms(r, seen), user : {None}, role : {None}]
    [] side = "shop" -> [act : ShopForms(u, r, seen), user : {None}, role : {None}]
    [] OTHER -> RoleForms(r)

\* @PreAuthorize of the mutation; the customer's mutations ask for a scope that every
\* role has.
ApiRoles(c) ==
  CASE c.act = "changeUserRole" -> adminOnly
    [] c.act = "setStock" -> {"WAREHOUSE", "ADMIN"}
    [] OTHER -> SideRoles(c.side)

\* HydraTokenIntrospector: a token is accepted while it is active at Hydra, or as
\* long as its last active answer is cached.
Accepted(t) == tokens[t].status # "dead"

\* A staff role counts only in a token of an AAL2 session.
Holds(t, roles) ==
  /\ tokens[t].role \in roles
  /\ tokens[t].role = "USER" \/ tokens[t].aal2 \/ roles = Roles

Authorized(c) == Accepted(c.token) /\ Holds(c.token, ApiRoles(c))

\* authenticatedState: the identity exists, "me" accepts the token, and the role is
\* still the one of the login.
SessionHolds(u) ==
  /\ session[u] # None /\ Accepted(session[u])
  /\ account[u] \in {"active", "deleting"} /\ role[u] = tokens[session[u]].role
Gate(u, side) == SessionHolds(u) /\ Holds(session[u], SideRoles(side))

\* A token nobody presents any more is forgotten.
Presented == {session'[u] : u \in Users} \cup {c.token : c \in calls'}
Kept(T) == [t \in TokenIds |-> IF t \in Presented THEN T[t] ELSE NoToken]

-----------------------------------------------------------------------------
(* Init and the steps of users.                                             *)

Init ==
  /\ subject \in Subjects /\ record = First[subject]
  /\ role \in {r \in [Users -> Assignable] : \A u \in Users \ {Owner} : r[u] = "ADMIN"}
  /\ account = [u \in Users |-> "active"]
  /\ tokens = [t \in TokenIds |-> NoToken] /\ session = [u \in Users |-> None]
  /\ page = [u \in Users |-> NoPage] /\ calls = {}

\* Mutant: a second login can be handed the token of the first.
Login_AnyToken(u) ==
  /\ session[u] = None /\ account[u] \in {"active", "deleting"}
  /\ \E t \in TokenIds :
       /\ session' = [session EXCEPT ![u] = t]
       /\ tokens' = [tokens EXCEPT ![t] =
            [user |-> u, role |-> role[u], aal2 |-> TRUE, status |-> "live", lost |-> None]]
  /\ UNCHANGED <<subject, record, role, account, page, calls>>
\* A login mints a token with the role of now, for a session with or without a second
\* factor.
Login(u) ==
  /\ session[u] = None /\ account[u] \in {"active", "deleting"}
  /\ \E t \in TokenIds, aal2 \in BOOLEAN :
       /\ tokens[t] = NoToken /\ (role[u] = "USER" => aal2 = FALSE) /\ (subject = "users" => aal2)
       /\ session' = [session EXCEPT ![u] = t]
       /\ tokens' = [tokens EXCEPT ![t] =
            [user |-> u, role |-> role[u], aal2 |-> aal2, status |-> "live", lost |-> None]]
  /\ UNCHANGED <<subject, record, role, account, page, calls>>

\* A session whose check fails is ended (revokeBrowser); one that only lacks the role
\* or the second factor for an area is shown AdminDenied.
Denied(u) ==
  /\ page' = [page EXCEPT ![u] = NoPage]
  /\ session' = IF SessionHolds(u) THEN session ELSE [session EXCEPT ![u] = None]
  /\ UNCHANGED <<subject, record, role, account, calls>>
  /\ tokens' = Kept(tokens)

Opened == {u \in Users : page[u] # NoPage}

\* A page without forms is like none.
Shown(side, forms) == IF forms = {} THEN NoPage ELSE [side |-> side, forms |-> forms]

\* A page is loaded, or loaded again.
Load(u, side) ==
  /\ session[u] # None /\ \A c \in calls : c.by = u => c.late
  /\ IF Gate(u, side)
     THEN /\ Cardinality(calls) + Cardinality(Opened \cup {u}) <= MaxOpen
          /\ page' = [page EXCEPT ![u] = Shown(side, Forms(u, side, tokens[session[u]].role, record))]
          /\ UNCHANGED <<subject, record, role, account, tokens, session, calls>>
     ELSE Denied(u)

\* The bound on the calls beside one another.
IsRoleChange(act) == act = "changeUserRole"
RoomFor(act) == subject = "users" \/ \A c \in calls : IsRoleChange(c.act) # IsRoleChange(act)

\* A form on the page can be submitted, and is so once.
Submittable(u) == page[u] # NoPage /\ session[u] # None

\* A form is submitted: the server action checks the session before it calls the API,
\* whose answer redirects to a page that is loaded anew.
Submit(u) ==
  /\ Submittable(u)
  /\ IF Gate(u, page[u].side)
     THEN /\ \E f \in page[u].forms :
               /\ RoomFor(f.act)
               /\ calls' = calls \cup {[by |-> u, token |-> session[u], side |-> page[u].side, act |-> f.act,
                                        user |-> f.user, role |-> f.role, stage |-> "sent", late |-> FALSE,
                                        spent |-> FALSE, admins |-> {}, held |-> {}]}
          /\ page' = [page EXCEPT ![u] = NoPage]
          /\ UNCHANGED <<subject, record, role, account, tokens, session>>
     ELSE Denied(u)

\* AbortSignal.timeout: the page shows an error, and the call goes on.
TimeOut(c) ==
  /\ Faults /\ (\A d \in calls : ~d.late) /\ (subject = "users" \/ ~IsRoleChange(c.act))
  /\ calls' = (calls \ {c}) \cup {[c EXCEPT !.late = TRUE]}
  /\ UNCHANGED <<subject, record, role, account, tokens, session, page>>

-----------------------------------------------------------------------------
(* The API.                                                                 *)

Becomes(c, d) == calls' = (calls \ {c}) \cup {d}

\* The call comes in: the token is introspected and the role checked, once.  History:
\* whether the token was spent by then.
Admit(c) ==
  /\ c.stage = "sent" /\ Authorized(c)
  /\ Becomes(c, [c EXCEPT !.stage = "admitted", !.spent = tokens[c.token].lost = "spent"])
  /\ UNCHANGED <<subject, record, role, account, tokens, session, page>>

\* A call that fails before it commits: not authorized, not allowed, lost, ended as the
\* victim of a deadlock.
Refuse(c) ==
  /\ c.stage # "committed"
  /\ calls' = calls \ {c}
  /\ UNCHANGED <<subject, record, role, account, session, page>>
  /\ tokens' = Kept(tokens)

Allowed(c) == {e \in Edges[subject] : e.act = c.act /\ e.from = record}

\* createVariant without "Active" is two calls: the variant is created, then deactivated.
Rest(c) == IF c.act = "createInactiveVariant" /\ record = "bare" /\ ~c.late
           THEN {[c EXCEPT !.act = "deactivateVariant", !.stage = "sent"]} ELSE {}

Change(c) ==
  /\ c.act # "changeUserRole" /\ c.stage = "admitted"
  /\ \E e \in Allowed(c) : record' = e.to
  /\ calls' = (calls \ {c}) \cup Rest(c)
  /\ UNCHANGED <<subject, role, account, session, page>>
  /\ tokens' = Kept(tokens)

IsActiveAdmin(u) == role[u] = "ADMIN" /\ account[u] = "active"
ActiveAdmins == {u \in Users : IsActiveAdmin(u)}

\* findActiveAdminsForUpdate finds the active administrators, unless the new role is
\* ADMIN, and locks their rows one by one in the order of their ids.
FindAdmins(c) ==
  /\ c.act = "changeUserRole" /\ c.stage = "admitted"
  /\ Becomes(c, [c EXCEPT !.stage = "locking", !.admins = IF c.role = "ADMIN" THEN {} ELSE ActiveAdmins])
  /\ UNCHANGED <<subject, record, role, account, tokens, session, page>>

\* The row a change of roles waits for: of the administrators it has found, the next in
\* the order of ids, and after them the one of findLockedById.
Awaited(c) ==
  LET rest == c.admins \ c.held
  IN  IF rest = {} THEN {c.user} \ c.held ELSE {u \in rest : \A v \in rest : Id[u] <= Id[v]}

\* Mutant: rows are read without locks.
IsLocked_Never(u) == FALSE
IsLocked(u) == \E c \in calls : u \in c.held

\* A row is locked once nobody else has it, and is no longer found when it has stopped
\* to be that of an active administrator meanwhile.
LockRow(c) ==
  /\ c.stage = "locking"
  /\ \E u \in Awaited(c) :
       /\ ~IsLocked(u)
       /\ Becomes(c, [c EXCEPT !.held = @ \cup {u}, !.admins = IF IsActiveAdmin(u) THEN @ ELSE @ \ {u}])
  /\ UNCHANGED <<subject, record, role, account, tokens, session, page>>

\* updateRole: nobody demotes himself, or the last active administrator.
MayAssign(c) ==
  /\ account[c.user] = "active"
  /\ role[c.user] = "ADMIN" /\ c.role # "ADMIN" => c.by # c.user /\ Cardinality(c.admins) > 1

\* The role is changed, the rows are released; the grants are revoked after the commit.
AssignRole(c) ==
  /\ c.stage = "locking" /\ Awaited(c) = {} /\ MayAssign(c)
  /\ role' = [role EXCEPT ![c.user] = c.role]
  /\ Becomes(c, [c EXCEPT !.stage = "committed", !.admins = {}, !.held = {}])
  /\ UNCHANGED <<subject, record, account, tokens, session, page>>

\* revokeUser ends every grant of a user, whose answers from before are still cached for
\* a moment, or no time at all; the administrator who is told so (history) relies on it.
Revoked(u, reported) ==
  [t \in TokenIds |->
     IF tokens[t].user = u /\ Accepted(t)
     THEN [tokens[t] EXCEPT !.status = "cached", !.lost = IF reported /\ @ # "spent" THEN "reported" ELSE @]
     ELSE tokens[t]]

\* revokeGrantsAfterCommit.  Without an answer, or after an error, the administrator
\* is to repeat the change, which revokes again whatever the role was before.
RevokeGrants(c) ==
  /\ c.act = "changeUserRole" /\ c.stage = "committed"
  /\ calls' = calls \ {c}
  /\ UNCHANGED <<subject, record, role, account, session, page>>
  /\ \/ tokens' = Kept(Revoked(c.user, ~c.late))
     \/ Faults /\ tokens' = Kept(tokens)

\* Ten seconds after its introspection the answer is asked for anew.
\* Mutant: the ten seconds start again with every use.
CacheExpires_Sliding(t) ==
  /\ tokens[t].lost = "reported"
  /\ tokens' = [tokens EXCEPT ![t].lost = "spent"]
  /\ UNCHANGED <<subject, record, role, account, session, page, calls>>
CacheExpires(t) ==
  /\ tokens[t].status = "cached"
  /\ tokens' = [tokens EXCEPT ![t] =
                  DeadToken(@.user, IF @.lost = "reported" THEN "spent" ELSE None)]
  /\ UNCHANGED <<subject, record, role, account, session, page, calls>>

\* A customer buys the variant.
Buy ==
  /\ subject = "product" /\ record = "active"
  /\ record' = "sold"
  /\ UNCHANGED <<subject, role, account, tokens, session, page, calls>>

\* deleteById, called by an administrator's client of the API: the account is marked,
\* the identity and the grants are removed, and then the account is emptied.  Both
\* transactions lock its row.  A failure leaves it for a repetition.
BeginDeletion(u) ==
  /\ subject = "users" /\ (\A v \in Users : account[v] = "active") /\ ~IsLocked(u)
  /\ \E t \in TokenIds : tokens[t].role = "ADMIN" /\ tokens[t].aal2 /\ Accepted(t)
  /\ account' = [account EXCEPT ![u] = "deleting"]
  /\ UNCHANGED <<subject, record, role, tokens, session, page, calls>>
RemoveIdentity(u) ==
  /\ account[u] = "deleting"
  /\ account' = [account EXCEPT ![u] = "removed"]
  /\ UNCHANGED <<subject, record, role, session, page, calls>>
  /\ tokens' = Revoked(u, FALSE)
FinishDeletion(u) ==
  /\ account[u] = "removed" /\ ~IsLocked(u)
  /\ account' = [account EXCEPT ![u] = "deleted"] /\ role' = [role EXCEPT ![u] = "USER"]
  /\ UNCHANGED <<subject, record, session, page, calls>>
  /\ tokens' = Revoked(u, TRUE)

Next ==
  \/ \E u \in Users :
       \/ Login(u) \/ Submit(u) \/ BeginDeletion(u) \/ RemoveIdentity(u) \/ FinishDeletion(u)
       \/ \E side \in {"staff", "shop", "users"} : Load(u, side)
  \/ \E c \in calls :
       \/ TimeOut(c) \/ Admit(c) \/ Refuse(c) \/ Change(c)
       \/ FindAdmins(c) \/ LockRow(c) \/ AssignRole(c) \/ RevokeGrants(c)
  \/ \E t \in TokenIds : CacheExpires(t)
  \/ Buy

Spec == Init /\ [][Next]_vars

-----------------------------------------------------------------------------
(* Properties.                                                              *)

\* Every variable keeps its type, and the record stays in the states of its kind.
TypeOK ==
  /\ subject \in Subjects /\ record \in States(subject)
  /\ role \in [Users -> Roles]
  /\ account \in [Users -> {"active", "deleting", "removed", "deleted"}]
  /\ \A t \in TokenIds : tokens[t] = NoToken \/
       (tokens[t].user \in Users /\ tokens[t].lost \in {None, "reported", "spent"})
  /\ session \in [Users -> TokenIds \cup {None}]
  /\ \A u \in Users : session[u] # None => tokens[session[u]].user = u
  /\ \A c \in calls : c.by \in Users /\ tokens[c.token].user = c.by

\* Somebody administers the shop.
InCharge == \E u \in Users : IsActiveAdmin(u)

\* However the administrators change each other's roles, at the same time, late or
\* while an account is being deleted, each on the administrators he has found and
\* locked, a change of roles never leaves the shop without an active administrator
\* (UserService.updateRole).
LastAdminStays == [][InCharge /\ account' = account => InCharge']_vars

\* Once a change of a user's role has been reported done, and what the introspection
\* cache knew then has expired, no call that comes in changes anything with a token from
\* before.  A call that was let in earlier may still be executed.
LostRoleIsPowerless ==
  [][\A c \in calls : (c \notin calls' /\ c.spent) => UNCHANGED <<record, role>>]_vars

Staffed == \E c \in calls : c \notin calls' /\ c.side = "staff"

\* However late a form is submitted or executed, with a page that shows the record as it
\* was before somebody else's decision: what has been sold is not deleted, a shipped
\* order is not cancelled nor a cancelled one revived, an approved refund is not
\* rejected, and only staff make a hidden review visible.
DecisionsStand ==
  [][/\ subject = "product" /\ record \in {"sold", "retired"} => record' \in {"sold", "retired"}
     /\ subject = "order" /\ record \in {"SHIPPING", "COMPLETED"} => record' # "CANCELLED"
     /\ subject = "order" /\ record = "CANCELLED" => record' = "CANCELLED"
     /\ subject = "refund" /\ record = "APPROVED" => record' = "APPROVED"
     /\ subject = "review" /\ record = "hidden" /\ record' = "visible" => Staffed]_vars

\* "Locks every active ADMIN row in id order (consistent ordering avoids lock-order
\* deadlocks)" (UserRepository.java): no two changes of roles wait for each other's rows,
\* while no account is being deleted.
AwaitsRowOf(c, d) == c.stage = "locking" /\ Awaited(c) \cap d.held # {}
DemotionsDoNotDeadlock ==
  (\A u \in Users : account[u] = "active") =>
    \A c, d \in calls : ~(AwaitsRowOf(c, d) /\ AwaitsRowOf(d, c))
=============================================================================
