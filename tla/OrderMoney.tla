----------------------------- MODULE OrderMoney -----------------------------
(***************************************************************************)
(* What the shop promises about one order's goods and money, without       *)
(* messages, databases or retries: the provider takes the money at most    *)
(* once, goods move only against money that was taken, and money returns   *)
(* only if the shop has decided so, which it must do for a cancelled order *)
(* that it has confirmed as paid.                                          *)
(*                                                                         *)
(* The shop learns of the charge some time after the provider made it;     *)
(* "known" is that knowledge.                                              *)
(***************************************************************************)
CONSTANTS Orders

VARIABLES
    goods,   \* "cart", "reserved", "sold", "moving" or "released"
    money,   \* the provider's books: "none", "taken" or "returned"
    known,   \* orders whose charge the shop has recorded
    due      \* orders whose money the shop has decided to return

vars == <<goods, money, known, due>>

Init ==
    /\ goods = [o \in Orders |-> "cart"]
    /\ money = [o \in Orders |-> "none"]
    /\ known = {}
    /\ due = {}

Place(o) ==
    /\ goods[o] = "cart"
    /\ goods' = [goods EXCEPT ![o] = "reserved"]
    /\ UNCHANGED <<money, known, due>>

\* The provider may take the money also after the customer has cancelled.
Charge(o) ==
    /\ goods[o] # "cart"
    /\ money[o] = "none"
    /\ money' = [money EXCEPT ![o] = "taken"]
    /\ UNCHANGED <<goods, known, due>>

\* The shop records the charge: it sells what it still holds and owes the
\* money of what it has released.
Learn(o) ==
    /\ money[o] = "taken"
    /\ o \notin known
    /\ known' = known \cup {o}
    /\ \/ /\ goods[o] = "reserved"
          /\ goods' = [goods EXCEPT ![o] = "sold"]
          /\ UNCHANGED due
       \/ /\ goods[o] = "released"
          /\ due' = due \cup {o}
          /\ UNCHANGED goods
    /\ UNCHANGED money

Cancel(o) ==
    /\ goods[o] \in {"reserved", "sold"}
    /\ goods' = [goods EXCEPT ![o] = "released"]
    /\ due' = IF o \in known THEN due \cup {o} ELSE due
    /\ UNCHANGED <<money, known>>

Move(o) ==
    /\ goods[o] = "sold"
    /\ goods' = [goods EXCEPT ![o] = "moving"]
    /\ UNCHANGED <<money, known, due>>

\* Staff may return the money of goods the customer keeps.
Grant(o) ==
    /\ goods[o] \in {"sold", "moving"}
    /\ due' = due \cup {o}
    /\ UNCHANGED <<goods, money, known>>

Return(o) ==
    /\ o \in due
    /\ money[o] = "taken"
    /\ money' = [money EXCEPT ![o] = "returned"]
    /\ UNCHANGED <<goods, known, due>>

Next ==
    \E o \in Orders :
        Place(o) \/ Charge(o) \/ Learn(o) \/ Cancel(o) \/ Move(o) \/ Grant(o) \/ Return(o)

Spec == Init /\ [][Next]_vars

\* Nothing leaves the shop unpaid, nothing is returned that was not taken, and
\* a cancelled order's money, once known, is always due.
Promise ==
    \A o \in Orders :
        /\ goods[o] \in {"sold", "moving"} => money[o] # "none"
        /\ money[o] = "returned" => o \in due
        /\ goods[o] = "released" /\ o \in known => o \in due
=============================================================================
