---------------------------- MODULE MCStaffConsole ----------------------------
(* Small instances of StaffConsole: users who are staff or customers.         *)
EXTENDS StaffConsole, TLC

CONSTANTS ann, ben, cay, t1, t2

TokenSymmetry == Permutations(TokenIds)

\* The Owner has the lowest number.
TwoUsers == (ben :> 1) @@ (ann :> 2)
ThreeUsers == (cay :> 1) @@ (ann :> 2) @@ (ben :> 3)
=============================================================================
