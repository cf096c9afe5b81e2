CONSTANTS
  ann = ann
  ben = ben
  cay = cay
  t1 = t1
  t2 = t2
  Users = {ann, ben, cay}
  Owner = cay
  Id <- ThreeUsers
  TokenIds = {t1, t2}
  Subjects = {"users"}
  MaxOpen = 2
  Faults = FALSE
SPECIFICATION Spec
SYMMETRY TokenSymmetry
INVARIANT DemotionsDoNotDeadlock
CHECK_DEADLOCK FALSE
