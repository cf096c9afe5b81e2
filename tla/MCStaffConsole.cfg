CONSTANTS
  ann = ann
  ben = ben
  cay = cay
  t1 = t1
  t2 = t2
  Users = {ann, ben}
  Owner = ben
  Id <- TwoUsers
  TokenIds = {t1, t2}
  Subjects = {"product", "gallery", "category", "delivery", "review", "order", "refund", "address", "users"}
  MaxOpen = 2
  Faults = TRUE
SPECIFICATION Spec
SYMMETRY TokenSymmetry
INVARIANT TypeOK
PROPERTIES LastAdminStays LostRoleIsPowerless DecisionsStand
CHECK_DEADLOCK FALSE
