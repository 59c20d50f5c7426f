SPECIFICATION Spec
CONSTANTS
  u1 = u1
  u2 = u2
  t1 = t1
  t2 = t2
  Users = {u1, u2}
  Tasks = {t1, t2}
  Owner = u1
  Pog = {u2}
  Faulty = TRUE
  Commands = {"register", "unregister", "gib", "share"}
  FirstBankMax = 2
  Amounts <- SomeAmounts
  GibAmounts <- SomeGibs
  BegAmounts = {1}
  MineAmounts = {2}
  Price <- SomePrice
  PremiumMax = 1
  RoyalMin = 2
  MaxCoins = 2
INVARIANTS
  RequestsBacked
  SharesNeverLose
PROPERTIES
  SharesConserve
  OnlyOwnCommandsSpend
  DebtsHaveCauses
SYMMETRY TaskSymmetry
CHECK_DEADLOCK FALSE
