SPECIFICATION Spec
CONSTANTS
  u1 = u1
  u2 = u2
  t1 = t1
  t2 = t2
  Users = {u1}
  Tasks = {t1, t2}
  Owner = u1
  Pog = {}
  Faulty = FALSE
  Commands = {"register", "beg", "mine", "bank", "deposit", "withdraw", "gib"}
  FirstBankMax = 2
  Amounts <- SomeAmounts
  GibAmounts = {2}
  BegAmounts = {1}
  MineAmounts <- SomeMines
  Price <- SomePrice
  PremiumMax = 1
  RoyalMin = 2
  MaxCoins = 2
INVARIANTS
  TypeOK
  SolventUnlessUnchecked
  RequestsBacked
PROPERTIES
  OnlyFaucetsMint
  LimitsAsSeen
  DebtsHaveCauses
SYMMETRY TaskSymmetry
CHECK_DEADLOCK FALSE
