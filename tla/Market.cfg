SPECIFICATION Spec
CONSTANTS
  u1 = u1
  u2 = u2
  t1 = t1
  t2 = t2
  Users = {u1}
  Tasks = {t1, t2}
  FirstBal = 4
  Faulty = TRUE
  MaxCoins = 4
  Rates = {1, 2}
  DefaultRate = 2
  Period = 2
  Cap = 3
  Orders <- TypedOrders
  IntSpan = 16
  RollMin = 1
  RollMax = 2
  RouletteMin = 2
  RouletteMax = 4
  Bets <- TypedBets
  Bonuses = {40}
  WildDraws <- SomeDraws
INVARIANTS
  TypeOK
  SolventUnlessUnchecked
  BetsBounded
PROPERTIES
  OnlyTheRateEnriches
SYMMETRY TaskSymmetry
CHECK_DEADLOCK FALSE
