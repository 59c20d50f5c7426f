SPECIFICATION Spec
CONSTANTS
  u1 = u1
  u2 = u2
  t1 = t1
  t2 = t2
  Owner = u2
  Legacy = {}
  FirstInventories <- NewAccounts
  FirstBal = 2
  FirstBankMax = 1
  Users = {u1, u2}
  Registered = {u1, u2}
  Upgraded = {u1}
  Items = {"puppy_pass", "capitalism_blessing", "horrorse_celery"}
  Purchasable = {"capitalism_blessing"}
  Sellable = {"capitalism_blessing"}
  Price <- ShopPrice
  Rank <- KeyRank
  PageSize = 2
  IntSpan = 16
  LongSpan = 16
  TypedPages = {0}
  Commands = {"buy", "sell", "shareitem", "gibitem", "mine", "shop"}
  Amounts <- TypedNumbers
  Gifts <- Blessings
  MineAmounts = {1}
  BagMin = 1
  BagMax = 2
  SpaceMin = 1
  SpaceMax = 1
  WildDraws <- SomeDraws
  Tasks = {t1, t2}
  Faulty = TRUE
  MaxCoins = 2
  MaxCount = 1
  MaxDebt = 1
INVARIANTS
  TypeOK
  SolventUnlessUnchecked
PROPERTIES
  OnlyFaucetsEnrich
  OnlyOwnCommandsTake
SYMMETRY TaskSymmetry
CHECK_DEADLOCK FALSE
