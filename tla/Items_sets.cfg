SPECIFICATION FairSpec
CONSTANTS
  u1 = u1
  u2 = u2
  t1 = t1
  t2 = t2
  Owner = u2
  Legacy = {"old_token"}
  FirstInventories <- OldAccounts
  FirstBal = 1
  FirstBankMax = 1
  Users = {u1, u2}
  Registered = {u1}
  Upgraded = {u1}
  Items = {"puppy_pass", "capitalism_blessing", "horrorse_celery", "coin_bag",
           "bank_space"}
  Purchasable = {"capitalism_blessing"}
  Sellable = {"coin_bag"}
  Price <- ShopPrice
  Rank <- KeyRank
  PageSize = 2
  IntSpan = 8
  LongSpan = 16
  TypedPages = {1, 2, 3}
  Commands = {"sell", "use", "shareitem", "inventory"}
  Amounts <- TypedAmounts
  Gifts <- SomeGifts
  MineAmounts = {1}
  BagMin = 1
  BagMax = 2
  SpaceMin = 1
  SpaceMax = 1
  WildDraws <- SomeDraws
  Tasks = {t1, t2}
  Faulty = FALSE
  MaxCoins = 2
  MaxCount = 2
  MaxDebt = 0
INVARIANTS
  PagesCover
  SolventUnlessUnchecked
PROPERTIES
  OnlyFaucetsEnrich
  OnlyOwnCommandsTake
  GetsComplete
CHECK_DEADLOCK FALSE
