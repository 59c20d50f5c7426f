SPECIFICATION Spec
CONSTANTS
  u1 = u1
  u2 = u2
  t1 = t1
  t2 = t2
  Owner = u2
  Legacy = {}
  FirstInventories <- OldAccounts
  FirstBal = 2
  FirstBankMax = 1
  Users = {u1, u2}
  Registered = {u1}
  Upgraded = {u1}
  Items = {"puppy_pass", "capitalism_blessing", "horrorse_celery", "coin_bag"}
  Purchasable = {"capitalism_blessing"}
  Sellable = {"coin_bag"}
  Price <- ShopPrice
  Rank <- KeyRank
  PageSize = 2
  IntSpan = 16
  LongSpan = 16
  TypedPages = {1, 2}
  Commands = {"sell", "inventory"}
  Amounts <- TypedAmounts
  Gifts = {}
  MineAmounts = {1}
  BagMin = 1
  BagMax = 2
  SpaceMin = 1
  SpaceMax = 1
  WildDraws <- SomeDraws
  Tasks = {t1, t2}
  Faulty = FALSE
  MaxCoins = 2
  MaxCount = 2
  MaxDebt = 0
PROPERTIES
  ViewsOnly
SYMMETRY TaskSymmetry
CHECK_DEADLOCK FALSE
