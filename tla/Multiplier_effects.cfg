SPECIFICATION FairSpec
CONSTANTS
  u1 = u1
  u2 = u2
  u3 = u3
  t1 = t1
  t2 = t2
  t3 = t3
  Users = {u1, u2, u3}
  Registered = {u1, u2}
  FirstBeef = 1
  FirstCursed = 1
  Curse = 2
  Amounts <- TypedAmounts
  Commands = {"beef", "cursed_beef", "click", "beg"}
  Tasks = {t1, t2}
  Faulty = TRUE
  Crashes = TRUE
  MaxMulti = 2
  MaxDebt = 0
INVARIANTS
  MultiAccounted
PROPERTIES
  WearsOff
CHECK_DEADLOCK FALSE
