SPECIFICATION Spec
CONSTANTS
  u1 = u1
  u2 = u2
  t1 = t1
  t2 = t2
  t3 = t3
  h1 = h1
  h2 = h2
  Users = {u1}
  Testers = {}
  Registered = {u1}
  Commands = {"mine", "beg"}
  Cooldown <- CooldownOf
  Threads = {h1}
  Tasks = {t1}
  Faulty = FALSE
  Crashes = FALSE
  MaxTime = 4
  MaxIssued = 3
PROPERTIES
  NoEarlyRun
SYMMETRY TaskSymmetry
CHECK_DEADLOCK FALSE
