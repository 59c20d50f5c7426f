SPECIFICATION FairSpec
CONSTANTS
  u1 = u1
  u2 = u2
  t1 = t1
  t2 = t2
  t3 = t3
  h1 = h1
  h2 = h2
  Users = {u1, u2}
  Testers = {u2}
  Registered = {u2}
  Commands = {"shareitem"}
  Cooldown <- CooldownOf
  Threads = {h1, h2}
  Tasks = {t1, t2, t3}
  Faulty = FALSE
  Crashes = FALSE
  MaxTime = 0
  MaxIssued = 3
INVARIANTS
  UsageCounted
  ExperienceEarned
PROPERTIES
  HandlerCalled
CHECK_DEADLOCK FALSE
