SPECIFICATION Spec
CONSTANTS
  t1 = t1
  t2 = t2
  s1 = s1
  s2 = s2
  session <- TwoTabs
  Client = {c}
  Session = {s1, s2}
  client_of <- MCClientOf
  Turn = {t1, t2}
  Named = FALSE
  MAX_TOOL_ROUNDS = 2
  MAX_RETRIES = 1
  FIVE_HOURS = 1
  SEVEN_DAYS = 1
  LIMIT_5H = 2
  LIMIT_WEEK = 3
  MaxTime = 1
INVARIANT ExplicitGreenLight
CHECK_DEADLOCK FALSE
