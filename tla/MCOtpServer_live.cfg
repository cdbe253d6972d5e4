SPECIFICATION FairSpec
CONSTANTS
  Workers = {w1, w2}
  Accounts = {a1, a2}
  Codes = {c1}
  MaxOtps = 1
  Backlog = 1
  MaxCalls = 4
  MaxCrashes = 1
  Mortal = {w1}
  NoOne = NoOne
  NoCode = NoCode
INVARIANTS NobodyForgotten
PROPERTIES CallsReturn
CHECK_DEADLOCK FALSE
