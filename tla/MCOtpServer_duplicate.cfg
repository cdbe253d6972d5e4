SPECIFICATION Spec
CONSTANTS
  Workers = {w1, w2}
  Accounts = {a1, a2}
  Codes = {c1, c2}
  MaxOtps = 2
  Backlog = 2
  MaxCalls = 4
  MaxCrashes = 0
  Mortal = {}
  NoOne = NoOne
  NoCode = NoCode
INVARIANTS OneCodePerAccount
CHECK_DEADLOCK FALSE
