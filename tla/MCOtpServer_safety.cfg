SPECIFICATION Spec
CONSTANTS
  Workers = {w1, w2}
  Accounts = {a1, a2}
  Codes = {c1, c2}
  MaxOtps = 2
  Backlog = 2
  MaxCalls = 5
  MaxCrashes = 1
  Mortal = {w1, w2}
  NoOne = NoOne
  NoCode = NoCode
SYMMETRY Symmetry
INVARIANTS LatestCodeCompared OneTime IInv
PROPERTIES PromiseKept
CHECK_DEADLOCK FALSE
