SPECIFICATION Spec
CONSTANTS
  NaN = NaN
  Infinity = Infinity
  NegInfinity = NegInfinity
  Workers = {w1, w2}
  Ids = {i1, i2}
  Openings <- MCOpenings
  Amounts <- MCAmounts
  MaxAccounts = 2
  MaxCalls = 3
  Mortal = {}
  NoAccount = NoAccount
  Unwritten = Unwritten
  NoOne = NoOne
SYMMETRY Symmetry
INVARIANTS UniqueAccounts NoOverdraft NoLostUpdate WithdrawalsCovered IInv
PROPERTIES AccountsPersist
CHECK_DEADLOCK FALSE
