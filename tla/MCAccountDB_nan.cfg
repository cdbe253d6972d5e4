SPECIFICATION Spec
CONSTANTS
  NaN = NaN
  Infinity = Infinity
  NegInfinity = NegInfinity
  Workers = {w1, w2}
  Ids = {i1}
  Openings <- MCOpeningsFew
  Amounts <- MCAmountsNaN
  MaxAccounts = 1
  MaxCalls = 2
  Mortal = {}
  NoAccount = NoAccount
  Unwritten = Unwritten
  NoOne = NoOne
INVARIANTS WithdrawalsCovered
CHECK_DEADLOCK FALSE
