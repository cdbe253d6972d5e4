SPECIFICATION FairSpec
CONSTANTS
  NaN = NaN
  Infinity = Infinity
  NegInfinity = NegInfinity
  Workers = {w1, w2, w3}
  Ids = {i1, i2}
  Openings <- MCOpeningsFew
  Amounts <- MCAmountsOver
  MaxAccounts = 1
  MaxCalls = 1
  Mortal = {w1}
  NoAccount = NoAccount
  Unwritten = Unwritten
  NoOne = NoOne
INVARIANTS TypeOK
PROPERTIES LedgerSpec SurvivorsReturnUnlessOrphaned
CHECK_DEADLOCK FALSE
