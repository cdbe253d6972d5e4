SPECIFICATION FairStress
CONSTANTS
  t1 = t1
  t2 = t2
  u1 = u1
  u2 = u2
  NaN = NaN
  Infinity = Infinity
  NegInfinity = NegInfinity
  Workers = {w1, w2}
  Clients = {t1, t2}
  AccountOf <- MCAccountOf
  Flows <- MCFlows
  MaxSends = 8
  Sends <- MCSends
  InitialBalance = 2
  Deposit = 3
  Mortal = {w1}
  Openings <- MCOpenings
  Amounts <- MCAmounts
  OtherKinds = {}
  Ids = {u1, u2}
  MaxAccounts = 2
  Otps = {k1, k2}
  MaxOtps = 2
  MaxCrashes = 1
  NoCode = NoCode
  NoAccount = NoAccount
  Unwritten = Unwritten
  Nobody = Nobody
INVARIANTS StressInv LoginAccepted BalanceAsConfirmed FlowsAreDeposits
PROPERTIES RunEnds
CHECK_DEADLOCK FALSE
