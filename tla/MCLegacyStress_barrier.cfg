SPECIFICATION FairLegacy
CONSTANTS
  NaN = NaN
  Infinity = Infinity
  NegInfinity = NegInfinity
  Workers = {w1, w2}
  Clients = {t1, t2, t3}
  MaxSends = 3
  Sends <- MCSends
  Mortal = {w1}
  Openings <- MCOpenings
  Amounts <- MCAmounts
  OtherKinds = {"partial"}
  Ids = {i1}
  MaxAccounts = 1
  Otps = {k1}
  MaxOtps = 1
  MaxCrashes = 0
  NoCode = NoCode
  NoAccount = NoAccount
  Unwritten = Unwritten
  Nobody = Nobody
  Byte = {0, 1, 2}
  MaxDataSize = 3
  HeaderSize = 2
  SumSize = 4
  SizeT = 16
  Opcodes = {1}
  OtpSize = 1
  TransSize = 2
  Rounds = 2
INVARIANTS LegacyInv StartTogether ReportComplete
PROPERTIES TestEnds
CHECK_DEADLOCK FALSE
