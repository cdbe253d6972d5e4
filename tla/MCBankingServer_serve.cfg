SPECIFICATION FairSpec
CONSTANTS
  NaN = NaN
  Infinity = Infinity
  NegInfinity = NegInfinity
  Workers = {w1, w2}
  c1 = c1
  c2 = c2
  Clients = {c1, c2}
  MaxSends = 2
  Sends <- MCSends
  Mortal = {w1}
  Openings <- MCOpenings
  Amounts <- MCAmounts
  OtherKinds = {"malformed", "corrupted", "partial"}
  Ids = {i1}
  MaxAccounts = 1
  Otps = {k1}
  MaxOtps = 1
  MaxCrashes = 1
  NoCode = NoCode
  NoAccount = NoAccount
  Unwritten = Unwritten
  Nobody = Nobody
INVARIANTS IInv AnswersPaired EffectsKnown BalanceWritten
PROPERTIES WaitersServed RequestsAnswered
CHECK_DEADLOCK FALSE
