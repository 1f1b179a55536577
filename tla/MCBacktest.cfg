CONSTANTS
  btc = btc
  eth = eth
  m1 = m1
  Symbols = {btc, eth}
  Intervals = {m1}
  MaxBars = 2
  Reactions <- MCReactions
  Inputs <- MCInputs
  InitTime = 9
  InitialBalance <- MCBalance
  FeeRate <- MCFeeRate
  Slippage <- MCSlippage
SPECIFICATION FairSpec
INVARIANTS TypeOK PositionsAgree EquityFollowsEvents AbortsOnlyWithoutPrice TradesInReplayOrder
PROPERTIES NoLookAhead ImplementsIntent Terminates
CHECK_DEADLOCK FALSE
