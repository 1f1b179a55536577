CONSTANTS
  btc = btc
  eth = eth
  m15 = m15
  Symbols = {btc, eth}
  Intervals = {m15}
  Symbol = btc
  Interval = m15
  Fast = 2
  Slow = 3
  TargetQty = 3
  MaxBars = 4
  Reactions = {}
  Inputs <- MCInputs
  Invocations <- MCInvocations
  InitTime = 99
  InitialBalance <- MCBalance
  FeeRate <- MCFeeRate
  Slippage <- MCSlippage
SPECIFICATION CliSpec
INVARIANTS SignalIsHistoryCross PositionFollowsAverages ReportIsOfWindow
CHECK_DEADLOCK FALSE
