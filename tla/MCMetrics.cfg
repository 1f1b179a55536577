CONSTANTS
  Symbols = {btc}
  InitialBalance <- MCBalance
  FeeRate <- MCFeeRate
  Slippage <- MCSlippage
  Qtys <- MCQtys
  Prices <- MCPrices
  MaxTrades = 4
  MaxMarks = 3
  MaxSteps = 5
SPECIFICATION MetricsSpec
INVARIANTS FlatIffNoEntry EntryWithinFills DrawdownIsWorstFall ReturnsCompound TradesExplainReturn TradeStatisticsAgree
CHECK_DEADLOCK FALSE
