CONSTANTS
  Symbols = {btc, eth}
  InitialBalance <- MCBalance
  FeeRate <- MCFeeRate
  Slippage <- MCSlippage
  Qtys <- MCQtys
  Prices <- MCPrices
  MaxTrades = 3
  MaxMarks = 1
SPECIFICATION Spec
INVARIANT TradesExplainBook
PROPERTY ImplementsLedger
CHECK_DEADLOCK FALSE
