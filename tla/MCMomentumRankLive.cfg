CONSTANTS
  aaa = aaa
  bbb = bbb
  ccc = ccc
  ddd = ddd
  Symbols = {aaa, bbb, ccc, ddd}
  Intervals = {m15}
  SymbolList <- MCSymbols
  BarInterval = m15
  MaxBars = 2
  LookbackBars = 1
  LongCount = 3
  ShortCount = 3
  NotionalPerLeg <- MCNotional
  Closes <- MCCloses
  MaxSeen = 2
SPECIFICATION SelSpec
INVARIANTS LongLegsAsConfigured
CHECK_DEADLOCK FALSE
