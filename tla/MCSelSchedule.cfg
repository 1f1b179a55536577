CONSTANTS
  aaa = aaa
  bbb = bbb
  ccc = ccc
  Symbols = {aaa, bbb, ccc}
  Intervals = {m15}
  SymbolList <- MCSymbols
  BarInterval = m15
  MaxBars = 2
  LookbackBars = 1
  LongCount = 1
  ShortCount = 1
  NotionalPerLeg <- MCNotional
  Closes <- MCCloses
  MaxSeen = 3
  MaxBarsSeen = 6
  Interval = 3
  PollTimes <- MCTimes
  MaxFires = 3
SPECIFICATION RunSpec
INVARIANTS FiresOnce StaysOnGrid SkipsOnlyThePast HoldsLatestRanking
CHECK_DEADLOCK FALSE
