CONSTANTS
  btc = btc
  eth = eth
  m1 = m1
  Symbols = {btc, eth}
  Intervals = {m1}
  MaxBars = 2
  Events <- MCEvents
  Reactions <- MCReactions
  InitTime = 9
  Fills = {1}
  MaxSeen = 4
  MaxEmitted = 3
  MaxPending = 3
SPECIFICATION HSpec
INVARIANTS TypeOK CacheIsRecentWindow RecentBarsAreExact TargetsDeliveredOnce
