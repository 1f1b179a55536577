SPECIFICATION FairSpec

CONSTANTS
  Streams <- MCStreams
  QuoteTimes <- MCQuoteTimes
  Lags <- MCLags
  Interval = "1m"
  Limit = 2
  MaxItems = 3
  MaxWire = 2
  MaxConnects = 2

INVARIANTS
  BarsCloseOnce
  MergeIsExact
  ReplayKeepsOrder

PROPERTIES
  ImplementsFeed
  ArrivedIsRead

CHECK_DEADLOCK FALSE
