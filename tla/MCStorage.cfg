CONSTANTS
  btc = btc
  eth = eth
  m1 = m1
  m15 = m15
  Partitions <- MCPartitions
  Batches <- MCBatches
  Filters <- MCFilters
  Exact = 10
SPECIFICATION Spec
INVARIANT WindowsMeet
PROPERTIES OthersUntouched ReadsLastBatch
