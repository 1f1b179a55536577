CONSTANTS
  Symbols = {btc, eth}
  Rules <- MCRules
  Targets <- MCTargets
  Prices = {5, 10}
  MaxStale = 1
  MayRefuse = TRUE
  MaxOrders = 3
SPECIFICATION Spec
INVARIANTS ClientIdsIncrease ApproachesTarget
PROPERTIES NoRepeatOrder RestIsUntradeable
