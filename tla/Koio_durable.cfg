CONSTANTS
  MaxSize = 6
  ClusterSize = 2
  BlockSize = 2
  MaxWins = 2
  Env = {"reorder", "fail", "truncate", "laterr", "comperr", "aborterr", "crash"}
SPECIFICATION Spec
INVARIANTS AckedDurable MarkCoversInFlight
PROPERTY NeverZeroesData
