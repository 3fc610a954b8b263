CONSTANTS
  MaxSize = 4
  ClusterSize = 2
  BlockSize = 2
  MaxWins = 2
  Env = {"truncate", "truncfail"}
SPECIFICATION Spec
PROPERTY NeverZeroesData
