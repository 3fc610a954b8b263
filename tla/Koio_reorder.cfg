CONSTANTS
  MaxSize = 4
  ClusterSize = 2
  BlockSize = 1
  MaxWins = 2
  Env = {"reorder", "fail", "truncate", "truncfail", "maperr", "nomap"}
SPECIFICATION Spec
INVARIANTS TypeOK NoStaleExposed HandedOutOrZeroed
PROPERTY OnlyReorderingExposes
