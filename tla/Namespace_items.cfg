CONSTANTS
  NumNames = 2
  MaxDepth = 2
  MaxFiles = 3
  MaxObjs = 4
  MaxGen = 13
  MaxGenEnum = 11
  Envs = {{"opfail", "delfail", "rollbackfail", "reclaim", "nested"}, {"enum", "delfail"}}
SPECIFICATION Spec
INVARIANTS TypeOK ItemFollowsFile CachesAgree HandlesSafe VerifierFresh
PROPERTIES AtomicNamespace FileKept
