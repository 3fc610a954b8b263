CONSTANTS
  NumNames = 2
  MaxDepth = 2
  MaxFiles = 2
  MaxObjs = 3
  MaxGen = 11
  MaxGenEnum = 11
  Envs = {{"enum", "opfail"}}
SPECIFICATION Spec
INVARIANTS VerifierFresh
