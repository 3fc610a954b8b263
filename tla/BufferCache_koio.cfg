CONSTANTS
  NumSectors = 6
  Big = 2
  ClusterSizes = {1, 2, 3}
  Env = {"ioerr", "mappurgefail"}
SPECIFICATION Spec
INVARIANTS TypeOK DirectWritesSurvive CacheCurrent OneGranule
PROPERTIES PlainBeforeMount
