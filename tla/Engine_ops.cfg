CONSTANTS
  BlockSizes = {4096}
  ClusterSizes = {512, 4096}
  FormatSizes = {4096}
  MountEnv = {"fail"}
  Names = {"a", "b", "c"}
  MaxRecs = 2
  MaxSeq = 2
  MaxValue = 2
  BridgeEnv = {"fail", "late", "query", "crash"}
SPECIFICATION EngineSpec
CHECK_DEADLOCK FALSE
INVARIANTS EngineTypeOK HeapExact AdvertisedMappable NoInheritedMark
PROPERTIES FileKept MarkFollowsFile XattrNeverZeroed
