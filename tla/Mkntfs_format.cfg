SPECIFICATION Spec
CONSTANTS
    Devices = {2048, 2049, 4104, 7900, 8201, 16500}
    MaxClusters = 1024
    MaxCsize = 32
    Labels = {4, 128, 129}
    MaxFormats = 2
    MaxIgnored = 2
    Env = {"ioerr", "nomem"}
INVARIANTS
    TypeOK
    LayoutDisjoint
    BitmapTruthful
    MftComesLast
    DeviceFreedOnce
    CleanFormatSucceeds
    RecordsFit
    ProbeFindsLabel
CHECK_DEADLOCK FALSE
