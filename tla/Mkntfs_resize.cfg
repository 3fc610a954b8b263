SPECIFICATION Spec
CONSTANTS
    Devices = {2049, 8201}
    MaxClusters = 1024
    MaxCsize = 32
    Labels = {4}
    MaxFormats = 2
    MaxIgnored = 0
    Env = {"resize"}
INVARIANT
    LayoutDisjoint
CHECK_DEADLOCK FALSE
