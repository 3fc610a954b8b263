SPECIFICATION Spec
CONSTANTS
    Devices = {40000}
    MaxClusters = 256
    MaxCsize = 4096
    Labels = {4}
    MaxFormats = 1
    MaxIgnored = 0
    Env = {}
INVARIANT
    ProbeFindsLabel
CHECK_DEADLOCK FALSE
