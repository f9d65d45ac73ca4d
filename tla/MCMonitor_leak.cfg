\* A client that authenticates and disconnects at once: is its connection
\* ever removed from the registry?
CONSTANTS
    Disks = {}
    Pools = {}
    Clients = {c1}
    Temps <- MCDiskTemps
    Healths <- MCHealths
    ChannelConfig <- MCChannelConfig
    AlertConfig <- MCAlertConfig
    AlertingAvailable = FALSE
    DiskProbeFails = FALSE
    PoolProbeFails = FALSE
    SmtpHangs = FALSE
SPECIFICATION Spec
PROPERTIES
    ClosedConnectionsUnregistered
