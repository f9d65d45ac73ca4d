\* Pool probes that fail (zpool list or zpool status): are the pool events
\* still a true account of every pool the detector knows?
CONSTANTS
    Disks = {}
    Pools = {p1}
    Clients = {c1}
    Temps <- MCDiskTemps
    Healths <- MCHealths
    ChannelConfig <- MCChannelConfig
    AlertConfig <- MCAlertConfig
    AlertingAvailable = FALSE
    DiskProbeFails = FALSE
    PoolProbeFails = TRUE
    SmtpHangs = FALSE
SPECIFICATION Spec
INVARIANTS
    PoolAnnouncementsTruthful
