\* The disk half of the tick pipeline and the hub, alerting not installed,
\* disk probes that fail: what disk events and state messages tell clients.
CONSTANTS
    Disks = {d1, d2}
    Pools = {}
    Clients = {c1}
    Temps <- MCDiskTemps
    Healths <- MCHealths
    ChannelConfig <- MCChannelConfig
    AlertConfig <- MCAlertConfig
    AlertingAvailable = FALSE
    DiskProbeFails = TRUE
    PoolProbeFails = FALSE
    SmtpHangs = FALSE
SPECIFICATION Spec
INVARIANTS
    TypeOK
    DiskAnnouncementsTruthful
    SubscribersUpToDate
PROPERTIES
    HandshakeEnds
