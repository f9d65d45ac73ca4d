\* Pool health changes with alerting by email: is the critical "Pool
\* Degraded" alert sent for a pool that is ONLINE?
CONSTANTS
    Disks = {}
    Pools = {p1}
    Clients = {c1}
    Temps <- MCDiskTemps
    Healths <- MCHealths
    ChannelConfig <- MCChannelConfig
    AlertConfig <- MCAlertConfig
    AlertingAvailable = TRUE
    DiskProbeFails = FALSE
    PoolProbeFails = FALSE
    SmtpHangs = FALSE
SPECIFICATION Spec
INVARIANTS
    DegradedAlertOnlyWhenDegraded
