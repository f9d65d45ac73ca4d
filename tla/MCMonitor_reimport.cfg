\* One pool that can be exported and imported again, working pool probes and
\* email alerting: a degraded pool that leaves zpool list and comes back
\* degraded is announced, and alerted, as a new health change.
CONSTANTS
    Disks = {}
    Pools = {p1}
    Clients = {}
    Temps <- MCDiskTemps
    Healths <- MCHealths
    ChannelConfig <- MCChannelConfig
    AlertConfig <- MCAlertConfig
    AlertingAvailable = TRUE
    DiskProbeFails = FALSE
    PoolProbeFails = FALSE
    SmtpHangs = FALSE
SPECIFICATION Spec
PROPERTIES
    NoRepeatedHealthChange
