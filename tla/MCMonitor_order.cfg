\* Disks and pools are read again after the state broadcast: can a client
\* get an event about a state it was never sent?
CONSTANTS
    Disks = {d1}
    Pools = {p1}
    Clients = {c1}
    Temps <- MCDiskTemps
    Healths <- MCHealths
    ChannelConfig <- MCChannelConfig
    AlertConfig <- MCAlertConfig
    AlertingAvailable = FALSE
    DiskProbeFails = FALSE
    PoolProbeFails = FALSE
    SmtpHangs = FALSE
SPECIFICATION Spec
PROPERTIES
    EventsMatchState
