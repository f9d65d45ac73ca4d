\* Email alerting to a mail server that accepts the connection and never
\* answers: does every handshake still end?
CONSTANTS
    Disks = {d1}
    Pools = {}
    Clients = {c1}
    Temps <- MCDiskTemps
    Healths <- MCHealths
    ChannelConfig <- MCChannelConfig
    AlertConfig <- MCAlertConfig
    AlertingAvailable = TRUE
    DiskProbeFails = FALSE
    PoolProbeFails = FALSE
    SmtpHangs = TRUE
SPECIFICATION Spec
PROPERTIES
    HandshakeEnds
