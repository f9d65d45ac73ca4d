\* One disk plugged in, pulled or changed, two kernel notifications (an add
\* then a remove, or an add then an ignored change), one pool whose resilver
\* starts and ends and which is exported and imported, no subscriber, alerting
\* by email for every change: the hot-plug stream interleaved with the ticks
\* and their alerts.  Temperatures play no part in the hot-plug stream, so the
\* only reading is None (0).
CONSTANTS
    Disks = {d1}
    Pools = {p1}
    Clients = {}
    Temps = {0}
    Healths = {"ONLINE"}
    ChannelConfig <- MCChannelConfig
    AlertConfig <- MCAlertConfig
    AlertingAvailable = TRUE
    DiskProbeFails = FALSE
    PoolProbeFails = FALSE
    SmtpHangs = FALSE
    UdevAvailable = TRUE
    MaxHotplug = 2
SPECIFICATION DaemonSpec
PROPERTIES
    HotplugPushed
