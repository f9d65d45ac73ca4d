\* alerting.json lacks the 'enabled' key of the pushover section: alert()
\* raises KeyError after the email went out, and the loop's except skips the
\* rest of the tick, with last_disk_state already replaced.
CONSTANTS
    Disks = {d1, d2}
    Pools = {}
    Clients = {}
    Temps <- MCDiskTemps
    Healths <- MCHealths
    ChannelConfig <- MCBrokenChannelConfig
    AlertConfig <- MCAlertConfig
    AlertingAvailable = TRUE
    DiskProbeFails = FALSE
    PoolProbeFails = FALSE
    SmtpHangs = FALSE
SPECIFICATION Spec
INVARIANTS
    DiskAnnouncementsTruthful
