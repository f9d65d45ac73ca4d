\* One disk, failing disk probes, email alerting, and an ONLINE pool that
\* changes its resilver and is exported and imported between ticks: does
\* the daemon implement the abstract disk feed, its fairness included?
\* Pool steps and pool events must be stutters of the feed.
CONSTANTS
    Disks = {d1}
    Pools = {p1}
    Clients = {}
    Temps <- MCDiskTemps
    Healths = {"ONLINE"}
    ChannelConfig <- MCChannelConfig
    AlertConfig <- MCAlertConfig
    AlertingAvailable = TRUE
    DiskProbeFails = TRUE
    PoolProbeFails = FALSE
    SmtpHangs = FALSE
SPECIFICATION Spec
PROPERTIES
    DiskFeedRefined
