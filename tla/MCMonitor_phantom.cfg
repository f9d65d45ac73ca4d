\* Disk probes that fail (lsblk): is disk_removed emitted for a disk that is
\* still attached?
CONSTANTS
    Disks = {d1}
    Pools = {}
    Clients = {c1}
    Temps <- MCDiskTemps
    Healths <- MCHealths
    ChannelConfig <- MCChannelConfig
    AlertConfig <- MCAlertConfig
    AlertingAvailable = FALSE
    DiskProbeFails = TRUE
    PoolProbeFails = FALSE
    SmtpHangs = FALSE
SPECIFICATION Spec
PROPERTIES
    RemovedDisksAreGone
