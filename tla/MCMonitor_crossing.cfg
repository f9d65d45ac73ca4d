\* One disk warming from 48 to 52 degrees: is it warned about when it
\* crosses the 50 degree threshold?
CONSTANTS
    Disks = {d1}
    Pools = {}
    Clients = {}
    Temps <- MCTemps
    Healths <- MCHealths
    ChannelConfig <- MCChannelConfig
    AlertConfig <- MCAlertConfig
    AlertingAvailable = FALSE
    DiskProbeFails = FALSE
    PoolProbeFails = FALSE
    SmtpHangs = FALSE
SPECIFICATION Spec
PROPERTIES
    ThresholdCrossingWarned
