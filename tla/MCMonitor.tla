------------------------------ MODULE MCMonitor ------------------------------
(***************************************************************************)
(* Small instances of Monitor for TLC.                                     *)
(***************************************************************************)
EXTENDS Monitor, TLC

\* No temperature, one just below the warning threshold and one above it.
MCTemps == {0, 48, 52}

\* No temperature, and one above the warning threshold.
MCDiskTemps == {0, 52}

MCHealths == {"ONLINE", "DEGRADED"}

\* Only the email channel is configured, as in a typical alerting.json.
MCChannelConfig ==
    [ch \in Channels |-> IF ch = "email" THEN "enabled" ELSE "disabled"]

\* The default config: every alert type is on.
MCAlertConfig == [t \in AlertTypes |-> TRUE]

\* A config file whose "pushover" section lacks its 'enabled' key.
MCBrokenChannelConfig ==
    [ch \in Channels |-> CASE ch = "email"    -> "enabled"
                           [] ch = "pushover" -> "missing"
                           [] OTHER           -> "disabled"]
=============================================================================
