--------------------------- MODULE AlertingSystem ---------------------------
(***************************************************************************)
(* alerting_system.py: AlertingSystem.alert and the four channel senders,  *)
(* and the AlertTemplates the monitor loop renders alerts with.            *)
(*                                                                         *)
(* The configuration is read once, in __init__, from alerting.json (or the *)
(* built-in default); it is a constant here.  A channel's section is       *)
(* "enabled", "disabled", or "missing": the file may lack the section or   *)
(* its 'enabled' key, and the sender reads config[ch]['enabled'] outside   *)
(* its try block, so a missing one raises KeyError out of alert().         *)
(* The transport of each channel (SMTP, HTTP) is abstracted to whether it  *)
(* succeeded; message text and the native priority scales are formatting  *)
(* and are left out.                                                       *)
(***************************************************************************)
EXTENDS Naturals, Sequences

CONSTANTS
    ChannelConfig,  \* channel -> "enabled" | "disabled" | "missing"
    AlertConfig     \* config['alerts']: alert type -> BOOLEAN

\* The order in which alert() calls the senders.
ChannelOrder == <<"email", "pushover", "ntfy", "webhook">>

Channels == {"email", "pushover", "ntfy", "webhook"}

\* The alert types the default config lists.
AlertTypes == {"disk_added", "disk_removed", "disk_temp_warning",
               "disk_smart_failure", "pool_degraded", "resilver_started",
               "resilver_completed", "ups_on_battery", "ups_low_battery",
               "system_high_temp"}

Priorities == {"normal", "warning", "critical"}

ASSUME AlertingAssumption ==
    /\ ChannelConfig \in [Channels -> {"enabled", "disabled", "missing"}]
    /\ AlertConfig \in [AlertTypes -> BOOLEAN]

\* should_alert: config['alerts'].get(event_type, False)
ShouldAlert(t) == t \in AlertTypes /\ AlertConfig[t]

(***************************************************************************)
(* The senders.  Each returns False at once when its channel is disabled,  *)
(* and otherwise whether its transport call succeeded; every exception of  *)
(* the transport is caught and turned into False.                          *)
(***************************************************************************)
SendEmail(ok)    == ChannelConfig["email"] = "enabled" /\ ok
SendPushover(ok) == ChannelConfig["pushover"] = "enabled" /\ ok
SendNtfy(ok)     == ChannelConfig["ntfy"] = "enabled" /\ ok
SendWebhook(ok)  == ChannelConfig["webhook"] = "enabled" /\ ok

\* Whether alert() raises KeyError before returning: some sender finds its
\* section (or its 'enabled' key) missing.
AlertRaises == \E ch \in Channels : ChannelConfig[ch] = "missing"

\* The senders alert() reaches before the first one that raises.
Reached(ch) ==
    \E i \in 1..4 : /\ ChannelOrder[i] = ch
                    /\ \A j \in 1..i : ChannelConfig[ChannelOrder[j]] # "missing"

(***************************************************************************)
(* alert(): nothing when the type is not to be alerted; otherwise every    *)
(* reached sender is called, each with its own outcome `ok[ch]`, and the   *)
(* result maps each channel to its sender's return value.  When a sender   *)
(* raises, the channels before it have already been sent to and no result  *)
(* is returned.                                                            *)
(***************************************************************************)
AlertResults(ok) ==
    [ch \in Channels |->
        /\ Reached(ch)
        /\ CASE ch = "email"    -> SendEmail(ok[ch])
             [] ch = "pushover" -> SendPushover(ok[ch])
             [] ch = "ntfy"     -> SendNtfy(ok[ch])
             [] ch = "webhook"  -> SendWebhook(ok[ch])]

(***************************************************************************)
(* The AlertTemplates the monitor loop uses, reduced to their priority.    *)
(***************************************************************************)
\* Mutant: the pool template gives ntfy's "high" instead of a priority level.
TemplatePriorityNtfyScale(t) ==
    IF t = "pool_degraded" THEN "high" ELSE "normal"

TemplatePriority(t) ==
    CASE t = "disk_added"         -> "normal"
      [] t = "disk_removed"       -> "warning"
      [] t = "disk_temp_warning"  -> "warning"
      [] t = "pool_degraded"      -> "critical"
      [] t = "resilver_started"   -> "normal"
      [] t = "resilver_completed" -> "normal"
      [] t = "disk_smart_failure" -> "critical"
      [] t = "ups_on_battery"     -> "warning"
      [] t = "ups_low_battery"    -> "critical"
      [] t = "system_high_temp"   -> "warning"

=============================================================================
