--------------------------- MODULE ChangeDetector ---------------------------
(***************************************************************************)
(* The snapshot-diff change detector of realtime-monitor.py: the two       *)
(* methods SystemMonitor.detect_hardware_changes and                       *)
(* SystemMonitor.detect_pool_changes, as pure operators from the retained  *)
(* snapshot and the fresh one to the set of change events.                 *)
(*                                                                         *)
(* A disk snapshot is a dict from disk name to its record; only the        *)
(* temperature matters to the detector, so a snapshot is a function from   *)
(* the disks present to their temperature.  The probe writes None when     *)
(* smartctl gives no reading; the detector tests the temperature for       *)
(* truth, so None and 0 behave alike and None is written 0 here.           *)
(* A pool snapshot maps each pool listed by `zpool list` to its health     *)
(* and to whether a resilver is in progress (resilver_info is not None).   *)
(***************************************************************************)
EXTENDS Naturals

CONSTANTS
    Disks,      \* disk names that lsblk may list
    Pools,      \* pool names that zpool list may list
    Temps,      \* temperatures smartctl may report (0 stands for None)
    Healths     \* pool health strings zpool list may report

ASSUME DetectorAssumption ==
    /\ Temps \subseteq Nat
    /\ 0 \in Temps
    /\ "ONLINE" \in Healths
    /\ "UNKNOWN" \notin Healths

\* The literals of detect_hardware_changes: warn above 50 degrees, and again
\* only when the reading rose by more than 5 degrees since the last one.
WarnTemp == 50
TempStep == 5

DiskSnapshots == UNION {[S -> Temps] : S \in SUBSET Disks}

PoolRecord == [health : Healths, resilver : BOOLEAN]

PoolSnapshots == UNION {[S -> PoolRecord] : S \in SUBSET Pools}

\* The snapshot the detector starts with (self.last_*_state = {}).
EmptySnapshot == [x \in {} |-> 0]

(***************************************************************************)
(* Change events, one record set per variant of the `changes` dicts.       *)
(***************************************************************************)
DiskEvent == [type : {"disk_added", "disk_removed"}, disk : Disks]

TempEvent == [type : {"disk_temperature_warning"}, disk : Disks,
              temperature : Temps]

ResilverEvent == [type : {"resilver_started", "resilver_completed"},
                  pool : Pools]

HealthEvent == [type : {"pool_health_change"}, pool : Pools,
                old_health : Healths \cup {"UNKNOWN"}, new_health : Healths]

Event == DiskEvent \cup TempEvent \cup ResilverEvent \cup HealthEvent

(***************************************************************************)
(* detect_hardware_changes, the diff part.                                 *)
(***************************************************************************)
\* self.last_disk_state.get(disk, {}).get('temperature', 0)
OldTemp(last, d) == IF d \in DOMAIN last THEN last[d] ELSE 0

\* info['temperature'] and info['temperature'] > 50, and then
\* not old_temp or info['temperature'] > old_temp + 5
TempWarning(last, cur, d) ==
    /\ cur[d] > WarnTemp
    /\ \/ OldTemp(last, d) = 0
       \/ cur[d] > OldTemp(last, d) + TempStep

\* Mutant: the removal event also carries the last temperature.
DiskChangesWithTemp(last, cur) ==
    {[type |-> "disk_added", disk |-> d] : d \in DOMAIN cur \ DOMAIN last}
    \cup
    {[type |-> "disk_removed", disk |-> d, temperature |-> last[d]] :
        d \in DOMAIN last \ DOMAIN cur}
    \cup
    {[type |-> "disk_temperature_warning", disk |-> d,
      temperature |-> cur[d]] : d \in {x \in DOMAIN cur : TempWarning(last, cur, x)}}

DiskChanges(last, cur) ==
    {[type |-> "disk_added", disk |-> d] : d \in DOMAIN cur \ DOMAIN last}
    \cup
    {[type |-> "disk_removed", disk |-> d] : d \in DOMAIN last \ DOMAIN cur}
    \cup
    {[type |-> "disk_temperature_warning", disk |-> d,
      temperature |-> cur[d]] : d \in {x \in DOMAIN cur : TempWarning(last, cur, x)}}

(***************************************************************************)
(* detect_pool_changes, the diff part.  A pool absent from the retained    *)
(* snapshot is compared as the empty dict: no resilver, health 'ONLINE',   *)
(* and reported as old health 'UNKNOWN'.  Pools absent from the fresh      *)
(* snapshot are not looked at.                                             *)
(***************************************************************************)
\* Mutant: tests old_info instead of old_info.get('resilver').
HadResilverAnyRecord(last, p) == p \in DOMAIN last

HadResilver(last, p) == p \in DOMAIN last /\ last[p].resilver

\* Mutant: a pool never seen before is compared with 'UNKNOWN'.
OldHealthUnknown(last, p) ==
    IF p \in DOMAIN last THEN last[p].health ELSE "UNKNOWN"

OldHealth(last, p) == IF p \in DOMAIN last THEN last[p].health ELSE "ONLINE"

ReportedOldHealth(last, p) ==
    IF p \in DOMAIN last THEN last[p].health ELSE "UNKNOWN"

PoolChanges(last, cur) ==
    {[type |-> "resilver_started", pool |-> p] :
        p \in {x \in DOMAIN cur : cur[x].resilver /\ ~HadResilver(last, x)}}
    \cup
    {[type |-> "resilver_completed", pool |-> p] :
        p \in {x \in DOMAIN cur : ~cur[x].resilver /\ HadResilver(last, x)}}
    \cup
    {[type |-> "pool_health_change", pool |-> p,
      old_health |-> ReportedOldHealth(last, p),
      new_health |-> cur[p].health] :
        p \in {x \in DOMAIN cur : cur[x].health # OldHealth(last, x)}}

(***************************************************************************)
(* The order in which the code's for-loops emit the events of one call:    *)
(* all additions, then all removals, then all temperature warnings; for    *)
(* one pool, resilver start or completion before its health change.  The   *)
(* order among disks (or pools) is the order of the probe's dict, which    *)
(* the model leaves open.                                                  *)
(***************************************************************************)
EventRank(e) ==
    CASE e.type = "disk_added"               -> 1
      [] e.type = "disk_removed"             -> 2
      [] e.type = "disk_temperature_warning" -> 3
      [] e.type = "pool_health_change"       -> 2
      [] OTHER                               -> 1

EmittedBefore(e1, e2) ==
    /\ EventRank(e1) < EventRank(e2)
    /\ ("pool" \in DOMAIN e1) => ("pool" \in DOMAIN e2 /\ e1.pool = e2.pool)

=============================================================================
