---------------------------- MODULE MonitorProofs ----------------------------
(***************************************************************************)
(* Proofs about Monitor: type correctness, and that the disk events the    *)
(* monitor loop broadcasts always replay to the retained disk snapshot.    *)
(***************************************************************************)
EXTENDS Monitor, TLAPS

(***************************************************************************)
(* Snapshots: a snapshot is a function from some of the names to records.  *)
(***************************************************************************)
LEMMA DiskSnapshotI ==
    ASSUME NEW S \in SUBSET Disks, NEW f \in [S -> Temps]
    PROVE  f \in DiskSnapshots
BY DEF DiskSnapshots

LEMMA DiskSnapshotE ==
    ASSUME NEW f \in DiskSnapshots
    PROVE  /\ DOMAIN f \subseteq Disks
           /\ f \in [DOMAIN f -> Temps]
BY DEF DiskSnapshots

LEMMA PoolSnapshotI ==
    ASSUME NEW S \in SUBSET Pools, NEW f \in [S -> PoolRecord]
    PROVE  f \in PoolSnapshots
BY DEF PoolSnapshots

LEMMA PoolSnapshotE ==
    ASSUME NEW f \in PoolSnapshots
    PROVE  /\ DOMAIN f \subseteq Pools
           /\ f \in [DOMAIN f -> PoolRecord]
BY DEF PoolSnapshots

LEMMA EmptySnapshotType ==
    EmptySnapshot \in DiskSnapshots /\ EmptySnapshot \in PoolSnapshots
BY DEF EmptySnapshot, DiskSnapshots, PoolSnapshots

(***************************************************************************)
(* The detector only produces events of the declared variants.             *)
(***************************************************************************)
LEMMA DiskChangesType ==
    ASSUME NEW last \in DiskSnapshots, NEW cur \in DiskSnapshots
    PROVE  DiskChanges(last, cur) \subseteq Event
<1>1. /\ DOMAIN last \subseteq Disks /\ last \in [DOMAIN last -> Temps]
      /\ DOMAIN cur \subseteq Disks /\ cur \in [DOMAIN cur -> Temps]
  BY DiskSnapshotE
<1>2. QED
  BY <1>1 DEF DiskChanges, Event, DiskEvent, TempEvent

LEMMA PoolChangesType ==
    ASSUME NEW last \in PoolSnapshots, NEW cur \in PoolSnapshots
    PROVE  PoolChanges(last, cur) \subseteq Event
<1>1. /\ DOMAIN last \subseteq Pools /\ last \in [DOMAIN last -> PoolRecord]
      /\ DOMAIN cur \subseteq Pools /\ cur \in [DOMAIN cur -> PoolRecord]
  BY PoolSnapshotE
<1>2. \A p \in DOMAIN last : last[p].health \in Healths
  BY <1>1 DEF PoolRecord
<1>3. \A p \in DOMAIN cur : cur[p].health \in Healths
  BY <1>1 DEF PoolRecord
<1>4. QED
  BY <1>1, <1>2, <1>3
  DEF PoolChanges, ReportedOldHealth, Event, ResilverEvent, HealthEvent


(***************************************************************************)
(* The probes return snapshots.                                            *)
(***************************************************************************)
LEMMA GetDiskStatsType ==
    ASSUME hwDisks \in DiskSnapshots
    PROVE  GetDiskStats \subseteq DiskSnapshots
<1>1. /\ DOMAIN hwDisks \subseteq Disks
      /\ hwDisks \in [DOMAIN hwDisks -> Temps]
  BY DiskSnapshotE
<1>2. ASSUME NEW F \in SUBSET DOMAIN hwDisks
      PROVE  [d \in DOMAIN hwDisks |-> IF d \in F THEN 0 ELSE hwDisks[d]]
               \in DiskSnapshots
  <2>1. [d \in DOMAIN hwDisks |-> IF d \in F THEN 0 ELSE hwDisks[d]]
          \in [DOMAIN hwDisks -> Temps]
    BY <1>1, DetectorAssumption
  <2>2. QED
    BY <1>1, <2>1, DiskSnapshotI
<1>3. QED
  BY <1>2, EmptySnapshotType DEF GetDiskStats

LEMMA GetZfsPoolStatsType ==
    ASSUME hwPools \in PoolSnapshots
    PROVE  GetZfsPoolStats \subseteq PoolSnapshots
<1>0. /\ DOMAIN hwPools \subseteq Pools
      /\ hwPools \in [DOMAIN hwPools -> PoolRecord]
  BY PoolSnapshotE
<1>1. ASSUME NEW S \in SUBSET DOMAIN hwPools, NEW R \in SUBSET DOMAIN hwPools
      PROVE  [p \in S |-> [health |-> hwPools[p].health,
                           resilver |-> hwPools[p].resilver /\ p \notin R]]
               \in PoolSnapshots
  <2>1. [p \in S |-> [health |-> hwPools[p].health,
                      resilver |-> hwPools[p].resilver /\ p \notin R]]
          \in [S -> PoolRecord]
    BY <1>0 DEF PoolRecord
  <2>2. QED
    BY <1>0, <2>1, PoolSnapshotI
<1>2. QED
  BY <1>1 DEF GetZfsPoolStats

(***************************************************************************)
(* What a broadcast change does to the history and to the alert record.    *)
(***************************************************************************)
LEMMA AnnounceType ==
    ASSUME NEW A \in SUBSET Disks, NEW P \in [Pools -> PoolRecord],
           NEW e \in Event
    PROVE  /\ AnnounceDisk(A, e) \in SUBSET Disks
           /\ AnnouncePool(P, e) \in [Pools -> PoolRecord]
<1>1. AnnounceDisk(A, e) \in SUBSET Disks
  BY DEF AnnounceDisk, Event, DiskEvent, TempEvent, ResilverEvent, HealthEvent
<1>2. AnnouncePool(P, e) \in [Pools -> PoolRecord]
  BY DEF AnnouncePool, PoolRecord, Event, DiskEvent, TempEvent,
         ResilverEvent, HealthEvent
<1>3. QED
  BY <1>1, <1>2

LEMMA AlertRecordType ==
    ASSUME NEW e \in Event, NEW ok \in [Channels -> BOOLEAN]
    PROVE  [event |-> e, type |-> AlertTypeOf(e),
            priority |-> TemplatePriority(AlertTypeOf(e)),
            results |-> AlertResults(ok)] \in AlertRecord
<1>1. AlertTypeOf(e) \in AlertTypes
  BY DEF AlertTypeOf, AlertTypes, Event, DiskEvent, TempEvent,
         ResilverEvent, HealthEvent
<1>2. TemplatePriority(AlertTypeOf(e)) \in Priorities
  BY <1>1 DEF TemplatePriority, AlertTypes, Priorities
<1>3. AlertResults(ok) \in [Channels -> BOOLEAN]
  BY DEF AlertResults
<1>4. QED
  BY <1>1, <1>2, <1>3 DEF AlertRecord


(***************************************************************************)
(* Type correctness of the whole daemon: every step of the monitor loop,   *)
(* of the handlers, of the peers and of the hardware keeps every variable  *)
(* in its type.                                                            *)
(***************************************************************************)
LEMMA InitTypeOK == Init => TypeOK
<1> SUFFICES ASSUME Init PROVE TypeOK
  OBVIOUS
<1>1. [disks |-> EmptySnapshot, pools |-> EmptySnapshot] \in SystemState
  BY EmptySnapshotType DEF SystemState
<1>2. NoAlert \in AlertRecord \cup {NoAlert}
  OBVIOUS
<1>3. [p \in Pools |-> DefaultPool] \in [Pools -> PoolRecord]
  BY DetectorAssumption DEF DefaultPool, PoolRecord
<1>4. QED
  BY <1>1, <1>2, <1>3, EmptySnapshotType DEF Init, TypeOK

LEMMA NextTypeOK == TypeOK /\ [Next]_vars => TypeOK'
<1> SUFFICES ASSUME TypeOK, [Next]_vars PROVE TypeOK'
  OBVIOUS
<1>1. CASE DiskPlugged
  <2>1. PICK d \in Disks \ DOMAIN hwDisks, t \in Temps :
          hwDisks' = [x \in DOMAIN hwDisks \cup {d} |->
                         IF x = d THEN t ELSE hwDisks[x]]
    BY <1>1 DEF DiskPlugged
  <2>2. /\ DOMAIN hwDisks \subseteq Disks
        /\ hwDisks \in [DOMAIN hwDisks -> Temps]
    BY DiskSnapshotE DEF TypeOK
  <2>3. hwDisks' \in [DOMAIN hwDisks \cup {d} -> Temps]
    BY <2>1, <2>2
  <2>4. hwDisks' \in DiskSnapshots
    BY <2>2, <2>3, DiskSnapshotI
  <2>5. QED
    BY <1>1, <2>4 DEF DiskPlugged, TypeOK, monVars, hubVars, histVars
<1>2. CASE DiskPulled
  <2>1. PICK d \in DOMAIN hwDisks :
          hwDisks' = [x \in DOMAIN hwDisks \ {d} |-> hwDisks[x]]
    BY <1>2 DEF DiskPulled
  <2>2. /\ DOMAIN hwDisks \subseteq Disks
        /\ hwDisks \in [DOMAIN hwDisks -> Temps]
    BY DiskSnapshotE DEF TypeOK
  <2>3. hwDisks' \in [DOMAIN hwDisks \ {d} -> Temps]
    BY <2>1, <2>2
  <2>4. hwDisks' \in DiskSnapshots
    BY <2>2, <2>3, DiskSnapshotI
  <2>5. QED
    BY <1>2, <2>4 DEF DiskPulled, TypeOK, monVars, hubVars, histVars
<1>3. CASE DiskHeats
  <2>1. PICK d \in DOMAIN hwDisks, t \in Temps :
          hwDisks' = [hwDisks EXCEPT ![d] = t]
    BY <1>3 DEF DiskHeats
  <2>2. /\ DOMAIN hwDisks \subseteq Disks
        /\ hwDisks \in [DOMAIN hwDisks -> Temps]
    BY DiskSnapshotE DEF TypeOK
  <2>3. hwDisks' \in [DOMAIN hwDisks -> Temps]
    BY <2>1, <2>2
  <2>4. hwDisks' \in DiskSnapshots
    BY <2>2, <2>3, DiskSnapshotI
  <2>5. QED
    BY <1>3, <2>4 DEF DiskHeats, TypeOK, monVars, hubVars, histVars
<1>4. CASE PoolChange
  <2>1. PICK p \in DOMAIN hwPools, r \in PoolRecord :
          hwPools' = [hwPools EXCEPT ![p] = r]
    BY <1>4 DEF PoolChange
  <2>2. /\ DOMAIN hwPools \subseteq Pools
        /\ hwPools \in [DOMAIN hwPools -> PoolRecord]
    BY PoolSnapshotE DEF TypeOK
  <2>3. hwPools' \in PoolSnapshots
    BY <2>1, <2>2, PoolSnapshotI
  <2>4. QED
    BY <1>4, <2>3 DEF PoolChange, TypeOK, monVars, hubVars, histVars
<1>11. CASE PoolExported
  <2>1. PICK p \in DOMAIN hwPools :
          hwPools' = [x \in DOMAIN hwPools \ {p} |-> hwPools[x]]
    BY <1>11 DEF PoolExported
  <2>2. /\ DOMAIN hwPools \subseteq Pools
        /\ hwPools \in [DOMAIN hwPools -> PoolRecord]
    BY PoolSnapshotE DEF TypeOK
  <2>3. hwPools' \in [DOMAIN hwPools \ {p} -> PoolRecord]
    BY <2>1, <2>2
  <2>4. hwPools' \in PoolSnapshots
    BY <2>2, <2>3, PoolSnapshotI
  <2>5. QED
    BY <1>11, <2>4 DEF PoolExported, TypeOK, monVars, hubVars, histVars
<1>12. CASE PoolImported
  <2>1. PICK p \in Pools \ DOMAIN hwPools, r \in PoolRecord :
          hwPools' = [x \in DOMAIN hwPools \cup {p} |->
                         IF x = p THEN r ELSE hwPools[x]]
    BY <1>12 DEF PoolImported
  <2>2. /\ DOMAIN hwPools \subseteq Pools
        /\ hwPools \in [DOMAIN hwPools -> PoolRecord]
    BY PoolSnapshotE DEF TypeOK
  <2>3. hwPools' \in [DOMAIN hwPools \cup {p} -> PoolRecord]
    BY <2>1, <2>2
  <2>4. hwPools' \in PoolSnapshots
    BY <2>2, <2>3, PoolSnapshotI
  <2>5. QED
    BY <1>12, <2>4 DEF PoolImported, TypeOK, monVars, hubVars, histVars
<1>5. CASE UpdateAllStats
  <2>1. systemState' \in SystemState
    BY <1>5, GetDiskStatsType, GetZfsPoolStatsType
    DEF UpdateAllStats, TypeOK, SystemState
  <2>2. view' \in [Clients -> SystemState]
    BY <1>5, <2>1 DEF UpdateAllStats, BroadcastState, TypeOK
  <2>3. QED
    BY <1>5, <2>1, <2>2 DEF UpdateAllStats, TypeOK, hwVars, histVars
<1>6. CASE DetectHardwareChanges
  <2>1. PICK cur \in GetDiskStats :
          pending' = DiskChanges(lastDisks, cur) /\ lastDisks' = cur
    BY <1>6 DEF DetectHardwareChanges
  <2>2. cur \in DiskSnapshots
    BY <2>1, GetDiskStatsType DEF TypeOK
  <2>3. pending' \in SUBSET Event
    BY <2>1, <2>2, DiskChangesType DEF TypeOK
  <2>4. QED
    BY <1>6, <2>1, <2>2, <2>3
    DEF DetectHardwareChanges, TypeOK, hwVars, hubVars, histVars
<1>7. CASE DetectPoolChanges
  <2>1. PICK cur \in GetZfsPoolStats :
          pending' = PoolChanges(lastPools, cur) /\ lastPools' = cur
    BY <1>7 DEF DetectPoolChanges
  <2>2. cur \in PoolSnapshots
    BY <2>1, GetZfsPoolStatsType DEF TypeOK
  <2>3. pending' \in SUBSET Event
    BY <2>1, <2>2, PoolChangesType DEF TypeOK
  <2>4. QED
    BY <1>7, <2>1, <2>2, <2>3
    DEF DetectPoolChanges, TypeOK, hwVars, hubVars, histVars
<1>8. ASSUME NEW e \in pending, BroadcastChange(e)
      PROVE  TypeOK'
  <2>1. e \in Event
    BY DEF TypeOK
  <2>2. annDisks' \in SUBSET Disks /\ annPools' \in [Pools -> PoolRecord]
    BY <1>8, <2>1, AnnounceType DEF BroadcastChange, TypeOK
  <2>3. lastAlert' \in AlertRecord \cup {NoAlert}
    BY <1>8, <2>1, AlertRecordType DEF BroadcastChange, TypeOK
  <2>4. pc' \in {"update", "hw", "hw_events", "pool", "pool_events", "hang"}
    BY <1>8 DEF BroadcastChange
  <2>5. pending' \in SUBSET Event
    BY <1>8 DEF BroadcastChange, TypeOK
  <2>6. QED
    BY <1>8, <2>2, <2>3, <2>4, <2>5 DEF BroadcastChange, TypeOK, hwVars, hubVars
<1>9. CASE EndHardwareChanges \/ EndPoolChanges
  BY <1>9 DEF EndHardwareChanges, EndPoolChanges, TypeOK, hwVars, hubVars, histVars
<1>10. ASSUME NEW c \in Clients, PeerStep(c) \/ HandlerStep(c)
       PROVE  TypeOK'
  <2>1. CASE Connect(c) \/ SendAuth(c) \/ Disconnect(c)
    BY <2>1 DEF Connect, SendAuth, Disconnect, TypeOK, hwVars, monVars, histVars
  <2>2. CASE ServeMessage(c)
    BY <2>2 DEF ServeMessage, TypeOK, hwVars, monVars, histVars
  <2>3. CASE AuthNoMessage(c) \/ AuthRejected(c)
    BY <2>3 DEF AuthNoMessage, AuthRejected, TypeOK, hwVars, monVars, histVars
  <2>4. CASE RegisterClient(c)
    BY <2>4 DEF RegisterClient, TypeOK, hwVars, monVars, histVars
  <2>5. CASE UnregisterClient(c)
    BY <2>5 DEF UnregisterClient, TypeOK, hwVars, monVars, histVars
  <2>6. QED
    BY <1>10, <2>1, <2>2, <2>3, <2>4, <2>5 DEF PeerStep, HandlerStep
<1>13. CASE UNCHANGED vars
  BY <1>13 DEF vars, hwVars, monVars, hubVars, histVars, TypeOK
<1>14. QED
  BY <1>1, <1>2, <1>3, <1>4, <1>5, <1>6, <1>7, <1>8, <1>9, <1>10, <1>11,
     <1>12, <1>13
  DEF Next, Hardware, MonitorStep

(***************************************************************************)
(* Every reachable state of the daemon is well typed.                      *)
(***************************************************************************)
THEOREM TypeCorrect == Spec => []TypeOK
BY InitTypeOK, NextTypeOK, PTL DEF Spec


(***************************************************************************)
(* The disk additions and removals detect_hardware_changes reports are     *)
(* exactly the disks of the fresh snapshot not in the retained one, and    *)
(* the other way round.                                                    *)
(***************************************************************************)
LEMMA DiskChangesMembers ==
    ASSUME NEW last \in DiskSnapshots, NEW cur \in DiskSnapshots,
           NEW d \in Disks
    PROVE  /\ AddedEvent(d) \in DiskChanges(last, cur)
                <=> d \in DOMAIN cur \ DOMAIN last
           /\ RemovedEvent(d) \in DiskChanges(last, cur)
                <=> d \in DOMAIN last \ DOMAIN cur
BY DEF DiskChanges, AddedEvent, RemovedEvent

\* detect_pool_changes reports pool changes only.
LEMMA PoolChangesPoolOnly ==
    ASSUME NEW last \in PoolSnapshots, NEW cur \in PoolSnapshots
    PROVE  PoolChanges(last, cur) \subseteq ResilverEvent \cup HealthEvent
BY PoolChangesType DEF PoolChanges, Event, DiskEvent, TempEvent

\* A change event is an addition or a removal of its disk, or leaves the
\* announced disks alone.
LEMMA AnnounceDiskCases ==
    ASSUME NEW A, NEW e \in Event
    PROVE  \/ e.type = "disk_added" /\ e = AddedEvent(e.disk)
              /\ AnnounceDisk(A, e) = A \cup {e.disk}
           \/ e.type = "disk_removed" /\ e = RemovedEvent(e.disk)
              /\ AnnounceDisk(A, e) = A \ {e.disk}
           \/ e.type \notin {"disk_added", "disk_removed"}
              /\ AnnounceDisk(A, e) = A
BY DEF Event, DiskEvent, TempEvent, ResilverEvent, HealthEvent,
       AnnounceDisk, AddedEvent, RemovedEvent

\* The strengthened disk invariant, with the types.
DiskIInv == TypeOK /\ DiskAnnouncementsInductive

LEMMA DiskIInvInit == Init => DiskIInv
BY InitTypeOK DEF Init, DiskIInv, DiskAnnouncementsInductive, EmptySnapshot

LEMMA DiskIInvNext ==
    ASSUME ~AlertRaises, ~SmtpHangs
    PROVE  DiskIInv /\ [Next]_vars => DiskIInv'
<1> SUFFICES ASSUME TypeOK, DiskAnnouncementsInductive, [Next]_vars
             PROVE  DiskAnnouncementsInductive'
  BY NextTypeOK DEF DiskIInv
<1> USE DEF DiskAnnouncementsInductive
<1>1. CASE UNCHANGED <<pc, pending, annDisks, lastDisks>>
  BY <1>1
<1>2. CASE UpdateAllStats
  BY <1>2 DEF UpdateAllStats, histVars
<1>3. CASE DetectHardwareChanges
  <2>1. PICK cur \in GetDiskStats :
          pending' = DiskChanges(lastDisks, cur) /\ lastDisks' = cur
    BY <1>3 DEF DetectHardwareChanges
  <2>2. cur \in DiskSnapshots /\ lastDisks \in DiskSnapshots
    BY <2>1, GetDiskStatsType DEF TypeOK
  <2>3. pc = "hw" /\ pc' = "hw_events" /\ annDisks' = annDisks
    BY <1>3 DEF DetectHardwareChanges, histVars
  <2>4. annDisks = DOMAIN lastDisks
    BY <2>3
  <2>5. QED
    BY <2>1, <2>2, <2>3, <2>4, DiskChangesMembers
<1>4. CASE DetectPoolChanges
  <2>1. PICK cur \in GetZfsPoolStats :
          pending' = PoolChanges(lastPools, cur) /\ lastPools' = cur
    BY <1>4 DEF DetectPoolChanges
  <2>2. pending' \subseteq ResilverEvent \cup HealthEvent
    BY <2>1, GetZfsPoolStatsType, PoolChangesPoolOnly DEF TypeOK
  <2>3. QED
    BY <1>4, <2>2 DEF DetectPoolChanges, histVars
<1>5. CASE EndHardwareChanges
  <2>1. pc = "hw_events" /\ pending = {}
    BY <1>5 DEF EndHardwareChanges
  <2>2. DOMAIN lastDisks \subseteq Disks /\ annDisks \subseteq Disks
    BY DiskSnapshotE DEF TypeOK
  <2>3. annDisks = DOMAIN lastDisks
    BY <2>1, <2>2
  <2>4. QED
    BY <1>5, <2>3 DEF EndHardwareChanges, histVars
<1>6. CASE EndPoolChanges
  BY <1>6 DEF EndPoolChanges, histVars
<1>7. ASSUME NEW e \in pending, BroadcastChange(e)
      PROVE  DiskAnnouncementsInductive'
  <2>1. /\ pc \in {"hw_events", "pool_events"}
        /\ pc' = pc
        /\ pending' = pending \ {e}
        /\ annDisks' = AnnounceDisk(annDisks, e)
        /\ lastDisks' = lastDisks
    BY <1>7 DEF BroadcastChange
  <2>2. e \in Event
    BY DEF TypeOK
  <2>3. CASE pc = "pool_events"
    <3>1. e \in ResilverEvent \cup HealthEvent
      BY <2>3
    <3>2. AnnounceDisk(annDisks, e) = annDisks
      BY <3>1 DEF AnnounceDisk, ResilverEvent, HealthEvent
    <3>3. QED
      BY <2>1, <2>3, <3>2
  <2>4. CASE pc = "hw_events"
    <3> SUFFICES ASSUME NEW d \in Disks
                 PROVE  /\ AddedEvent(d) \in pending' => d \notin annDisks'
                        /\ RemovedEvent(d) \in pending' => d \in annDisks'
                        /\ d \in DOMAIN lastDisks' <=>
                              \/ AddedEvent(d) \in pending'
                              \/ d \in annDisks' /\ RemovedEvent(d) \notin pending'
      BY <2>1, <2>4
    <3>1. ~(AddedEvent(d) \in pending /\ RemovedEvent(d) \in pending)
      BY <2>4
    <3>2. AddedEvent(d) # RemovedEvent(d)
      BY DEF AddedEvent, RemovedEvent
    <3>3. CASE e.type = "disk_added" /\ e = AddedEvent(e.disk)
               /\ AnnounceDisk(annDisks, e) = annDisks \cup {e.disk}
      <4>1. CASE e.disk = d
        BY <2>1, <2>4, <3>1, <3>2, <3>3, <4>1
      <4>2. CASE e.disk # d
        <5>1. e # AddedEvent(d) /\ e # RemovedEvent(d)
          BY <3>3, <4>2 DEF AddedEvent, RemovedEvent
        <5>2. QED
          BY <2>1, <2>4, <3>3, <4>2, <5>1
      <4>3. QED
        BY <4>1, <4>2
    <3>4. CASE e.type = "disk_removed" /\ e = RemovedEvent(e.disk)
               /\ AnnounceDisk(annDisks, e) = annDisks \ {e.disk}
      <4>1. CASE e.disk = d
        BY <2>1, <2>4, <3>1, <3>2, <3>4, <4>1
      <4>2. CASE e.disk # d
        <5>1. e # AddedEvent(d) /\ e # RemovedEvent(d)
          BY <3>4, <4>2 DEF AddedEvent, RemovedEvent
        <5>2. QED
          BY <2>1, <2>4, <3>4, <4>2, <5>1
      <4>3. QED
        BY <4>1, <4>2
    <3>5. CASE e.type \notin {"disk_added", "disk_removed"}
               /\ AnnounceDisk(annDisks, e) = annDisks
      <4>1. e # AddedEvent(d) /\ e # RemovedEvent(d)
        BY <3>5 DEF AddedEvent, RemovedEvent
      <4>2. QED
        BY <2>1, <2>4, <3>5, <4>1
    <3>6. QED
      BY <2>2, <3>3, <3>4, <3>5, AnnounceDiskCases
  <2>5. QED
    BY <2>1, <2>3, <2>4
<1>8. CASE \E c \in Clients : PeerStep(c) \/ HandlerStep(c)
  <2>1. UNCHANGED <<pc, pending, annDisks, lastDisks>>
    BY <1>8 DEF PeerStep, HandlerStep, Connect, SendAuth, Disconnect,
              ServeMessage, AuthNoMessage, AuthRejected, RegisterClient,
              UnregisterClient, monVars, histVars
  <2>2. QED
    BY <2>1, <1>1
<1>9. CASE Hardware
  <2>1. UNCHANGED <<pc, pending, annDisks, lastDisks>>
    BY <1>9 DEF Hardware, DiskPlugged, DiskPulled, DiskHeats, PoolChange,
              PoolExported, PoolImported,
              monVars, histVars
  <2>2. QED
    BY <2>1, <1>1
<1>10. CASE UNCHANGED vars
  BY <1>10, <1>1 DEF vars, monVars, histVars
<1>11. QED
  BY <1>2, <1>3, <1>4, <1>5, <1>6, <1>7, <1>8, <1>9, <1>10
  DEF Next, MonitorStep

(***************************************************************************)
(* When no alert channel section lacks its 'enabled' key and the mail      *)
(* server answers, the disks the                                           *)
(* disk_added and disk_removed broadcasts announce are, outside the disk   *)
(* for-loop, exactly the disks detect_hardware_changes retains, for any    *)
(* number of disks and clients and whatever the probes return.            *)
(***************************************************************************)
THEOREM DiskAnnouncements ==
    ASSUME ~AlertRaises, ~SmtpHangs
    PROVE  Spec => []DiskAnnouncementsTruthful
<1>1. Init => DiskIInv
  BY DiskIInvInit
<1>2. DiskIInv /\ [Next]_vars => DiskIInv'
  BY DiskIInvNext
<1>3. DiskIInv => DiskAnnouncementsTruthful
  BY DEF DiskIInv, DiskAnnouncementsInductive, DiskAnnouncementsTruthful
<1>4. QED
  BY <1>1, <1>2, <1>3, PTL DEF Spec


(***************************************************************************)
(* detect_hardware_changes and detect_pool_changes are idempotent: diffing *)
(* a snapshot against itself (the second call after the retained dict was  *)
(* replaced, with nothing changed) reports no change, for any disks,       *)
(* temperatures, pools and healths.                                        *)
(***************************************************************************)
THEOREM DetectIdempotent ==
    /\ \A s \in DiskSnapshots : DiskChanges(s, s) = {}
    /\ \A s \in PoolSnapshots : PoolChanges(s, s) = {}
<1>1. ASSUME NEW s \in DiskSnapshots PROVE DiskChanges(s, s) = {}
  <2>1. s \in [DOMAIN s -> Temps]
    BY DiskSnapshotE
  <2>2. \A d \in DOMAIN s : ~TempWarning(s, s, d)
    BY <2>1, DetectorAssumption DEF TempWarning, OldTemp, WarnTemp, TempStep
  <2>3. QED
    BY <2>2 DEF DiskChanges
<1>2. ASSUME NEW s \in PoolSnapshots PROVE PoolChanges(s, s) = {}
  <2>0. s \in [DOMAIN s -> PoolRecord]
    BY PoolSnapshotE
  <2>1. \A p \in DOMAIN s : /\ HadResilver(s, p) <=> s[p].resilver
                           /\ OldHealth(s, p) = s[p].health
    BY <2>0 DEF HadResilver, OldHealth, PoolRecord
  <2>2. QED
    BY <2>1 DEF PoolChanges
<1>3. QED
  BY <1>1, <1>2

=============================================================================
