---------------------------- MODULE DiskFeedProofs ----------------------------
(***************************************************************************)
(* The daemon implements the safety part of the abstract disk feed         *)
(* DiskFeed under the refinement mapping known <- DOMAIN last_disk_state,  *)
(* announced <- the disks the broadcast events announced.  Its fairness    *)
(* part is checked by TLC (run feed).                                      *)
(***************************************************************************)
EXTENDS MonitorProofs

\* The disk invariant of MonitorProofs holds in every reachable state.
LEMMA DiskIInvAlways ==
    ASSUME ~AlertRaises, ~SmtpHangs
    PROVE  Spec => []DiskIInv
BY DiskIInvInit, DiskIInvNext, PTL DEF Spec

LEMMA FeedInit == Init => DF!Init
BY DEF Init, DF!Init, EmptySnapshot

LEMMA FeedStep ==
    ASSUME ~AlertRaises, ~SmtpHangs
    PROVE  DiskIInv /\ [Next]_vars => [DF!Next]_DF!feedVars
<1> SUFFICES ASSUME TypeOK, DiskAnnouncementsInductive, [Next]_vars
             PROVE  [DF!Next]_DF!feedVars
  BY DEF DiskIInv
<1>1. CASE UNCHANGED <<lastDisks, annDisks>>
  BY <1>1 DEF DF!feedVars
<1>2. CASE DetectHardwareChanges
  <2>1. PICK cur \in GetDiskStats :
          pending' = DiskChanges(lastDisks, cur) /\ lastDisks' = cur
    BY <1>2 DEF DetectHardwareChanges
  <2>2. DOMAIN cur \subseteq Disks
    BY <2>1, GetDiskStatsType, DiskSnapshotE DEF TypeOK
  <2>3. pc = "hw" /\ annDisks' = annDisks
    BY <1>2 DEF DetectHardwareChanges, histVars
  <2>4. annDisks = DOMAIN lastDisks
    BY <2>3 DEF DiskAnnouncementsInductive
  <2>5. DF!Sample
    BY <2>1, <2>2, <2>3, <2>4 DEF DF!Sample
  <2>6. QED
    BY <2>5 DEF DF!Next
<1>3. ASSUME NEW e \in pending, BroadcastChange(e)
      PROVE  [DF!Next]_DF!feedVars
  <2>1. /\ pc \in {"hw_events", "pool_events"}
        /\ annDisks' = AnnounceDisk(annDisks, e)
        /\ lastDisks' = lastDisks
    BY <1>3 DEF BroadcastChange
  <2>2. e \in Event
    BY DEF TypeOK
  <2>3. CASE pc = "pool_events"
    <3>1. e \in ResilverEvent \cup HealthEvent
      BY <2>3 DEF DiskAnnouncementsInductive
    <3>2. AnnounceDisk(annDisks, e) = annDisks
      BY <3>1 DEF AnnounceDisk, ResilverEvent, HealthEvent
    <3>3. QED
      BY <2>1, <3>2 DEF DF!feedVars
  <2>4. CASE pc = "hw_events"
    <3>1. CASE e.type = "disk_added" /\ e = AddedEvent(e.disk)
               /\ AnnounceDisk(annDisks, e) = annDisks \cup {e.disk}
      <4>1. e.disk \in Disks
        BY <2>2, <3>1 DEF Event, DiskEvent, TempEvent, ResilverEvent, HealthEvent
      <4>2. e.disk \notin annDisks /\ e.disk \in DOMAIN lastDisks
        BY <2>4, <3>1, <4>1 DEF DiskAnnouncementsInductive
      <4>3. DF!Announce(e.disk)
        BY <2>1, <3>1, <4>2 DEF DF!Announce
      <4>4. QED
        BY <4>1, <4>3 DEF DF!Next, DF!Catch
    <3>2. CASE e.type = "disk_removed" /\ e = RemovedEvent(e.disk)
               /\ AnnounceDisk(annDisks, e) = annDisks \ {e.disk}
      <4>1. e.disk \in Disks
        BY <2>2, <3>2 DEF Event, DiskEvent, TempEvent, ResilverEvent, HealthEvent
      <4>2. AddedEvent(e.disk) \notin pending
        BY <2>4, <3>2, <4>1 DEF DiskAnnouncementsInductive
      <4>3. e.disk \in annDisks /\ e.disk \notin DOMAIN lastDisks
        BY <2>4, <3>2, <4>1, <4>2 DEF DiskAnnouncementsInductive
      <4>4. DF!Retract(e.disk)
        BY <2>1, <3>2, <4>3 DEF DF!Retract
      <4>5. QED
        BY <4>1, <4>4 DEF DF!Next, DF!Catch
    <3>3. CASE e.type \notin {"disk_added", "disk_removed"}
               /\ AnnounceDisk(annDisks, e) = annDisks
      BY <2>1, <3>3 DEF DF!feedVars
    <3>4. QED
      BY <2>2, <3>1, <3>2, <3>3, AnnounceDiskCases
  <2>5. QED
    BY <2>1, <2>3, <2>4
<1>4. CASE MonitorStep /\ ~DetectHardwareChanges /\ ~\E e \in pending : BroadcastChange(e)
  <2>1. UNCHANGED <<lastDisks, annDisks>>
    BY <1>4 DEF MonitorStep, UpdateAllStats, DetectPoolChanges,
              EndHardwareChanges, EndPoolChanges, histVars
  <2>2. QED
    BY <2>1, <1>1
<1>5. CASE Hardware \/ \E c \in Clients : PeerStep(c) \/ HandlerStep(c)
  <2>1. UNCHANGED <<lastDisks, annDisks>>
    BY <1>5 DEF Hardware, DiskPlugged, DiskPulled, DiskHeats, PoolChange,
              PoolExported, PoolImported,
              PeerStep, HandlerStep, Connect, SendAuth, Disconnect,
              ServeMessage, AuthNoMessage, AuthRejected, RegisterClient,
              UnregisterClient, monVars, histVars
  <2>2. QED
    BY <2>1, <1>1
<1>6. CASE UNCHANGED vars
  BY <1>6, <1>1 DEF vars, monVars, histVars
<1>7. QED
  BY <1>2, <1>3, <1>4, <1>5, <1>6 DEF Next

(***************************************************************************)
(* While alert() cannot raise and the mail server answers, every step of   *)
(* the daemon is a step of the abstract disk feed or leaves the retained   *)
(* disks and the announced disks alone: detect_hardware_changes samples    *)
(* only when the announcements have caught up, and each disk_added or      *)
(* disk_removed closes one difference.                                     *)
(***************************************************************************)
THEOREM DiskFeedImplemented ==
    ASSUME ~AlertRaises, ~SmtpHangs
    PROVE  Spec => DF!Init /\ [][DF!Next]_DF!feedVars
<1>1. Spec => []DiskIInv
  BY DiskIInvAlways
<1>2. DiskIInv /\ [Next]_vars => [DF!Next]_DF!feedVars
  BY FeedStep
<1>3. QED
  BY <1>1, <1>2, FeedInit, PTL DEF Spec

=============================================================================
