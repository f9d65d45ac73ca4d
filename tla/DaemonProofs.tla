----------------------------- MODULE DaemonProofs -----------------------------
(***************************************************************************)
(* Proofs about the whole daemon: the udev task's queues stay well formed, *)
(* and composing the udev task and the broadcast tasks it creates with the *)
(* tick loop keeps the disk feed refinement that DiskFeedProofs proves of  *)
(* the tick loop alone.                                                    *)
(***************************************************************************)
EXTENDS Daemon, DiskFeedProofs, SequenceTheorems

(***************************************************************************)
(* The udev steps leave the tick loop, the hub and the hardware alone, and *)
(* the hardware steps that the kernel reports are hardware steps of        *)
(* Monitor: every daemon step is a Monitor step or a Monitor stutter.      *)
(***************************************************************************)
LEMMA DaemonNextMonitor == [DaemonNext]_daemonVars => [Next]_vars
<1> SUFFICES ASSUME [DaemonNext]_daemonVars PROVE [Next]_vars
  OBVIOUS
<1>1. CASE DiskPluggedNotified
  BY <1>1 DEF DiskPluggedNotified, Next, Hardware
<1>2. CASE DiskPulledNotified
  BY <1>2 DEF DiskPulledNotified, Next, Hardware
<1>3. CASE DiskChanged
  BY <1>3 DEF DiskChanged
<1>4. CASE DiskHeatsQuiet \/ PoolChangeQuiet \/ PoolExportedQuiet \/ PoolImportedQuiet
  BY <1>4 DEF DiskHeatsQuiet, PoolChangeQuiet, PoolExportedQuiet,
              PoolImportedQuiet, Next, Hardware
<1>5. CASE MonitorStep /\ UNCHANGED udevVars
  BY <1>5 DEF Next
<1>6. CASE \E c \in Clients : (PeerStep(c) \/ HandlerStep(c)) /\ UNCHANGED udevVars
  BY <1>6 DEF Next
<1>7. CASE UdevStep
  BY <1>7 DEF UdevStep, UdevPoll, PushHotplug
<1>8. CASE UNCHANGED daemonVars
  BY <1>8 DEF daemonVars
<1>9. QED
  BY <1>1, <1>2, <1>3, <1>4, <1>5, <1>6, <1>7, <1>8 DEF DaemonNext

(***************************************************************************)
(* The three udev-side steps keep the queues typed.                        *)
(***************************************************************************)
\* The kernel numbers a notification one past the ones handed out so far.
LEMMA NotifyStep ==
    ASSUME UdevTypeOK, NEW a \in UdevActions, NEW d \in Disks, Notify(a, d)
    PROVE  UdevTypeOK'
<1> DEFINE x == [seq |-> udevSeq + 1, action |-> a, disk |-> d]
<1>1. /\ udevSeq \in 0..MaxHotplug /\ udevSeq < MaxHotplug
      /\ udevSeq' = udevSeq + 1
      /\ UNCHANGED <<udevTasks, pushed>>
  BY DEF Notify, UdevTypeOK
<1>2. x \in Notification
  BY <1>1, DaemonAssumption DEF Notification
<1>3. netlink' \in Seq(Notification)
  <2>1. CASE UdevAvailable
    BY <1>2, <2>1, AppendProperties DEF Notify, UdevTypeOK
  <2>2. CASE ~UdevAvailable
    BY <2>2 DEF Notify, UdevTypeOK
  <2>3. QED
    BY <2>1, <2>2
<1>4. QED
  BY <1>1, <1>3, DaemonAssumption DEF UdevTypeOK

\* monitor.poll hands over the oldest notification, and handle_event queues
\* its broadcast behind the earlier ones.
LEMMA PollStep ==
    ASSUME UdevTypeOK, UdevPoll
    PROVE  UdevTypeOK'
<1>1. /\ netlink \in Seq(Notification) /\ netlink # << >>
      /\ netlink' = Tail(netlink)
      /\ UNCHANGED <<udevSeq, pushed>>
  BY DEF UdevPoll, UdevTypeOK
<1>2. Head(netlink) \in Notification /\ Tail(netlink) \in Seq(Notification)
  BY <1>1, HeadTailProperties
<1>3. udevTasks' \in Seq(Notification)
  BY <1>2, AppendProperties DEF UdevPoll, UdevTypeOK
<1>4. QED
  BY <1>1, <1>2, <1>3 DEF UdevTypeOK

\* The oldest created task runs broadcast_event.
LEMMA PushStep ==
    ASSUME UdevTypeOK, PushHotplug
    PROVE  UdevTypeOK'
<1>1. /\ udevTasks \in Seq(Notification) /\ udevTasks # << >>
      /\ udevTasks' = Tail(udevTasks)
      /\ pushed' = pushed \cup {Head(udevTasks).seq}
      /\ UNCHANGED <<udevSeq, netlink>>
  BY DEF PushHotplug, UdevTypeOK
<1>2. Head(udevTasks) \in Notification /\ Tail(udevTasks) \in Seq(Notification)
  BY <1>1, HeadTailProperties
<1>3. QED
  BY <1>1, <1>2 DEF UdevTypeOK, Notification

(***************************************************************************)
(* The inductive invariant of the udev side.  It needs TypeOK: the disk a *)
(* plug notification names is one the new hardware snapshot holds.         *)
(***************************************************************************)
UdevIInv == TypeOK /\ UdevTypeOK

LEMMA UdevIInvInit == Init /\ UdevInit => UdevIInv
<1> SUFFICES ASSUME Init, UdevInit PROVE UdevIInv
  OBVIOUS
<1>1. TypeOK
  BY InitTypeOK
<1>2. QED
  BY <1>1, DaemonAssumption DEF UdevInit, UdevIInv, UdevTypeOK

LEMMA UdevIInvNext == UdevIInv /\ [DaemonNext]_daemonVars => UdevIInv'
<1> SUFFICES ASSUME TypeOK, UdevTypeOK, [DaemonNext]_daemonVars
             PROVE  UdevIInv'
  BY DEF UdevIInv
<1>1. TypeOK'
  BY DaemonNextMonitor, NextTypeOK
<1>2. CASE UNCHANGED udevVars
  BY <1>1, <1>2 DEF udevVars, UdevIInv, UdevTypeOK
<1>3. CASE DiskPluggedNotified
  <2>1. PICK d \in DOMAIN hwDisks' \ DOMAIN hwDisks : Notify("add", d)
    BY <1>3 DEF DiskPluggedNotified
  <2>2. d \in Disks
    BY <1>1, DiskSnapshotE DEF TypeOK
  <2>3. QED
    BY <1>1, <2>1, <2>2, NotifyStep DEF UdevIInv, UdevActions
<1>4. CASE DiskPulledNotified
  <2>1. PICK d \in DOMAIN hwDisks \ DOMAIN hwDisks' : Notify("remove", d)
    BY <1>4 DEF DiskPulledNotified
  <2>2. d \in Disks
    BY DiskSnapshotE DEF TypeOK
  <2>3. QED
    BY <1>1, <2>1, <2>2, NotifyStep DEF UdevIInv, UdevActions
<1>5. CASE DiskChanged
  <2>1. PICK d \in DOMAIN hwDisks : Notify("change", d)
    BY <1>5 DEF DiskChanged
  <2>2. d \in Disks
    BY DiskSnapshotE DEF TypeOK
  <2>3. QED
    BY <1>1, <2>1, <2>2, NotifyStep DEF UdevIInv, UdevActions
<1>6. CASE UdevPoll
  BY <1>1, <1>6, PollStep DEF UdevIInv
<1>7. CASE PushHotplug
  BY <1>1, <1>7, PushStep DEF UdevIInv
<1>8. QED
  BY <1>2, <1>3, <1>4, <1>5, <1>6, <1>7
  DEF DaemonNext, UdevStep, daemonVars, DiskHeatsQuiet, PoolChangeQuiet,
      PoolExportedQuiet, PoolImportedQuiet

(***************************************************************************)
(* The notification queue of UdevMonitor.watch_events and the tasks it     *)
(* creates stay well formed: numbered within the kernel's count, about     *)
(* known disks, for any number of disks and notifications.                 *)
(***************************************************************************)
THEOREM UdevTypeCorrect == DaemonSpec => []UdevTypeOK
<1>1. Init /\ UdevInit => UdevIInv
  BY UdevIInvInit
<1>2. UdevIInv /\ [DaemonNext]_daemonVars => UdevIInv'
  BY UdevIInvNext
<1>3. UdevIInv => UdevTypeOK
  BY DEF UdevIInv
<1>4. QED
  BY <1>1, <1>2, <1>3, PTL DEF DaemonSpec

(***************************************************************************)
(* With the udev task and its broadcast tasks running beside the tick      *)
(* loop, the disks the broadcast events announce still follow the abstract *)
(* feed DiskFeed step by step (while alert() neither raises nor hangs).    *)
(***************************************************************************)
THEOREM DaemonFeedImplemented ==
    ASSUME ~AlertRaises, ~SmtpHangs
    PROVE  DaemonSpec => DF!Init /\ [][DF!Next]_DF!feedVars
<1>1. Init /\ UdevInit => DiskIInv /\ DF!Init
  BY DiskIInvInit, FeedInit
<1>2. DiskIInv /\ [DaemonNext]_daemonVars => DiskIInv' /\ [DF!Next]_DF!feedVars
  BY DaemonNextMonitor, DiskIInvNext, FeedStep
<1>3. QED
  BY <1>1, <1>2, PTL DEF DaemonSpec

=============================================================================
