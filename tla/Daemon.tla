-------------------------------- MODULE Daemon --------------------------------
(***************************************************************************)
(* The whole realtime-monitor daemon: Monitor (the tick loop, the hub and  *)
(* the handshakes) composed with UdevMonitor.watch_events, the second      *)
(* concern main() starts.  The kernel queues a block-device notification   *)
(* on the netlink socket when a disk is plugged in or pulled, or changes;  *)
(* the udev task reads one notification per iteration (poll, then          *)
(* asyncio.sleep(0.1)) and, for an add or a remove, hands a                *)
(* hardware_event broadcast to asyncio.create_task.  The created tasks run *)
(* later, in the order they were created, on the same event loop; like the *)
(* udev task itself, they run only while the loop's thread is not stuck in *)
(* alert().                                                                *)
(***************************************************************************)
EXTENDS Monitor, Sequences

CONSTANTS
    UdevAvailable,  \* pyudev.Context() and the netlink monitor could be created
    MaxHotplug      \* bound on the notifications the kernel sends in one run

ASSUME DaemonAssumption ==
    /\ UdevAvailable \in BOOLEAN
    /\ MaxHotplug \in Nat

VARIABLES
    udevSeq,    \* how many notifications the kernel has queued so far
    netlink,    \* the queued notifications the udev task has not read
    udevTasks,  \* created hardware_event broadcasts not yet run, oldest first
    pushed      \* history: the notifications whose hardware_event was broadcast

udevVars == <<udevSeq, netlink, udevTasks, pushed>>
daemonVars == <<vars, udevVars>>

UdevActions == {"add", "remove", "change"}

Notification == [seq : 1..MaxHotplug, action : UdevActions, disk : Disks]

\* Mutant: handle_event tests action == 'add' only.
HotplugActionsAddOnly == {"add"}

\* The actions handle_event turns into a hardware_event.
HotplugActions == {"add", "remove"}

UdevTypeOK ==
    /\ udevSeq \in 0..MaxHotplug
    /\ netlink \in Seq(Notification)
    /\ udevTasks \in Seq(Notification)
    /\ pushed \in SUBSET (1..MaxHotplug)

UdevInit ==
    /\ udevSeq = 0
    /\ netlink = <<>>
    /\ udevTasks = <<>>
    /\ pushed = {}

(***************************************************************************)
(* The kernel: a notification about disk d, queued on the socket the       *)
(* monitor listens on when the udev monitor was created.                   *)
(***************************************************************************)
Notify(a, d) ==
    /\ udevSeq < MaxHotplug
    /\ udevSeq' = udevSeq + 1
    /\ netlink' = IF UdevAvailable
                  THEN Append(netlink, [seq |-> udevSeq + 1, action |-> a, disk |-> d])
                  ELSE netlink
    /\ UNCHANGED <<udevTasks, pushed>>

DiskPluggedNotified ==
    /\ DiskPlugged
    /\ \E d \in DOMAIN hwDisks' \ DOMAIN hwDisks : Notify("add", d)

DiskPulledNotified ==
    /\ DiskPulled
    /\ \E d \in DOMAIN hwDisks \ DOMAIN hwDisks' : Notify("remove", d)

\* A 'change' uevent (a re-read partition table, new media) of an attached disk.
DiskChanged ==
    /\ \E d \in DOMAIN hwDisks : Notify("change", d)
    /\ UNCHANGED vars

(***************************************************************************)
(* One iteration of watch_events: monitor.poll returns the oldest queued   *)
(* device, and handle_event creates the broadcast task for an add or a     *)
(* remove and ignores any other action.  A poll that times out with        *)
(* nothing queued changes nothing.                                         *)
(***************************************************************************)
UdevPoll ==
    /\ UdevAvailable
    /\ LoopFree
    /\ netlink # <<>>
    /\ netlink' = Tail(netlink)
    /\ udevTasks' = IF Head(netlink).action \in HotplugActions
                    THEN Append(udevTasks, Head(netlink))
                    ELSE udevTasks
    /\ UNCHANGED <<udevSeq, pushed, vars>>

\* The oldest created task runs broadcast_event of its hardware_event.
PushHotplug ==
    /\ LoopFree
    /\ udevTasks # <<>>
    /\ pushed' = pushed \cup {Head(udevTasks).seq}
    /\ udevTasks' = Tail(udevTasks)
    /\ UNCHANGED <<udevSeq, netlink, vars>>

\* Notification n is on the socket, not yet read.
Queued(n) == \E i \in 1..Len(netlink) : netlink[i] = n

UdevStep == UdevPoll \/ PushHotplug

\* Hardware changes the udev socket is not told of: a temperature, a pool's
\* health or resilver, a pool exported or imported.
DiskHeatsQuiet == DiskHeats /\ UNCHANGED udevVars

PoolChangeQuiet == PoolChange /\ UNCHANGED udevVars

PoolExportedQuiet == PoolExported /\ UNCHANGED udevVars

PoolImportedQuiet == PoolImported /\ UNCHANGED udevVars

DaemonNext ==
    \/ DiskPluggedNotified
    \/ DiskPulledNotified
    \/ DiskChanged
    \/ DiskHeatsQuiet
    \/ PoolChangeQuiet
    \/ PoolExportedQuiet
    \/ PoolImportedQuiet
    \/ MonitorStep /\ UNCHANGED udevVars
    \/ \E c \in Clients : (PeerStep(c) \/ HandlerStep(c)) /\ UNCHANGED udevVars
    \/ UdevStep

(***************************************************************************)
(* The event loop runs every ready task: the tick loop, each handler, the  *)
(* udev task after its 0.1 s sleep, and each created broadcast task.       *)
(***************************************************************************)
DaemonSpec ==
    /\ Init /\ UdevInit
    /\ [][DaemonNext]_daemonVars
    /\ WF_daemonVars(MonitorStep /\ UNCHANGED udevVars)
    /\ \A c \in Clients : WF_daemonVars(HandlerStep(c) /\ UNCHANGED udevVars)
    /\ WF_daemonVars(UdevPoll)
    /\ WF_daemonVars(PushHotplug)

(***************************************************************************)
(* PROPERTIES                                                              *)
(***************************************************************************)

(***************************************************************************)
(* Every add or remove notification the kernel queues is eventually        *)
(* broadcast to the subscribers as a hardware_event, however the udev task *)
(* interleaves with the tick loop and the handshakes (spec 4.4: the        *)
(* hot-plug stream bypasses the tick and is pushed through the hub).       *)
(***************************************************************************)
HotplugPushed ==
    \A n \in Notification :
        n.action \in {"add", "remove"} /\ Queued(n) ~> n.seq \in pushed

=============================================================================
