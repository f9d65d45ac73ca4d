------------------------------- MODULE Monitor -------------------------------
(***************************************************************************)
(* The event daemon of realtime-monitor.py: the tick loop                  *)
(* system_monitor_loop (sample, broadcast the state, diff disks, broadcast *)
(* and alert each change, diff pools, broadcast and alert each change),    *)
(* the websocket handler handle_client with its authentication handshake   *)
(* and the client registry `clients`, and the hardware the probes read.    *)
(*                                                                         *)
(* The daemon runs on one asyncio event loop.  The probes and alert() are  *)
(* synchronous calls inside coroutines, so they never yield; the loop      *)
(* yields only at `await` of a websocket send or receive and at the sleep. *)
(* Each action below is one stretch of code between two such yields.      *)
(* A broadcast writes the message into every registered connection before  *)
(* it yields (websocket.send writes the frame before awaiting the drain),  *)
(* so it is one step.  The hardware changes at any time.                   *)
(*                                                                         *)
(* Only the disk and pool parts of system_state are modelled; CPU, memory, *)
(* docker and network counters are read and broadcast, but no decision    *)
(* depends on them.                                                        *)
(***************************************************************************)
EXTENDS ChangeDetector, AlertingSystem

CONSTANTS
    Clients,            \* websocket connections that may be opened
    AlertingAvailable,  \* the import of alerting_system succeeded
    DiskProbeFails,     \* lsblk / smartctl may fail or time out
    PoolProbeFails,     \* zpool list / zpool status may fail or time out
    SmtpHangs           \* the mail server may accept and never answer

ASSUME MonitorAssumption ==
    /\ AlertingAvailable \in BOOLEAN
    /\ DiskProbeFails \in BOOLEAN
    /\ PoolProbeFails \in BOOLEAN
    /\ SmtpHangs \in BOOLEAN

VARIABLES
    hwDisks,      \* the disks attached now, with their temperature
    hwPools,      \* the imported pools now, with health and resilver
    systemState,  \* system_state: the disks and pools of the last sample
    lastDisks,    \* SystemMonitor.last_disk_state
    lastPools,    \* SystemMonitor.last_pool_state
    pc,           \* where system_monitor_loop is
    pending,      \* the changes of the running for-loop not yet handled
    conn,         \* the transport state of each connection
    authMsg,      \* the first message a client sent, as validate_session judges it
    handler,      \* where handle_client is, for each connection
    clients,      \* the registry of connected clients
    view,         \* the state each client received last
    annDisks,     \* history: disks present according to the broadcast events
    annPools,     \* history: pool records according to the broadcast events
    lastAlert     \* history: the last alert() that sent something

hwVars == <<hwDisks, hwPools>>
monVars == <<systemState, lastDisks, lastPools, pc, pending>>
hubVars == <<conn, authMsg, handler, clients, view>>
histVars == <<annDisks, annPools, lastAlert>>
vars == <<hwVars, monVars, hubVars, histVars>>

SystemState == [disks : DiskSnapshots, pools : PoolSnapshots]

\* The record alert() is recorded with before the first alert.
NoAlert == [event |-> [type |-> "none"], type |-> "none", priority |-> "none",
            results |-> [ch \in Channels |-> FALSE]]

AlertRecord == [event : Event, type : AlertTypes, priority : Priorities,
                results : [Channels -> BOOLEAN]]

\* The pool record the detector assumes for a pool it has not seen.
DefaultPool == [health |-> "ONLINE", resilver |-> FALSE]

TypeOK ==
    /\ hwDisks \in DiskSnapshots
    /\ hwPools \in PoolSnapshots
    /\ systemState \in SystemState
    /\ lastDisks \in DiskSnapshots
    /\ lastPools \in PoolSnapshots
    /\ pc \in {"update", "hw", "hw_events", "pool", "pool_events", "hang"}
    /\ pending \in SUBSET Event
    /\ conn \in [Clients -> {"none", "open", "closed"}]
    /\ authMsg \in [Clients -> {"none", "valid", "invalid", "malformed"}]
    /\ handler \in [Clients -> {"idle", "handshake", "serving", "done"}]
    /\ clients \in SUBSET Clients
    /\ view \in [Clients -> SystemState]
    /\ annDisks \in SUBSET Disks
    /\ annPools \in [Pools -> PoolRecord]
    /\ lastAlert \in AlertRecord \cup {NoAlert}

\* The global initial system_state and a fresh SystemMonitor; a client's view
\* before it received anything is that same empty state.
Init ==
    /\ hwDisks \in DiskSnapshots
    /\ hwPools \in PoolSnapshots
    /\ systemState = [disks |-> EmptySnapshot, pools |-> EmptySnapshot]
    /\ lastDisks = EmptySnapshot
    /\ lastPools = EmptySnapshot
    /\ pc = "update"
    /\ pending = {}
    /\ conn = [c \in Clients |-> "none"]
    /\ authMsg = [c \in Clients |-> "none"]
    /\ handler = [c \in Clients |-> "idle"]
    /\ clients = {}
    /\ view = [c \in Clients |-> [disks |-> EmptySnapshot, pools |-> EmptySnapshot]]
    /\ annDisks = {}
    /\ annPools = [p \in Pools |-> DefaultPool]
    /\ lastAlert = NoAlert

(***************************************************************************)
(* The probes.  get_disk_stats returns {} when lsblk fails, times out or   *)
(* prints bad JSON, and None (here 0) for a temperature smartctl does not  *)
(* give.  get_zfs_pool_stats returns {} when zpool list fails, the pools   *)
(* read so far when a zpool status times out, and no resilver when zpool  *)
(* status fails or its output does not match the progress regex.          *)
(***************************************************************************)
GetDiskStats ==
    IF DiskProbeFails
    THEN {EmptySnapshot} \cup
         {[d \in DOMAIN hwDisks |-> IF d \in F THEN 0 ELSE hwDisks[d]] :
             F \in SUBSET DOMAIN hwDisks}
    ELSE {hwDisks}

GetZfsPoolStats ==
    IF PoolProbeFails
    THEN {[p \in S |-> [health |-> hwPools[p].health,
                        resilver |-> hwPools[p].resilver /\ p \notin R]] :
             S \in SUBSET DOMAIN hwPools, R \in SUBSET DOMAIN hwPools}
    ELSE {hwPools}

\* The event loop's thread is not stuck inside alert(): every coroutine of
\* the daemon, the handlers included, runs on it.
LoopFree == pc # "hang"

\* A connection `broadcast_event` reaches: registered and still open.
Live(c) == c \in clients /\ conn[c] = "open"

(***************************************************************************)
(* The hardware (environment): disks are plugged in or pulled, their       *)
(* temperature changes, pools change health, resilvers start and end, and  *)
(* pools are exported (or destroyed) and imported: zpool list prints only  *)
(* the imported pools.                                                     *)
(***************************************************************************)
DiskPlugged ==
    /\ \E d \in Disks \ DOMAIN hwDisks, t \in Temps :
          hwDisks' = [x \in DOMAIN hwDisks \cup {d} |->
                         IF x = d THEN t ELSE hwDisks[x]]
    /\ UNCHANGED <<hwPools, monVars, hubVars, histVars>>

DiskPulled ==
    /\ \E d \in DOMAIN hwDisks :
          hwDisks' = [x \in DOMAIN hwDisks \ {d} |-> hwDisks[x]]
    /\ UNCHANGED <<hwPools, monVars, hubVars, histVars>>

DiskHeats ==
    /\ \E d \in DOMAIN hwDisks, t \in Temps : hwDisks' = [hwDisks EXCEPT ![d] = t]
    /\ UNCHANGED <<hwPools, monVars, hubVars, histVars>>

PoolChange ==
    /\ \E p \in DOMAIN hwPools, r \in PoolRecord : hwPools' = [hwPools EXCEPT ![p] = r]
    /\ UNCHANGED <<hwDisks, monVars, hubVars, histVars>>

PoolExported ==
    /\ \E p \in DOMAIN hwPools :
          hwPools' = [x \in DOMAIN hwPools \ {p} |-> hwPools[x]]
    /\ UNCHANGED <<hwDisks, monVars, hubVars, histVars>>

PoolImported ==
    /\ \E p \in Pools \ DOMAIN hwPools, r \in PoolRecord :
          hwPools' = [x \in DOMAIN hwPools \cup {p} |->
                         IF x = p THEN r ELSE hwPools[x]]
    /\ UNCHANGED <<hwDisks, monVars, hubVars, histVars>>

(***************************************************************************)
(* system_monitor_loop.                                                    *)
(***************************************************************************)
\* broadcast_event of a state message s: every connection in `clients` that is
\* still open receives it; the send to a closed one fails and is ignored.
BroadcastState(s) ==
    view' = [c \in Clients |-> IF Live(c) THEN s ELSE view[c]]

\* Mutant: the state message carries the previous sample.
UpdateAllStatsStale ==
    /\ pc = "update"
    /\ \E d \in GetDiskStats, p \in GetZfsPoolStats :
          systemState' = [disks |-> d, pools |-> p]
    /\ BroadcastState(systemState)
    /\ pc' = "hw"
    /\ UNCHANGED <<hwVars, lastDisks, lastPools, pending>>
    /\ UNCHANGED <<conn, authMsg, handler, clients, histVars>>

\* update_all_stats, then broadcast_event of the 'state_update'.
UpdateAllStats ==
    /\ pc = "update"
    /\ \E d \in GetDiskStats, p \in GetZfsPoolStats :
          systemState' = [disks |-> d, pools |-> p]
    /\ BroadcastState(systemState')
    /\ pc' = "hw"
    /\ UNCHANGED <<hwVars, lastDisks, lastPools, pending>>
    /\ UNCHANGED <<conn, authMsg, handler, clients, histVars>>

\* Mutant: last_disk_state is not replaced.
DetectHardwareChangesNoRetain ==
    /\ pc = "hw"
    /\ \E cur \in GetDiskStats : pending' = DiskChanges(lastDisks, cur)
    /\ pc' = "hw_events"
    /\ UNCHANGED <<hwVars, systemState, lastDisks, lastPools, hubVars, histVars>>

\* detect_hardware_changes: a second get_disk_stats, diffed and retained.
DetectHardwareChanges ==
    /\ pc = "hw"
    /\ \E cur \in GetDiskStats :
          /\ pending' = DiskChanges(lastDisks, cur)
          /\ lastDisks' = cur
    /\ pc' = "hw_events"
    /\ UNCHANGED <<hwVars, systemState, lastPools, hubVars, histVars>>

\* detect_pool_changes: a second get_zfs_pool_stats, diffed and retained.
DetectPoolChanges ==
    /\ pc = "pool"
    /\ \E cur \in GetZfsPoolStats :
          /\ pending' = PoolChanges(lastPools, cur)
          /\ lastPools' = cur
    /\ pc' = "pool_events"
    /\ UNCHANGED <<hwVars, systemState, lastDisks, hubVars, histVars>>

\* The alert type under which the loop alerts each kind of change.
AlertTypeOf(e) ==
    CASE e.type = "disk_added"               -> "disk_added"
      [] e.type = "disk_removed"             -> "disk_removed"
      [] e.type = "disk_temperature_warning" -> "disk_temp_warning"
      [] e.type = "pool_health_change"       -> "pool_degraded"
      [] e.type = "resilver_started"         -> "resilver_started"
      [] e.type = "resilver_completed"       -> "resilver_completed"

\* The disks and pools the broadcast events announce, after event e.
AnnounceDisk(A, e) ==
    CASE e.type = "disk_added"   -> A \cup {e.disk}
      [] e.type = "disk_removed" -> A \ {e.disk}
      [] OTHER                   -> A

AnnouncePool(A, e) ==
    CASE e.type = "resilver_started"   -> [A EXCEPT ![e.pool].resilver = TRUE]
      [] e.type = "resilver_completed" -> [A EXCEPT ![e.pool].resilver = FALSE]
      [] e.type = "pool_health_change" -> [A EXCEPT ![e.pool].health = e.new_health]
      [] OTHER                         -> A

(***************************************************************************)
(* One iteration of either for-loop over the changes: broadcast_event of   *)
(* the change, then, when alerting is available, alert() with the         *)
(* template of its type.  alert() sends nothing when the type is not to be *)
(* alerted; when a sender raises, the exception leaves the loop body, the  *)
(* rest of the tick is skipped and the loop sleeps.  send_email opens      *)
(* smtplib.SMTP without a timeout: a mail server that accepts the          *)
(* connection and never answers blocks alert(), and with it the thread of  *)
(* the event loop, for good.                                               *)
(***************************************************************************)
BroadcastChange(e) ==
    /\ pc \in {"hw_events", "pool_events"}
    /\ e \in pending
    /\ ~\E e2 \in pending : EmittedBefore(e2, e)
    /\ annDisks' = AnnounceDisk(annDisks, e)
    /\ annPools' = AnnouncePool(annPools, e)
    /\ IF AlertingAvailable /\ ShouldAlert(AlertTypeOf(e))
       THEN \/ /\ SmtpHangs
               /\ ChannelConfig["email"] = "enabled"
               /\ pc' = "hang"
               /\ UNCHANGED <<pending, lastAlert>>
            \/ /\ \E ok \in [Channels -> BOOLEAN] :
                     lastAlert' = [event |-> e, type |-> AlertTypeOf(e),
                                   priority |-> TemplatePriority(AlertTypeOf(e)),
                                   results |-> AlertResults(ok)]
               /\ IF AlertRaises
                  THEN pc' = "update" /\ pending' = {}
                  ELSE pc' = pc /\ pending' = pending \ {e}
       ELSE /\ pending' = pending \ {e}
            /\ UNCHANGED <<pc, lastAlert>>
    /\ UNCHANGED <<hwVars, systemState, lastDisks, lastPools, hubVars>>

\* Mutant: the loop leaves the for-loop after the first change (a `break`).
EndHardwareChangesEarly ==
    /\ pc = "hw_events"
    /\ pc' = "pool"
    /\ pending' = {}
    /\ UNCHANGED <<hwVars, systemState, lastDisks, lastPools>>
    /\ UNCHANGED <<hubVars, histVars>>

\* The for-loop over the disk changes ends; the pool diff comes next.
EndHardwareChanges ==
    /\ pc = "hw_events"
    /\ pending = {}
    /\ pc' = "pool"
    /\ UNCHANGED <<hwVars, systemState, lastDisks, lastPools, pending>>
    /\ UNCHANGED <<hubVars, histVars>>

\* The for-loop over the pool changes ends; asyncio.sleep(2), next tick.
EndPoolChanges ==
    /\ pc = "pool_events"
    /\ pending = {}
    /\ pc' = "update"
    /\ UNCHANGED <<hwVars, systemState, lastDisks, lastPools, pending>>
    /\ UNCHANGED <<hubVars, histVars>>

MonitorStep ==
    \/ UpdateAllStats
    \/ DetectHardwareChanges
    \/ \E e \in pending : BroadcastChange(e)
    \/ EndHardwareChanges
    \/ DetectPoolChanges
    \/ EndPoolChanges

(***************************************************************************)
(* The peers: a client opens a connection, sends its first message (which *)
(* validate_session will find valid or not, or which is not JSON), and may *)
(* close the connection or lose it at any time.                            *)
(***************************************************************************)
Connect(c) ==
    /\ conn[c] = "none"
    /\ conn' = [conn EXCEPT ![c] = "open"]
    /\ handler' = [handler EXCEPT ![c] = "handshake"]
    /\ UNCHANGED <<hwVars, monVars, authMsg, clients, view, histVars>>

SendAuth(c) ==
    /\ conn[c] = "open"
    /\ authMsg[c] = "none"
    /\ \E m \in {"valid", "invalid", "malformed"} :
          authMsg' = [authMsg EXCEPT ![c] = m]
    /\ UNCHANGED <<hwVars, monVars, conn, handler, clients, view, histVars>>

Disconnect(c) ==
    /\ conn[c] = "open"
    /\ conn' = [conn EXCEPT ![c] = "closed"]
    /\ UNCHANGED <<hwVars, monVars, authMsg, handler, clients, view, histVars>>

(***************************************************************************)
(* handle_client.                                                          *)
(***************************************************************************)
\* Mutant: recv() without wait_for; only a closed peer ends the wait.
AuthNoMessageNoTimeout(c) ==
    /\ LoopFree
    /\ handler[c] = "handshake"
    /\ authMsg[c] = "none"
    /\ conn[c] = "closed"
    /\ handler' = [handler EXCEPT ![c] = "done"]
    /\ UNCHANGED <<hwVars, monVars, conn, authMsg, clients, view, histVars>>

\* No first message: wait_for times out after 5 s, or recv raises because the
\* peer is gone; either way the connection is closed and the handler returns.
AuthNoMessage(c) ==
    /\ LoopFree
    /\ handler[c] = "handshake"
    /\ authMsg[c] = "none"
    /\ conn' = [conn EXCEPT ![c] = "closed"]
    /\ handler' = [handler EXCEPT ![c] = "done"]
    /\ UNCHANGED <<hwVars, monVars, authMsg, clients, view, histVars>>

\* Mutant: a JSONDecodeError is not handled.
AuthRejectedNoDecodeError(c) ==
    /\ LoopFree
    /\ handler[c] = "handshake"
    /\ authMsg[c] = "invalid"
    /\ conn' = [conn EXCEPT ![c] = "closed"]
    /\ handler' = [handler EXCEPT ![c] = "done"]
    /\ UNCHANGED <<hwVars, monVars, authMsg, clients, view, histVars>>

\* Not JSON, or no valid session: close (after an error message) and return.
AuthRejected(c) ==
    /\ LoopFree
    /\ handler[c] = "handshake"
    /\ authMsg[c] \in {"invalid", "malformed"}
    /\ conn' = [conn EXCEPT ![c] = "closed"]
    /\ handler' = [handler EXCEPT ![c] = "done"]
    /\ UNCHANGED <<hwVars, monVars, authMsg, clients, view, histVars>>

\* Mutant: the connection is registered without the 'initial_state'.
RegisterClientNoInitialState(c) ==
    /\ LoopFree
    /\ handler[c] = "handshake"
    /\ authMsg[c] = "valid"
    /\ clients' = clients \cup {c}
    /\ handler' = [handler EXCEPT ![c] = IF conn[c] = "open" THEN "serving" ELSE "done"]
    /\ UNCHANGED <<hwVars, monVars, conn, authMsg, view, histVars>>

(***************************************************************************)
(* register_client: add to `clients`, then send the 'initial_state'.  The  *)
(* call stands before the try whose finally unregisters, so when the send  *)
(* raises because the peer is already gone the handler returns with the    *)
(* connection left in `clients`.                                           *)
(***************************************************************************)
RegisterClient(c) ==
    /\ LoopFree
    /\ handler[c] = "handshake"
    /\ authMsg[c] = "valid"
    /\ clients' = clients \cup {c}
    /\ IF conn[c] = "open"
       THEN /\ view' = [view EXCEPT ![c] = systemState]
            /\ handler' = [handler EXCEPT ![c] = "serving"]
       ELSE /\ handler' = [handler EXCEPT ![c] = "done"]
            /\ UNCHANGED view
    /\ UNCHANGED <<hwVars, monVars, conn, authMsg, histVars>>

\* The message loop: a 'request_state' is answered with system_state; a
\* 'ping' with a 'pong', and anything else is ignored, which changes nothing.
ServeMessage(c) ==
    /\ LoopFree
    /\ handler[c] = "serving"
    /\ conn[c] = "open"
    /\ view' = [view EXCEPT ![c] = systemState]
    /\ UNCHANGED <<hwVars, monVars, conn, authMsg, handler, clients, histVars>>

\* The connection is closed: `async for` ends, finally: unregister_client.
UnregisterClient(c) ==
    /\ LoopFree
    /\ handler[c] = "serving"
    /\ conn[c] = "closed"
    /\ clients' = clients \ {c}
    /\ handler' = [handler EXCEPT ![c] = "done"]
    /\ UNCHANGED <<hwVars, monVars, conn, authMsg, view, histVars>>

Hardware ==
    DiskPlugged \/ DiskPulled \/ DiskHeats \/ PoolChange \/ PoolExported \/ PoolImported

PeerStep(c) == Connect(c) \/ SendAuth(c) \/ Disconnect(c) \/ ServeMessage(c)

HandlerStep(c) ==
    \/ AuthNoMessage(c)
    \/ AuthRejected(c)
    \/ RegisterClient(c)
    \/ UnregisterClient(c)

Next ==
    \/ Hardware
    \/ MonitorStep
    \/ \E c \in Clients : PeerStep(c) \/ HandlerStep(c)

(***************************************************************************)
(* The monitor loop never stops (every exception of a tick is caught) and  *)
(* each handler is a task of the same event loop, which runs every ready   *)
(* task; the 5 s timeout makes the handshake a step that is always taken.  *)
(* The hardware and the peers owe nothing.                                 *)
(***************************************************************************)
Spec ==
    /\ Init
    /\ [][Next]_vars
    /\ WF_vars(MonitorStep)
    /\ \A c \in Clients : WF_vars(HandlerStep(c))

(***************************************************************************)
(* PROPERTIES                                                              *)
(***************************************************************************)

(***************************************************************************)
(* Whenever the disk for-loop is not running, the disks that the broadcast *)
(* disk_added and disk_removed events announce, replayed from the start,   *)
(* are exactly the disks in last_disk_state: detect_hardware_changes never *)
(* loses or repeats an appearance or a disappearance, whatever the probes  *)
(* return, because it diffs against and then replaces the retained dict.   *)
(***************************************************************************)
DiskAnnouncementsTruthful ==
    pc # "hw_events" => annDisks = DOMAIN lastDisks

(***************************************************************************)
(* Whenever the pool for-loop is not running, for every pool in            *)
(* last_pool_state the resilver_started / resilver_completed and           *)
(* pool_health_change events broadcast so far, replayed from the default   *)
(* (ONLINE, no resilver), give its retained record: subscribers and alerts *)
(* are told of every resilver that ends and of every recovery.             *)
(***************************************************************************)
PoolAnnouncementsTruthful ==
    pc # "pool_events" =>
        \A p \in DOMAIN lastPools : annPools[p] = lastPools[p]

(***************************************************************************)
(* Every client that is registered and connected holds the current        *)
(* system_state: register_client sends it at once, every tick broadcasts   *)
(* it, and a request_state is answered with it, however the handshakes     *)
(* interleave with the monitor loop.                                       *)
(***************************************************************************)
SubscribersUpToDate ==
    \A c \in Clients : Live(c) => view[c] = systemState

\* What a state message says of the entity a change event is about.
Shows(s, e) ==
    CASE e.type = "disk_added"   -> e.disk \in DOMAIN s.disks
      [] e.type = "disk_removed" -> e.disk \notin DOMAIN s.disks
      [] e.type = "disk_temperature_warning" ->
             e.disk \in DOMAIN s.disks /\ s.disks[e.disk] = e.temperature
      [] e.type = "resilver_started" ->
             e.pool \in DOMAIN s.pools /\ s.pools[e.pool].resilver
      [] e.type = "resilver_completed" ->
             e.pool \in DOMAIN s.pools /\ ~s.pools[e.pool].resilver
      [] e.type = "pool_health_change" ->
             e.pool \in DOMAIN s.pools /\ s.pools[e.pool].health = e.new_health

(***************************************************************************)
(* The spec's ordering guarantee: a change event reaches a subscriber only *)
(* after a state message that already shows the change (no event about a  *)
(* state the subscriber has not received).  system_monitor_loop            *)
(* broadcasts the state of update_all_stats and then diffs a second read   *)
(* of the disks and the pools.                                             *)
(***************************************************************************)
EventsMatchState ==
    [][\A e \in pending :
          BroadcastChange(e) => \A c \in Clients : Live(c) => Shows(view[c], e)]_vars

(***************************************************************************)
(* A disk_removed event is emitted only for a disk that is not attached:   *)
(* the spec wants a failing probe to degrade single fields, never the     *)
(* whole snapshot; get_disk_stats returns {} when lsblk fails.             *)
(***************************************************************************)
RemovedDisksAreGone ==
    [][DetectHardwareChanges =>
          \A e \in pending' : e.type = "disk_removed" => e.disk \notin DOMAIN hwDisks]_vars

(***************************************************************************)
(* The critical "ZFS Pool Degraded" alert is sent only for a pool that is  *)
(* not ONLINE; the loop renders every pool_health_change, a recovery       *)
(* included, with AlertTemplates.pool_degraded.                            *)
(***************************************************************************)
DegradedAlertOnlyWhenDegraded ==
    lastAlert.type = "pool_degraded" => lastAlert.event.new_health # "ONLINE"

(***************************************************************************)
(* Every handshake ends: the connection is either registered or closed.    *)
(***************************************************************************)
HandshakeEnds ==
    \A c \in Clients : handler[c] = "handshake" ~> handler[c] \in {"serving", "done"}

(***************************************************************************)
(* A closed connection is eventually removed from `clients` (the spec:     *)
(* "on disconnect ... the subscriber is removed from the registry").       *)
(***************************************************************************)
ClosedConnectionsUnregistered ==
    \A c \in Clients : conn[c] = "closed" ~> c \notin clients


(***************************************************************************)
(* The strengthening of DiskAnnouncementsTruthful that every step keeps:   *)
(* outside the for-loops no change is pending; during the pool for-loop    *)
(* only pool changes are; during the disk for-loop, a disk is retained in  *)
(* last_disk_state exactly when its disk_added is still pending or it is   *)
(* announced and its disk_removed is not pending, an addition is pending   *)
(* only for an unannounced disk and a removal only for an announced one.   *)
(* It holds while alert() does not raise, which would drop the pending     *)
(* changes of the tick.                                                    *)
(***************************************************************************)
AddedEvent(d) == [type |-> "disk_added", disk |-> d]

RemovedEvent(d) == [type |-> "disk_removed", disk |-> d]

DiskAnnouncementsInductive ==
    /\ pc \in {"update", "hw", "pool"} => pending = {}
    /\ pc = "pool_events" => pending \subseteq ResilverEvent \cup HealthEvent
    /\ pc # "hw_events" => annDisks = DOMAIN lastDisks
    /\ pc = "hw_events" =>
         \A d \in Disks :
            /\ AddedEvent(d) \in pending => d \notin annDisks
            /\ RemovedEvent(d) \in pending => d \in annDisks
            /\ d \in DOMAIN lastDisks <=>
                  \/ AddedEvent(d) \in pending
                  \/ d \in annDisks /\ RemovedEvent(d) \notin pending


(***************************************************************************)
(* A disk whose previous reading was known and at most the warning         *)
(* threshold, and whose fresh reading is above it, gets a                  *)
(* disk_temperature_warning in that tick: the hysteresis of                *)
(* detect_hardware_changes is there to silence a disk that stays hot, not  *)
(* one that just became hot.                                               *)
(***************************************************************************)
ThresholdCrossingWarned ==
    [][DetectHardwareChanges =>
          \A d \in DOMAIN lastDisks' \cap DOMAIN lastDisks :
             (/\ 0 < lastDisks[d] /\ lastDisks[d] <= WarnTemp
              /\ lastDisks'[d] > WarnTemp)
             => [type |-> "disk_temperature_warning", disk |-> d,
                 temperature |-> lastDisks'[d]] \in pending']_vars

(***************************************************************************)
(* A pool_health_change (and with it the critical "Pool Degraded" alert)   *)
(* is broadcast only for a health that differs from the one the earlier    *)
(* events announced for that pool: no repeated alert for a pool whose      *)
(* health did not change.                                                  *)
(***************************************************************************)
NoRepeatedHealthChange ==
    [][\A e \in pending :
          BroadcastChange(e) /\ e.type = "pool_health_change"
             => annPools[e.pool].health # e.new_health]_vars

\* The disks the daemon believes attached, and those the events announced,
\* as the abstract disk feed.
DF == INSTANCE DiskFeed WITH known <- DOMAIN lastDisks, announced <- annDisks

(***************************************************************************)
(* The daemon implements the abstract disk feed: detect_hardware_changes  *)
(* replaces its snapshot only after the for-loop broadcast every change of *)
(* the previous one, each disk_added / disk_removed moves the announced    *)
(* set one disk toward the retained snapshot, and the monitor loop's       *)
(* progress makes the announcements catch up.                              *)
(***************************************************************************)
DiskFeedRefined == DF!Spec

=============================================================================
