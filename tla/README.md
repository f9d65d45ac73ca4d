# TLA+ verification of the D-PlaneOS real-time monitor and alerting

This directory models `src/app/daemons/realtime-monitor.py` (the WebSocket
event daemon) and `src/app/daemons/alerting_system.py` (the alert dispatcher).
It contains TLC runs on small instances and TLAPS proofs for every instance.

## 1. The system

The daemon is one asyncio process with three kinds of task:

* **system_monitor_loop** (the scheduler tick, lines 488-557). Every 2 s it
  does the following in order:
  1. `update_all_stats` probes the hardware into the global `system_state`.
  2. It broadcasts a `state_update`.
  3. It calls `detect_hardware_changes`, which probes the disks again. It
     diffs the result against `last_disk_state` and replaces that snapshot.
  4. It broadcasts each disk change and calls `alerting.alert` for it.
  5. It does the same for pools with `detect_pool_changes`.
  6. Any exception ends the tick early (`except Exception`). Then the loop
     sleeps.
* **handle_client**, one task per WebSocket connection (lines 434-485):
  1. It waits up to 5 s for the first message and validates it as a PHP
     session.
  2. On success it calls `register_client`, which adds the client to
     `clients` and sends an `initial_state`.
  3. It then answers `ping` and `request_state` messages.
  4. Its `finally` block calls `unregister_client`.
* **UdevMonitor.watch_events** (lines 377-402), started by `main` only when
  the udev monitor can be created. Each iteration it polls the netlink
  socket once, then sleeps 0.1 s. For an `add` or `remove` notification it
  hands a `hardware_event` broadcast to `asyncio.create_task`. It ignores
  other actions, such as `change`.

The probes (`subprocess.run`) and `alert()` are synchronous. The event loop
therefore switches tasks only at an awaited send or receive on a WebSocket,
at the handshake's `wait_for` and at the sleep. Each model action is one
stretch of code between two such yields. `broadcast_event` builds its message
synchronously and sends it to the `clients` of that moment, so it is part of
the step that calls it.

`AlertingSystem.alert` works as follows:

* It checks `should_alert`.
* It calls email, Pushover, ntfy and webhook in that order. Each sender
  returns `False` when its channel is disabled or its transport fails.
* Each sender reads `config[ch]['enabled']` outside its `try`. `load_config`
  takes `/etc/dplaneos/alerting.json` as it is, with no defaults, so a
  missing section or key raises `KeyError` out of `alert()`.
* `send_email` opens `smtplib.SMTP` without a timeout. A mail server that
  accepts the connection and never answers blocks `alert()`, and with it
  the event loop's only thread: every task of the daemon stops.

## 2. Modules

| Module | Models | State / operators |
|---|---|---|
| `ChangeDetector` | The diff parts of `detect_hardware_changes` and `detect_pool_changes` (lines 292-366) | Snapshots reduced to disk temperature (0 stands for None) and pool health/resilver; `DiskChanges`, `PoolChanges`; `EmittedBefore`, the order of the code's for-loops |
| `AlertingSystem` | `should_alert`, the four senders, `alert`, `AlertTemplates` | `ChannelConfig` (enabled / disabled / missing per channel); `AlertResults(ok)`; `AlertRaises`; `TemplatePriority` |
| `Monitor` | The daemon without udev: the probes, the tick, the hub, the handshake | See below |
| `DiskFeed` | The abstract promise of the disk events (no source lines) | `known`, `announced`; `Sample`, `Announce`, `Retract` |
| `Daemon` | `Monitor` composed with `UdevMonitor.watch_events` and the tasks it creates | `udevSeq`, `netlink`, `udevTasks`, `pushed`; `Notify`, `UdevPoll`, `PushHotplug` |
| `MCMonitor`, `MCDaemon` | Small constants for TLC | |
| `MonitorProofs` | TLAPS: types, disk announcements, idempotent diff | |
| `HubProofs` | TLAPS: `SubscribersUpToDate` | |
| `DiskFeedProofs` | TLAPS: `Monitor` implements `DiskFeed` (safety) | |
| `DaemonProofs` | TLAPS: `UdevTypeOK`, and the disk feed refinement for `Daemon` | |

### State of `Monitor`

| Variable | Code |
|---|---|
| `hwDisks`, `hwPools` | The hardware itself (environment) |
| `systemState` | `system_state['disks']` and `['zfs_pools']` |
| `lastDisks`, `lastPools` | `SystemMonitor.last_disk_state` and `last_pool_state` |
| `pc`, `pending` | Where the loop is in its tick (`"hang"`: stuck in a mail send for good), and the changes of the current for-loop not yet broadcast |
| `conn`, `authMsg`, `handler` | Per client: the socket, its first message (`valid` / `invalid` / `malformed`, which is the `validate_session` oracle), and the point reached by `handle_client` |
| `clients` | The global registry `clients` |
| `view` | The last state message each client received |
| `annDisks`, `annPools`, `lastAlert` | History: what the broadcast change events have announced, and the last alert sent |

### Actions

**Monitor loop**

* `UpdateAllStats`: `update_all_stats`, then the `state_update` broadcast.
* `DetectHardwareChanges`: `get_disk_stats`, the diff, and the replacement of
  `last_disk_state`.
* `BroadcastChange(e)`: one for-loop iteration. It broadcasts `e` and then
  alerts. On the `KeyError` path it aborts the tick. With `SmtpHangs` and
  email enabled, the mail send may never return (`pc = "hang"`).
* `EndHardwareChanges`.
* `DetectPoolChanges`.
* `EndPoolChanges`: this step includes the sleep.

**Handlers.** Every handler step requires `LoopFree` (the loop's thread is
not stuck in `alert()`).

* `AuthNoMessage`: the timeout, or the peer is gone.
* `AuthRejected`: the message is not JSON, or the session is invalid.
* `RegisterClient`.
* `ServeMessage`.
* `UnregisterClient`.

**Environment**

* Hardware: `DiskPlugged`, `DiskPulled`, `DiskHeats`, `PoolChange`,
  `PoolExported`, `PoolImported`. `zpool list` prints only imported pools,
  so an exported or destroyed pool leaves the snapshot even when the probe
  works.
* Peers: `Connect`, `SendAuth`, `Disconnect`.

**Daemon (the udev stream)**

* `DiskPluggedNotified`, `DiskPulledNotified`, `DiskChanged`: the kernel
  queues an `add`, `remove` or `change` notification. A plug or pull is one
  step together with its notification.
* `UdevPoll`: one `watch_events` iteration. It reads the oldest notification
  and, for `add`/`remove`, appends a broadcast task.
* `PushHotplug`: a created task runs `broadcast_event` (lines 424-431). The
  model runs them oldest first; that is asyncio's scheduling, not this
  repository's code, so no property rests on it.
* `DiskHeatsQuiet`, `PoolChangeQuiet`, `PoolExportedQuiet`,
  `PoolImportedQuiet`: the hardware changes udev does not report.
* `MaxHotplug` bounds the notifications of a run.

**Probe failures**

* With `DiskProbeFails`, `get_disk_stats` may return `{}` or zero
  temperatures.
* With `PoolProbeFails`, `get_zfs_pool_stats` may drop pools or resilver
  flags.

## 3. Properties and runs

The "pass" runs take under two minutes each.

| Run | Module | Expect | Checks | Instance |
|---|---|---|---|---|
| `disks` | `MCMonitor` | pass | `TypeOK`, `DiskAnnouncementsTruthful`, `SubscribersUpToDate`, `HandshakeEnds` | 2 disks, temps {0,52}, failing disk probes, 1 client, no alerting |
| `feed` | `MCMonitor` | pass | `DiskFeedRefined` | 1 disk, failing disk probes, alerting, 1 ONLINE pool that is exported and imported |
| `hotplug` | `MCDaemon` | pass | `HotplugPushed` | 1 disk, 1 pool that is exported and imported, 2 notifications, email alerting |
| `order` | `MCMonitor` | violation | `EventsMatchState` | A disk is plugged between the state broadcast and the re-probe |
| `leak` | `MCMonitor` | violation | `ClosedConnectionsUnregistered` | The peer closes before `initial_state` is sent |
| `poolgap` | `MCMonitor` | violation | `PoolAnnouncementsTruthful` | `zpool` failures |
| `reimport` | `MCMonitor` | violation | `NoRepeatedHealthChange` | 1 pool, healths {ONLINE, DEGRADED}, export and import, working probes |
| `phantom` | `MCMonitor` | violation | `RemovedDisksAreGone` | `lsblk` fails |
| `recovery` | `MCMonitor` | violation | `DegradedAlertOnlyWhenDegraded` | A pool returns to ONLINE |
| `abort` | `MCMonitor` | violation | `DiskAnnouncementsTruthful` | `alerting.json` lacks pushover's `enabled` key |
| `hang` | `MCMonitor` | violation | `HandshakeEnds` | The mail server never answers |
| `crossing` | `MCMonitor` | violation | `ThresholdCrossingWarned` | Temps {0, 48, 52} |

What the properties mean:

* **DiskAnnouncementsTruthful.** Replaying the broadcast disk events gives
  the disks the detector retains. Subscribers and operators are never told
  of a disk state that differs from what the detector believes, and never
  miss a transition it believed in.
* **PoolAnnouncementsTruthful.** The same for pools. Pools can leave `zpool
  list`, so it is checked only where it fails (`poolgap`).
* **SubscribersUpToDate.** Every registered, open client holds the current
  `system_state`, whatever the order of handshakes and ticks.
* **EventsMatchState** (spec §4.2). An event reaches a client only when the
  client's last state message shows the change.
* **HandshakeEnds** (liveness). Each handshake ends, by registration or by
  closing the connection.
* **ClosedConnectionsUnregistered** (liveness). A closed connection leaves
  the registry.
* **RemovedDisksAreGone.** `disk_removed` is emitted only for a detached
  disk.
* **DegradedAlertOnlyWhenDegraded.** The critical "Pool Degraded" alert is
  sent only for a pool that is not ONLINE.
* **NoRepeatedHealthChange** (action property). A `pool_health_change` is
  never broadcast for the health the subscribers were last told. Spec §4.3
  makes the scheduler responsible for alerting once per new event. The
  `reimport` run refutes it with working probes.
* **ThresholdCrossingWarned** (action property). A disk whose known reading
  goes from at most 50 °C to above 50 °C gets a temperature warning in that
  tick.
* **DiskFeedRefined** (refinement). `Monitor` implements the abstract
  `DiskFeed` under the mapping `known <- DOMAIN lastDisks`,
  `announced <- annDisks`, including its weak fairness: the announcements
  always catch up with the retained disks.
* **HotplugPushed** (liveness, spec §4.4). Every `add` or `remove`
  notification the kernel queues is eventually broadcast.
* **DiskAnnouncementsInductive** is the strengthening the proofs use
  (§5). TLC checked it, with one disk, failing disk probes and alerting,
  before it was proved. It is now a theorem for every instance, so no run keeps it.

Every property of a passing run has a mutant in `PROJECT.json`: a plausible
bug in the mapped code that TLC then catches. Examples:

* not retaining the snapshot;
* omitting the initial state;
* broadcasting the stale state;
* dropping the handshake timeout;
* testing `old_info` instead of `old_info.get('resilver')`;
* leaving the disk for-loop early;
* filtering udev actions to `add` only.

**Bounds.**

* Two disks are enough for a removal and an addition in the same tick
  (`disks` run). The `feed` run has one disk and one ONLINE pool, so that
  pool steps and pool-loop broadcasts, which the abstract feed must see as
  stutters, happen while it stays under a minute.
* The temperatures {0 (None), 52} cover a warning and its re-warning after
  an unreadable tick. Adding 48 gives a crossing with a rise of at most 5.
* One pool with two healths and a resilver flag reaches every pool event,
  and, exported and imported, the re-import of a degraded pool.
* One client is enough for every handshake path and for a registration that
  interleaves with a tick. The registry and broadcast treat clients
  independently, and the proofs cover any number.
* Two kernel notifications give an add followed by a remove (two queued
  broadcast tasks), or an add followed by an ignored change. The hotplug
  run has no client, because the broadcast's recipients do not affect
  whether it runs. It has a single pool health and only unreadable (0)
  temperatures to stay under two minutes; the `disks` run covers the
  temperatures.

**Fairness.**

* `WF` on `MonitorStep`: the loop catches every exception and always
  reschedules.
* `WF` on each client's `HandlerStep`: the 5 s `wait_for` means a handshake
  never waits for the peer forever, and the `finally` block runs when the
  socket closes.
* In `Daemon`, `WF` on `UdevPoll` and on `PushHotplug`. The udev task wakes
  from its 0.1 s sleep, and asyncio runs every created task.
* The hardware and the peers are owed nothing.
* Every step of the loop's thread requires `LoopFree`. A hung `alert()`
  therefore disables them all, and fairness cannot revive them, as in the
  code.

## 4. Findings

All findings come from the violation runs. `PROJECT.json` has the details.

1. **The loop re-probes after the state broadcast.** Events can describe a
   state the clients were never sent (spec §4.2 and §5 ask for one read per
   tick).
2. **`register_client` stands outside the `try`/`finally`.** A peer that
   closes during the `initial_state` send stays in `clients` forever.
3. **Failing pool probes drop pools or resilver info, and the snapshot is
   retained anyway.** A resilver end or a recovery during the outage is
   never reported.
4. **A failed `lsblk` returns `{}`.** Every disk is reported removed and
   alerted, and then re-added.
5. **Pool recoveries are alerted with the critical "Pool Degraded"
   template.**
6. **A channel missing from `alerting.json` makes `alert()` raise.** The
   tick's remaining events are lost, against spec §4.3 and §7(c).
7. **A mail server that never answers hangs the whole daemon.**
   `smtplib.SMTP` has no timeout and runs on the event loop's thread, so
   handshakes never end (spec §5). In `Daemon` the udev steps need the same
   free thread, so the hot-plug stream stops too (spec §4.4).
8. **A disk warming from 48 to 52 °C is never warned.** The hysteresis
   compares with the last reading, not the last warning. The code follows
   spec §8's rule, which does not cover this case.

9. **An exported and re-imported DEGRADED pool is reported again.**
   `detect_pool_changes` replaces `last_pool_state` with the pools `zpool
   list` prints, so the exported pool loses its record. On import it is
   compared with the ONLINE default and broadcast as a change from
   `UNKNOWN`, with a second critical alert (`reimport` run). A DEGRADED pool
   missing from one failed probe (finding 3) does the same.

## 5. Proofs (checked by `tlapm`)

* **`TypeCorrect: Spec => []TypeOK`** (`MonitorProofs`). It uses
  `InitTypeOK` and `NextTypeOK`, which has one case per action. These rest
  on lemmas about the snapshot sets, the diff operators, the probes and the
  history updates.
* **`DiskAnnouncements`** (`MonitorProofs`). Under `~AlertRaises` and
  `~SmtpHangs`, it proves `Spec => []DiskAnnouncementsTruthful`.
  * The invariant is not inductive by itself: within the disk for-loop,
    `annDisks` and `last_disk_state` differ by the pending changes.
  * The strengthening `DiskAnnouncementsInductive` says:
    * No change is pending outside the for-loops.
    * Only pool changes are pending in the pool loop.
    * In the disk loop, a disk is retained iff its `disk_added` is pending,
      or it is announced and its `disk_removed` is not pending.
    * An addition is pending only for an unannounced disk, and a removal
      only for an announced one.
  * The `abort` run shows the property fails when `alert()` raises.
* The pool counterparts of `DiskAnnouncements` are not theorems: once
  pools can leave `zpool list`, `PoolAnnouncementsTruthful` and
  `NoRepeatedHealthChange` are false even with working probes (`reimport`).
* **`SubscribersCurrent: Spec => []SubscribersUpToDate`** (`HubProofs`).
  * The strengthening adds that a connection never opened is idle and not
    registered (`NeverOpenedIdle`).
  * It needs no hypothesis: a hung `alert()` leaves every view unchanged.
* **`DiskFeedImplemented`** (`DiskFeedProofs`). Under `~AlertRaises` and
  `~SmtpHangs`, it proves `Spec => DF!Init /\ [][DF!Next]_DF!feedVars`.
  * Init maps to the abstract Init.
  * Under `DiskIInv`:
    * `DetectHardwareChanges` maps to `Sample`, because `annDisks` equals the
      retained disks at the `hw` point.
    * A broadcast `disk_added`/`disk_removed` maps to `Announce`/`Retract`.
    * Every other step is a stutter.
* **`UdevTypeCorrect: DaemonSpec => []UdevTypeOK`** (`DaemonProofs`).
  The netlink queue and the created tasks hold notifications numbered
  within `MaxHotplug` about disks of `Disks`, for any constants. It needs
  no hypothesis.
  * The inductive invariant is `UdevIInv == TypeOK /\ UdevTypeOK`.
  * `TypeOK` is needed because a plug notification names a disk of the new
    hardware snapshot.
  * There is one step lemma each for `Notify`, `UdevPoll` and `PushHotplug`,
    resting on `HeadTailProperties` and `AppendProperties` of
    `SequenceTheorems`.
  * `DaemonNextMonitor` shows that every `Daemon` step is a `Monitor` step
    or stutter: the udev steps leave `vars` alone, and a notified plug or
    pull is a `Monitor` hardware step.
* **`DaemonFeedImplemented`** (`DaemonProofs`). It restates
  `DiskFeedImplemented` for `DaemonSpec`, using `DaemonNextMonitor`
  together with the `Monitor` step lemmas.
* **`DetectIdempotent`** (`MonitorProofs`). Diffing any disk or pool
  snapshot against itself reports nothing (spec §8).

**Left to TLC.**

* Liveness: `HandshakeEnds`, `ClosedConnectionsUnregistered`,
  `HotplugPushed`, and the fairness part of `DiskFeedRefined`. TLAPS's
  backends do not handle liveness under fairness, or `ENABLED`.
* `ThresholdCrossingWarned`. It is violated by the code (`crossing` run),
  so there is nothing to prove.
* The properties that fail in the violation runs, and the `Monitor`
  invariants under the fault hypotheses (`AlertRaises`, `SmtpHangs`,
  probe failures). Those runs show the failures.
* `EventsMatchState`, `RemovedDisksAreGone` and
  `DegradedAlertOnlyWhenDegraded` are checked only in the violation runs
  that refute them.

## 6. Not modelled

* **CPU, memory, Docker and network probes.** They write fields no property
  reads.
* **Session files.** `validate_session` is an oracle, so session expiry
  after the handshake is not modelled.
* **Text parsing and message formatting.** This includes the hot-plug
  event's device path, type and timestamp.
* **A slow subscriber stalling `gather`.** Sends are atomic.
* **The 1 s blocking `monitor.poll`.** It is a delay, and the model is
  untimed.
* **Garbage collection of unreferenced `create_task` tasks.** The model
  runs every created task.
* **The `__main__` command line of `alerting_system.py`.**

These are listed as hazards or components in `PROJECT.json`.

## 7. Plan for later work

1. An `AlertDispatch` module with one step per channel. It would check the
   spec's independent fanout (§4.3) and a per-channel timeout as the fix of
   finding 7.
2. Per-client send steps in `broadcast_event`, for the slow-subscriber
   hazard.
3. An abstract "subscriber sees the state of each tick" specification, with
   `Monitor` shown to refine it under the single-read fix of finding 1.
4. Proofs of the hub results (`SubscribersCurrent`) for `Daemon`, and of
   type correctness under the fault hypotheses.
