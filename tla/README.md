# A TLA+ model of proxmox_sensors

`proxmox_sensors` is a Home Assistant integration: it polls Proxmox VE nodes, Proxmox Backup
Servers and PVE clusters over HTTPS, turns what they answer into sensors and buttons, and offers
services that start backups and control nodes. This directory holds TLA+ modules of its stateful
parts, TLC instances that check them, and TLAPS proofs of all the safety properties the passing
runs check. Paths below are relative to `src/custom_components/proxmox_sensors/` unless they say
otherwise.

Check one run with `tlc -config MCSidecarData.cfg MCSidecarData`, the proofs of a
module with `tlapm AuthTicketProofs.tla`. `PROJECT.json` lists the runs, the code lines
every definition stands for, and for every checked property a *mutant*: a plausible bug
of the code, written as a definition next to the one it breaks and marked `Mutant:`
in the module, under which the property fails.

## 1. The system

| Component | State it keeps | Operations | Talks to |
| --- | --- | --- | --- |
| API client `api.py` | ticket, CSRF token, expiry, cooldown and remembered error, an `asyncio.Lock` | `_ensure_ticket`, `_api_request`, ~60 thin wrappers | the PVE/PBS server; shared by the coordinator, buttons, services of one entry |
| Sidecar part of the client `api.py:522-573` | the set of endpoints already warned about | `get_*_http` | the sidecar on the node |
| PVE coordinator `coordinator.py:362-824` | last snapshot (`data`), `last_update_success`, the semaphore, options read at creation | one refresh a minute, plus refreshes asked for by buttons | API client; entities read `data` |
| PBS branch `coordinator.py:403-478` | same coordinator | sequential walk over datastores | API client |
| Cluster coordinator `coordinator.py:827-903` | last snapshot | six cluster calls under one 20 s timeout | API client |
| Payload algorithms (`coordinator.py:131-360`, `logic/`) | none | normalising, backup-job matching, replication, notifications, node metrics | called by coordinators and sensors |
| Backup history `coordinator.py:131-307`, `sensor/cluster.py` | what Home Assistant restores of three sensors | the summary of a refresh, four sensors that rate it when read | cluster coordinator, Home Assistant's state store |
| PBS maintenance `sensor/pbs.py`, `sensor/sensor_last_action.py` | none | verification, pruning, garbage collection, last action of a datastore | PBS coordinator data |
| Disks and hardware `sensor/disks.py`, `sensor/hardware.py` | the entities a load created | search and rating of a SMART record, parsing of lm-sensors readings | coordinator data, fed by the sidecar |
| Entities `sensor/`, `button.py`, `binary_sensor.py` | the entity and device registry of Home Assistant | creation on load, registry cleanup, button presses | coordinator data, entry data |
| Options dialog `options_flow.py` | the form on the screen | open, submit | API client; writes `entry.data`, `entry.options` |
| Config flow `config_flow.py` | the answers so far | user steps, discovery of CLUSTER entries | API client; creates entries |
| Entry lifecycle `__init__.py` | `hass.data[DOMAIN]`, the registered services, background tasks | setup, unload, migration, management of the CLUSTER entry | everything |
| Services `services.py` | none between calls; per call a list, a semaphore, counters | two backup services, node shutdown, reboot and wake | `hass.data`, coordinator data, API client |
| Sidecar server `src/scripts/pve-sensors-api.py` | the backlog of its socket | `/sensors`, `/smart`, `/smart-extended`, `/memory`, `/mounts`, `/health` | `smartctl`, `sensors`, `dmidecode` on the node |

What makes it hard, and what correct means:

* **API client.** Fourteen or more calls of one refresh, button presses and services
  share one cached ticket across awaits. Correct: the lock is never leaked, however a
  login ends (error, timeout, cancellation); a request never mixes two logins; a live
  ticket is never thrown away for a new one; an unreachable node is not asked to log in
  once per call; polling calls never raise, validating calls never hide a failure; after
  any failure the client finds its way back.
* **Refresh.** Calls queue for five slots, each with its own timeout, under an outer
  timeout; the results come back by position in a list whose length depends on three
  options. Correct: every section holds its own payload; a snapshot is replaced as a
  whole or not at all; a failed refresh does not take the entities down; slow calls cost
  the waves behind them, never those in front.
* **Guests.** A guest may migrate between the read of `cluster/resources` and the read of
  the node's list, lists may fail, the selection has three states (`None`, `[]`, a list).
  Correct: a migrated guest keeps its entity, rows tell the truth, nobody shows up who is
  not selected.
* **Entities and options.** What a load creates and deletes depends on one refresh; the
  options dialog rewrites the selection from what one call answered. Correct: a load never
  deletes the sensor of a guest that is there; an empty selection stays empty.
* **Lifecycle.** Entries of three kinds come and go in any order; a background task
  outlives the entry that started it. Correct: `hass.data` and the services follow the
  entries, a CLUSTER entry is removed only on behalf of its creator (one made by hand only by
  the user), a node's services find its PVE entry.
* **Backups.** Targets run one by one or side by side with a limit and a delay, starts fail
  in several ways. Correct: each target gets its turn in order within the limit; the summary
  is complete and true.
* **PBS and CLUSTER refresh.** The PBS branch walks over the datastores with four calls
  each and no isolation between them; the cluster coordinator joins six calls. Correct: as
  for the PVE refresh, and no answer of one datastore or call in the place of another.
* **Sidecar.** One thread answers one connection after the other, a SMART scan may take
  longer than its client waits, and a client that gave up leaves its request behind.
  Correct: an endpoint that fails is logged once per outage; when the disks are quick again,
  everything is answered again.
* **Disks and readings.** `smartctl` is read in full, in part, not at all, or from the twin
  of the disk; readings are told apart by pieces of their names. Correct: no false alarm, no
  wear that heals, no reading that leaks into another, and no failing disk shown as healthy.
* **Backup history and PBS maintenance.** States are computed from lists fetched at
  different times, rated against the clock, saved and restored. Correct: "healthy", "OK" and
  "Idle" are said only of what really happened, and recently.

`PROJECT.json` lists the hazards behind these sentences, each at its line.

## 2. Modules

| Module | Models | State ↔ code | Actions ↔ code |
| --- | --- | --- | --- |
| `AuthTicket` | `_ensure_ticket` and `_api_request` of one client, the server, the clock | `ticket`, `csrf`, `expiresIn`, `retryIn`, `authError` are the fields of `ProxmoxClient`; `queue`, `holder` are `_auth_lock`; `tokenless` are the tickets that came without a CSRF token; `pc`, `held`, `sentCsrf`, `age`, `reply`, `result` are the locals of each call | `Begin` (choice of the credentials), `UseCached`, `RefuseInCooldown`, `StartLogin` (the three ways out of the locked section up to its await), `LoginOk`, `LoginFail`, `Receive` (status handling), `RequestFail`, `Cancel`; the server's `IssueTicket` (with a CSRF token or without), `Answer`, `Revoke`; `Tick` |
| `SharedTicket` | what one ticket for many calls promises | `usable`, `login`, `cooling`, `given` | `Give`, `StartLogin`, `LoginOk`, `LoginFail`, `Abandon`, `Return`, `Lapse` |
| `AuthRecovery` | `AuthTicket` under a server that is well from some moment on | adds `stable` | `Recover`, then only honest answers |
| `PollCycle` | one refresh of a PVE coordinator | `task`, `age` are the coroutines given to `gather`, `fanned` when they were, `data` and `available` the coordinator's | `ResourcesReturn`, `ClusterCallReturns`, `StartFanout`, `StartTask`, `TaskReturns`, `TaskTimesOut`, `Publish`, `UnpackFails`, `OuterTimeout`, `Tick` |
| `LastGood` | what a coordinator promises | `data`, `available` | `Publish`, `KeepLast`, `FailFirst` |
| `GuestMap` | the guest sections of a snapshot while guests migrate | `selected` is what the coordinator read at creation, `resources` and `listed` the answers of this refresh, `guests` the rows of `data["vms"]` and `data["cts"]` | `Relocate` (the cluster), `ReadResources`, `ReadList`, `PublishGuests` (`_build_vms_dict`, `_build_cts_dict`), `AbortReading` |
| `GuestEntities` | loading a PVE entry, the registry cleanup and the options dialog; extends `GuestMap` | `stored` is the selection in `entry.data`, `registry` the entity registry, `form` the dialog | `Load`, `FirstSnapshot` (sensors, cleanup, buttons), `FirstRefreshFails`, `Refresh`, `Unload`, `OpenForm`, `Tick`, `Submit`, `Dismiss` |
| `EntryLifecycle` | config entries, `hass.data`, services, the CLUSTER task | `state` per entry, `parent` and `named` what a CLUSTER entry stores of its creator and its cluster, `data` the keys of `hass.data[DOMAIN]` in order, `services`, `task` | `Add`, `AddCluster`, `BeginSetup`, `SetupFails`, `Store` (up to `register_services`), `SetupDone` (after the platforms), `Unload`, `UnloadFails`, `RemoveEntry`, `SubmitOptions`, `Restart`; `NothingToManage`, `RemoveOwned`, `StartFlow`, `CheckExisting`, `CreateCluster` |
| `Backup` | `create_vzdump_backup`, `backup_all`, `start_vzdump` | per call the list, limit, delay, progress and outcomes, and in `counted` what each target was added to | `CallSimple`, `CallAll`, `StartPost`, `RefuseToSend`, `PostReturns`, `WakeUp`, `Summarise` |
| `Coordinator` | what PVE and PBS coordinators share | `OUTER_TIMEOUT`, `NONE` | `KeepPrevious`, the one `except Exception` both branches are in |
| `PbsRefresh` | one refresh of a PBS coordinator | `stores`, `at`, `call` are where the walk is; `row`, `rows` the answers so far; `pbsData`, `pbsAvailable` the coordinator's | `PbsStart`, `ListStores`, `StoreAnswers`, `ServerAnswers`, `PbsPublish`, `MalformedBackups`, `PbsTimeout`, `PbsTick` |
| `ClusterRefresh` | one refresh of a cluster coordinator | `answer` per call, `clusterData`, `clusterAvailable` | `ClusterStart`, `CallReturns`, `ClusterPublish`, `BuildFails`, `ClusterTimeout`, `ClusterTick` |
| `Coordinators` | the coordinator of an entry of any kind; extends the three refreshes | `server_type` | those of the refresh the entry has |
| `BackupHistory` | `_build_backup_jobs_payload`, the three restored sensors, the failed tasks | `log` is the cluster's task log, `summary` and `failures` what a refresh publishes and `refreshed` by which time, `saved` and `restored` Home Assistant's store | `TaskStarts`, `TaskEnds`, `Refresh`, `SaveStates`, `Restart`, `TimePasses` |
| `PbsMaintenance` | the maintenance sensors of a PBS entry | `jobs`, `backups` are the server's, `fetched` the first half of a refresh, `published` the whole, `known` in both the datastores whose snapshots were answered | `TakeBackup`, `StartJob`, `EndJob`, `FetchStores`, `FetchTasks`, `FetchBreaks`, `ServerTime` |
| `CoordinatorData` | `Coordinators`, `BackupHistory` and `PbsMaintenance` together | `follows` | theirs |
| `Sidecar` | the sidecar's server loop and `_sidecar_get` | `backlog`, `serving`, `work` are the server's; `patience`, `asking`, `warned` the client's; `logged` counts the warnings | `Poll`, `TimeOut`, `Accept`, `Respond`, `Crash`, `Start`, `Recover`, `Tick` |
| `SmartData` | `/smart` and `ProxmoxDiskSensor` | `disk` is the hardware, `shown` what the entity last wrote | `Wear`, `Warm` (the disks), `SmartRefresh` (`_get_disk_info_safe`, the search, score and status) |
| `HardwareReadings` | the lm-sensors entities | `board` are the readings, `hardware`, `smartTemp` the coordinator's data, `entities` those of the load | `HardwareLoad`, `HardwareRefresh` |
| `SidecarData` | `Sidecar`, `SmartData` and `HardwareReadings` together | `follows` | theirs |
| `AuthTicketProofs` | theorems about `AuthTicket`, its promise and `AuthRecovery` | | |
| `GuestEntitiesProofs` | theorems about `GuestEntities`, and so about `GuestMap` | | |
| `PollCycleProofs`, `EntryLifecycleProofs`, `BackupProofs` | theorems about the module of that name | | |
| `SensorProofs` | theorems about `BackupHistory`, `PbsMaintenance`, `SmartData` and `HardwareReadings` | | |
| `RefreshProofs` | theorems about `PbsRefresh`, `ClusterRefresh`, `Coordinators` and `CoordinatorData` | | |
| `SidecarProofs` | theorems about `Sidecar` and `SidecarData` | | |

The `MC*` modules only name model values, bounds and symmetries.

Abstractions that matter for reading the results:

* *Time.* Deadlines are countdowns (`expiresIn = _ticket_expires - now`), so the clock
  itself needs no bound. Time passes only when the event loop has nothing due.
* *Tickets* are identities that are used again once nobody refers to them; the server then
  forgets what it knew of them. A login may bring a ticket without a CSRF token (`api.py:193`);
  a write then goes out without the header (`:246`) and is refused.
* *Failed answers.* The wrappers of `api.py` turn every failed polling call into `None` or
  an empty container (`api.py:354-393`), so `PollCycle`, `GuestMap` and `Backup` do not tell
  the reasons apart; `AuthTicket` does.
* *Payloads* are named by the section they belong to; `Fragile` sections contain one that
  cannot be unpacked (an item without the methods of a dict).
* *PBS payloads* are named by the datastore they came from, so that one in a wrong row
  shows; how long a PBS call takes is left open. In `ClusterRefresh` a payload is named by
  its call, and only the tasks can break the refresh: the code checks the others. The six
  results of its `gather` are unpacked into six names at once, so that nothing can go astray
  between call and section; no property is about it.
* *A failed list of snapshots* is an empty one (`api.py:677-678`), so a datastore that did not
  answer looks like one without backups. `known` remembers which did, and what the
  verification sensor promises of the age is said for those.
* *Names of datastores.* The verification and pruning sensors compare them in any case
  (`SameButCase`), the last action by how they begin (`BeginsWith`); both are relations, given as
  constants.
* *The sidecar's work* is a duration; which tool takes it does not matter to the server
  loop. A client that gives up is noticed only when the answer is written.
* *A disk's record* holds the attributes the score and the status use. Numbers stand for
  their side of the limits (10, 50 and 100 sectors, 60 degrees). The search goes by serial
  number, by name and by model. Its second step (`sensor/disks.py:64`, "Try by disk ID") is
  there and never finds anything: the coordinator names disks by their path (`/dev/sda`), the
  sidecar's answer without the directory (`sda`). The search by model compares whole names, and
  serial numbers are there and different; the code also accepts a part of a model's name. The
  other attributes of an NVMe disk are left out.
* *A reading* is named by its class, the pieces of its name the code looks for, and its kind,
  what it measures. One changes at a time: a refresh that changes several is several of
  these, and the property about it is about each entity alone. Means are whole degrees.
* *Tasks* of the cluster are running, `OK` or `error`: every other end counts as a failure.
  Time, a day and the window of 20 tasks are small numbers. The summary is rated by the
  refresh's clock (`coordinator.py:192`), the failed tasks are counted by a later one
  (`sensor/cluster.py:729`): `failures` are the times of those that failed, and the count is made
  from them when the sensor is read.
* *Guest keys.* A selection is of vmids or of `node:vmid` keys, which are made from the
  configured node; `Key` tells the two apart, because the options dialog does: it compares what
  is stored with plain vmids (`options_flow.py:215`), so a guest stored by its key is shown but
  not ticked, and leaves the selection when the form is submitted. What `matches_selected_guest`
  makes of keys in another spelling is left out.
* *First snapshot and platform setup* are one step in `GuestEntities`, whose reads belong to one
  entry; in `EntryLifecycle`, where entries meet, they are two: `hass.data` and the services are
  there before the platforms are, and anything may happen to the other entries in between.
* *Names of clusters.* All entries of `EntryLifecycle` belong to one cluster; a CLUSTER entry says
  so (`named`) or, made by hand when the cluster did not answer, has no name.
* *`enable_cluster`* is read by the code and written by no form; an initial FALSE stands for
  an entry whose stored options hold it.
* *Entry ids.* A removed PVE or PBS entry never comes back under the same id; the id of a
  CLUSTER entry is used again because nothing refers to it.
* *External code.* `DataUpdateCoordinator` runs one refresh at a time; Home Assistant
  serialises setup, unload and removal of one entry, leaves an entry that refused to
  unload alone until the restart, and lets it be removed meanwhile; `asyncio.Lock` and
  `Semaphore` serve waiters in order and drop a cancelled one.

How the modules compose: `GuestEntities` extends `GuestMap`, `AuthRecovery` extends `AuthTicket`,
which implements `SharedTicket`; `PollCycle` and `ClusterRefresh` each implement `LastGood`,
`PbsRefresh` ends in the handler of `PollCycle` (`KeepPrevious`), and the three are the cases of
`Coordinators`. What the sensors compute takes the outcome of a refresh, whole data or none, for
granted, as `LastGood` promises; so a behaviour of `CoordinatorData` follows either a refresh in
its steps or the sensors that live on refreshes, and holds the other still. `SidecarData` joins
the server loop with the disks and the readings in the same way. The product of the parts would
check the same pairs of states many times over: no variable of one part is read by another, so a
composition has the properties of its parts, and the theorems of section 4 are about the parts as
well as about the composition. The API client and a refresh are not composed: all a refresh sees
of the client is that a call ends within a bound (`EveryCallReturns`) in data or nothing
(`ErrorContract`), and those two are what `PollCycle` assumes. In the same way `Backup` and
`GuestMap` build on `ErrorContract`.

## 3. Runs

Passing runs:

* **auth** (`MCAuthPoll.cfg`). Two calls, a polling write and a validating read, three tickets,
  all three ways to be configured, a server that refuses, delays, loses, revokes and may leave out
  the CSRF token. Lock (`LockHeldByLogin`), cache (`PairedCsrf`, `NoExpiryRace`), cooldown
  (`FailedLoginIsRemembered`), `ErrorContract`, the three at work together
  (`ImplementsSharedTicket`), and `EveryCallReturns`. Two calls suffice for every pairwise race (a
  401 against a login, a waiter against a holder, a cancellation against both); the theorems below
  hold for any number. The durations 1, 1, 2, 3 keep the order of the real ones (15 s, 30 s, 100
  min, 2 h) where it matters: a ticket can expire while a request is on its way, a cooldown
  outlives a request, and `RefreshMargin` holds with equality.
* **auth_recovery** (`MCAuthRecovery.cfg`). After any history, once the server is well the
  client brings data on every call from some moment on (`Recovers`).
* **poll** (`MCCoordinatorData.cfg`). The refreshes of all three kinds of entries and the
  sensors that compute on them.
  *PVE*: two fixed and up to three optional calls on two slots, one fragile section, and the
  program's 20, 30 and 45 s as 2, 3 and 4: five calls need three waves, of which the outer timeout
  leaves time for the first two at best, as it does for the fourteen calls on five slots. All
  eight combinations of the options. `EarlyCallsAreServed` says which waves are safe,
  counted from the moment the calls were handed out, which is as late as the cluster's answers
  make it. `SnapshotIsWhole`, `ImplementsLastGood`.
  *PBS*: two datastores, every selection of them including none and the empty one, with and
  without tasks, any call failing, a refresh cut off at any point. Two datastores are enough
  for an answer in the wrong row, for a row of a store that is no longer asked and for a
  failure in front of or behind a healthy store. `PbsSnapshotIsWhole`; that the last snapshot
  survives is the handler `KeepPrevious` again, which `ImplementsLastGood` is about.
  *CLUSTER*: the six calls of the code, each good, empty or broken, with a timeout of two and a
  handler of its own. `ClusterImplementsLastGood`.
  *Backup history*: two jobs that share a guest, two tasks, a window of one task, a day of one
  unit within three: a task can be pushed out of the window, age by two days, and be saved,
  restored, saved again and restored once more, and a failure can end its day between the
  refresh that saw it and the sensor that counts it. `HealthyMeansRecent`, `ErrorIsCounted`.
  *Maintenance*: a datastore of the entry and one of the server that is not, whose name is the
  same in capitals, two tasks, one backup, three moments: before, between and after the two
  halves of a refresh, each answered or not. `MaintenanceIsTrue`, the conjunction of what the
  four sensors say. No name begins with another here; the theorem is for any that do.
* **sidecar** (`MCSidecarData.cfg`).
  *Server*: three endpoints, patience of two for the quick one and three for the others, work
  of up to five in a period of four, the backlog of five that `socketserver` has: one slow scan
  outlasts its client and the period, two fill the backlog with requests nobody waits
  for. `EveryOutageIsLoggedOnce`, and `SidecarRecovers`.
  *Disks*: twins of one model, or an NVMe disk beside one without a verdict; counters on both
  sides of the limits for sectors, temperatures on both sides of 60, two changes for the worse, any
  record read in full, in part, or not at all. `AlarmsHaveCause`, `WearNeverHeals`. Two disks
  are enough for the one mix-up there can be, a record of the twin.
  *Readings*: an Intel board, an AMD board and a board of chips that are no CPU's, with
  voltages, fans and powers that carry the name of one; plausible and implausible values.
  `ReadingsStayApart`.
* **entities** (`MCGuestEntities.cfg`). A VM that is created, destroyed and migrated between two
  nodes at any time, a container that stays where it started, all selections, unlimited loads,
  refreshes and dialogs; the selection of VMs may be by key. A row, a sensor and a tick depend on
  one guest and on the selection of its kind only, so one guest per kind covers the cases; the one
  cross effect, that an unanswered call is an empty list for all guests of a kind, is in it.
  `MigrationKeepsEntity`, `RowsAreTrue`, `LoadSparesTheLiving`, `DeselectedGetNothing`,
  `NothingTickedUnasked`.
* **entries** (`MCEntryLifecycle.cfg`). Two PVE entries of one cluster, two CLUSTER identities
  that a task creates or the user adds, two background tasks at a time; symmetric in each kind.
  Two PVE entries are the smallest system with a race for the CLUSTER entry and with an entry that
  removes another's. A PBS entry is a PVE entry without a task, and would only multiply the
  states; `entries_lookup` has one, and the theorems have any number. `DataIsLoaded`,
  `ServicesFollowEntries`, `OnlyItsParentRemoves`.
* **backup** (`MCBackup.cfg`). One handler at a time (handlers share nothing), lists of up to
  three targets with repetitions, limits 1 and 2, no delay, some delay and one that is no number
  (the services have no schema): one target in the queue behind a full semaphore is enough to
  see who waits for whom. Each target is added to the counters where the code does it.
  `TakenInOrder`, which bounds the POSTs in flight and not the backups that run, as
  `services.yaml:129` has it; `EveryTargetIsTried`, `SummaryIsComplete`.

Runs that end in a violation state what a comment, a docstring or a log line says and
show a behaviour of the code that differs (`findings` in `PROJECT.json` quotes them):

* **poll_down**: with the host down no call raises, so the refresh succeeds and publishes an
  empty snapshot over the last good one, the very first refresh included.
* **entities_cleanup**: when the guests were not answered at the first refresh of a load, the
  cleanup deletes their registered sensors; its guard only looks for an empty list of
  entities, which a PVE entry never has.
* **smart_failed**: `smartctl` sets a bit of its exit status for a failing disk, and the
  sidecar drops the record of every disk with a status other than zero for its bare
  identity. Without a verdict and without counters the entity rates the failing disk healthy.
* **backup_success**: `start_vzdump` returns `None` when the POST failed and both handlers
  count that as started.
* **entries_lookup**: after a reload of a PVE entry, the CLUSTER entry it created comes first
  in `hass.data` and is what `_find_entry_for_node` returns; `backup_all` finds no guests.

Three findings are made by what a passing property has to say to be true:

* `EarlyCallsAreServed`: `coordinator.py:21-22` calls the outer timeout a "pure safety net" that
  "only trips on a catastrophic wedge", since every task is bounded. The bound of a task starts
  when it has a slot: fourteen calls on five slots are three waves, three times 20 s do not fit
  into 45 s, and calls that all keep their own bound fail the refresh. The property promises two
  waves, and those only when `cluster/resources` and its neighbours answered within 5 s.
* `EveryTargetIsTried`: `services.yaml:141` has "Seconds to wait between backups" and
  `services.py:246` logs "Waiting {delay_between}s before next backup...". The sleep is outside the
  semaphore, so no backup of `backup_all` waits for it: the property holds with sleeps that never
  end. All the delay puts off is the summary.
* `SummaryIsComplete`: `services.py:112-119` counts a success, then compares the delay in the
  same `try`, and counts a failure if that raises. With a delay that is no number every target of
  `create_vzdump_backup` that was sent is in both counters, and the log line "Success | Failures |
  Total" does not add up (`CountedTwice`); `backup_all` counts it as a failure although it was sent.

Three more behaviours the models reach differ from a comment. After a burst of requests with a
dead ticket, a 401 that arrives late (`api.py:276`) drops the ticket of the login the first 401 led
to, and the burst logs in twice; nothing is lost, as `Recovers` shows. And the options
dialog opened while the node does not answer offers no guests; submitting it untouched stores
(`options_flow.py:136`) the empty selection, which means "show none".
`backup_all` skips guests flagged as migrated because they "live on another node"
(`services.py:191`); a guest at home is flagged too when the node's list was not answered and
`cluster/resources` was, and misses its backup without a word. `RowsAreTrue` has that
case as its one exception: with an answered list the flag is true.

Fairness. `AuthTicket!Fairness` is weak fairness of the clock, of handing a free lock to
the first waiter, of taking an answer that is there, and of the two `ClientTimeout`s when
they are due: what asyncio and aiohttp guarantee. Nothing makes the server answer or a
caller call. `AuthRecovery` adds that from some moment on the server answers and the polls
keep coming, since that is what recovery is about, and nothing cancels them.
`Backup!Fairness` is weak fairness of starting what has a slot, of the answer to a POST
(bounded by `REQUEST_TIMEOUT`), of the summary, and of the sleeps of
`create_vzdump_backup`; the sleeps of `backup_all` are unfair on purpose, because the
property says that nobody waits for them. `Sidecar!Spec` is weak fairness of the next refresh
and of the client's timeouts when they are due, of the server taking the next connection and
answering a finished one (one loop, never idle while there is work), of systemd starting the
service (`Restart=always`) and of time. `Recover` is the premise of `SidecarRecovers`: from some
moment on the disks answer within their usual time and nothing crashes; what is in the
backlog then may still be slow. `SidecarData` states the same for the behaviours that follow
the server. The other modules have only safety properties.

## 4. Theorems

`AuthTicketProofs` proves for every set of calls and tickets and all durations that
satisfy the two assumptions of `AuthTicket` (`AuthAssumption`: constants have their
types, the durations are positive; `RefreshMargin`: the lifetime of a cached ticket and
two requests fit into the server's lifetime, which the code's 100 min, 15 s and 2 h do):

| Theorem | Property |
| --- | --- |
| `TypeCorrect` | `TypeOK` |
| `LockNeverLeaks` | `LockHeldByLogin` |
| `CsrfIsPaired` | `PairedCsrf` |
| `RequestsNeverRaceExpiry` | `NoExpiryRace` |
| `ClientImplementsSharedTicket` | `ImplementsSharedTicket` |
| `FailuresAreRemembered` | `FailedLoginIsRemembered` |
| `ErrorsFollowTheContract` | `ErrorContract` |

All rest on `Invariance == Spec => []IInv`. None of the properties is inductive on its own;
`IInv` is the conjunction of named parts, each with a step lemma of its own:

* the lock and the shapes of a call's locals at each `pc` (`LockStep`, `ShapeStep`);
* the cached CSRF token belongs to the cached ticket, or there is none because its login brought
  none, and each request took such a pair (`PairStep`): without the part about the cache nothing
  is known of what `UseCached` hands out; that the server forgets a ticket only when nobody
  holds it any more is `IssueSparesTheHeld` and `TimeSparesTheHeld`;
* what is left of the cooldown and the time since the last failure add up to at least the
  whole cooldown (`CooldownStep`), which is why no login starts in it;
* while somebody logs in there is no usable ticket and no recent failure (`NeededStep`):
  neither comes back while the lock is held, so a login never replaces a live ticket;
* the server honours a cached ticket for one request longer than the cache hands it out, a
  ticket being fetched for its whole life less the age of the login, a ticket in flight
  until its request has timed out (`MarginStep`): here `RefreshMargin` enters, one of its
  two requests being the login itself;
* the queue lists the waiting calls once each (`QueueHoldsWaiters` and `QueueStep`, from three
  lemmas about leaving at the head, joining at the tail, and leaving from the middle): this is
  about the model's picture of `asyncio.Lock`, so it is a part of `IInv` and no theorem.

`SharedTicket` is the cache as its callers and the server see it: no queue, no clock, no
answers. Its login starts only while no ticket is usable and no failure is recent, and a request
leaves only with the usable ticket or the one its call has just fetched. `ImplementsSharedTicket`
maps `usable` to the cached ticket while it is used, `login` to the holder of the lock, `cooling`
to a running cooldown and `given` to the ticket of a request that was sent. `CallKeepsPromise`
shows step by step what each action of a call is there; it needs `LoginNeeded`, or else a login
could end with a live ticket to replace, and the shape of a call that was sent.

`AuthRecovery` is proved of too. `RecoveriesAreBehaviours` makes every theorem above one about a
client whose server gets well, and `WellServersOnlyHelp` is the safety half of `Recovers`: from
that moment on no ticket is revoked and none comes without a token, the cooldown only shrinks, and
a request is refused only if its ticket was revoked or came without a token before. That these run
out in time is the other half, and is checked.

`GuestEntitiesProofs` proves for every set of VMs, containers and nodes, and hence for every
number of guests that move at the same time, under `GuestAssumption` (the own node is a
node, no id is both a VM's and a container's) and `EntityAssumption` (no guest is named like
the entity of the node itself):

| Theorem | Property |
| --- | --- |
| `TypeCorrect` | `TypeOK` |
| `RowsNeverLie` | `RowsAreTrue` |
| `MigrationIsSeamless` | `MigrationKeepsEntity` |
| `LoadsDeleteNothingAlive` | `LoadSparesTheLiving` |
| `DeselectedStayAway` | `DeselectedGetNothing` |
| `DialogsTickWhatIsStored` | `NothingTickedUnasked` |

The inductive invariant has three parts besides the types. `NothingReadYet`: before the lists
are read nothing of an earlier refresh is left. `Traced`: what was read is where a guest has
been seen since, so a stale answer is still an answer of this refresh; a list that is not
empty is the whole truth about its kind, so a guest that is missing from it was seen
elsewhere. `Together`: a guest has its sensor and its buttons or neither. Two lemmas carry
the argument. `BuildIsTrue` and `BuildIsComplete` say of the rows, whatever was read in
whatever order, that they are true and that nobody who was there is left out; the premise
of the second is exactly what the run `entities_cleanup` shows to be necessary, an answered
`cluster/resources` or a guest that stayed home and an answered list. The properties about
the registry follow because only `FirstSnapshot` changes it (`CreatedTogether`).

`PollCycleProofs` proves for every list of fixed calls, any number of slots and all timeouts,
under `CycleAssumption` (the calls are different, the constants have their types):

| Theorem | Property |
| --- | --- |
| `TypeCorrect` | `TypeOK` |
| `RefreshImplementsLastGood` | `ImplementsLastGood` |
| `SnapshotsAreWhole` | `SnapshotIsWhole` |
| `EarlyWavesAreServed` | `EarlyCallsAreServed` |
| `EntitiesStayUp` | (`SnapshotKeepsAvailable`, a consequence of the refinement, no run of its own) |

`IndexOfInverts` is the lemma about positions: the walk of `idx` over the sections, which moves on
at those that are fetched, finds each call where `TaskList` put it, whichever of the optional
calls are there (`WalkStep` and `WalkShape` count the steps). With it `SnapshotsAreWhole` and the
refinement follow, the latter from the invariant that a fan-out starts when `cluster/resources` is
settled (`FanoutComesLast`). `EarlyWavesAreServed` rests on `InWaves`: measured from the moment
the calls were handed out (`fanned`), a call of wave *w* does not wait longer than *w* times
`TASK_TIMEOUT` and has run at least for the time since. A tick keeps it because whoever waits does
so behind `SLOTS` running calls (`ServedInOrder`), one of them a whole wave ahead (`Pigeonhole`)
and not timed out yet.

`EntryLifecycleProofs` proves for any number of entries and background tasks, under
`EntryAssumption` (no entry is of two kinds, `NONE` is no entry):

| Theorem | Property |
| --- | --- |
| `TypeCorrect` | `TypeOK` |
| `DataFollowsEntries` | `DataIsLoaded` |
| `ServicesGoWithTheLast` | `ServicesFollowEntries` |
| `ClustersAreRemovedByTheirParents` | `OnlyItsParentRemoves` |

CLUSTER entries made by hand, with or without a name, are in all four; the third theorem says of
them that no task removes them, since no task has `NONE` for its entry.

The inductive invariant is that the keys of `hass.data` are different and those of the entries
that start, run or refused to stop (`KeysAreKept`, with `AppendKey` and `PopKey` about the list),
that a task knows the PVE entry that started it, and `ServicesFollowEntries` itself, which needs
the first: a pop that leaves the list empty leaves no entry running.

`BackupProofs` proves for any number of concurrent handlers, any finite set of guests and every
limit, under `BackupAssumption`:

| Theorem | Property |
| --- | --- |
| `TypeCorrect` | (`TypeOK`) |
| `TargetsAreTakenInOrder` | `TakenInOrder` |
| `SummariesAreComplete` | `SummaryIsComplete` |

Its invariant is one predicate per handler, `HandlerOK`, since a step touches one handler
(`LocalStep`): the books fit the list, a target that was posted has its outcome, and the targets
are in order within the limit also when the handler is done, which is what the next call finds.
For the summary it has that a target that is done was added to at least one counter, and to both
exactly when the code counts it twice; `SummaryCounts` adds the two cardinalities up.

`RefreshProofs` proves for any set of datastores and any timeouts, under `PbsAssumption` (the
lists are sequences of datastores, `NONE` is neither a list nor a datastore) and
`ClusterAssumption` (the timeout is positive):

| Theorem | Property |
| --- | --- |
| `PbsTypeCorrect` | (`PbsTypeOK`, a part of `PbsInv`) |
| `PbsSnapshotsAreWhole` | `PbsSnapshotIsWhole` |
| `ClusterTypeCorrect` | (`ClusterTypeOK`) |
| `ClusterRefreshImplementsLastGood` | `ClusterImplementsLastGood` |

`PbsInv` adds to the types what the walk has so far: there is a row for exactly the stores in
front of the current one (`RowsSoFar`), all of them when the server is asked, and what a row
holds, the one being filled included, is of its own store or empty (`RowsAreOwn`). The second is
what the reset of `row` between two stores keeps, the first what makes a finished walk a
whole snapshot.

The same module proves about the composed specifications, under the assumptions of their parts:

| Theorem | What it says |
| --- | --- |
| `CoordinatorIsOneOfEach` | `Coordinators` implements the three refreshes |
| `CoordinatorDataIsCorrect` | all properties the run **poll** checks, of the specification it checks them of |

`SidecarProofs` proves for any finite set of endpoints, any patience, work and backlog,
under `SidecarAssumption` (work is at most the slowest, a client gives up before the next
refresh):

| Theorem | Property |
| --- | --- |
| `TypeCorrect` | `TypeOK` |
| `OutagesAreLoggedOnce` | `EveryOutageIsLoggedOnce` |
| `AnswersMeetTheirRequests` | (`RequestsInv`) |
| `SidecarDataIsCorrect` | the safety properties the run **sidecar** checks, of `SidecarData` |

The invariant behind the first two is that the endpoints that were warned about are those whose last
request failed (`WarnedAreFailed`), through timeouts, errors, crashes and requests that were never
heard; two lemmas (`AnswersEndOutages` and its counterpart for failures) are all that steps of
client and server need.

`RequestsInv` is what makes the model's bookkeeping of requests by endpoint sound, and what a
late answer could break: a connection whose client still waits is the only such one of its
endpoint, and the endpoint is being asked (`OneConnectionEach`); a client gives up before the
next refresh asks again (`RefreshesStayApart`); and nobody waits while the service is down
(`NobodyAsksInVain`). So an answer never counts for a request of a later refresh, however
many requests that were given up are in front of it.

`SidecarDataIsCorrect` joins the parts: each starts in a good state when the behaviour follows
another (`AnsweredIsFine`, `NoDiskIsFine`, `NoBoardIsFine`), and each step is a step of one part
that leaves the others alone (`StepsAreOfOne`).

`SensorProofs` proves for any guests, jobs, window and length of a day under `HistoryAssumption`
(a missing time is none of the times), for any datastores, tasks and moments under
`MaintenanceAssumption` (likewise), for any rack of disks and any limits of the model under
`SmartAssumption` (counters and temperatures are numbers, a missing one is none), and for any
board with any values under `HardwareAssumption` (readings are whole numbers, a missing one is
none):

| Theorem | Property |
| --- | --- |
| `HealthIsRecent` | `HealthyMeansRecent` |
| `ErrorsAreCounted` | `ErrorIsCounted` |
| `FailuresInTheWindowAreSeen` | (`FailuresAreSeen`) |
| `MaintenanceTruth` | `MaintenanceIsTrue` |
| `AlarmsAreCaused` | `AlarmsHaveCause` |
| `WearIsKept` | `WearNeverHeals` |
| `ReadingsAreApart` | `ReadingsStayApart` |

`HistoryInv` says where times come from: the times of the last run that was published, saved
or restored are each of a run in the log of a guest of some job, and "healthy" is never saved
or restored without one. So a sensor that falls back compares a real time to the clock again,
and cannot pass an old verdict on. The lemmas follow a time from the log through the choice
of the window, of the latest task and of the job (`RunIsOfTheJob`, `KnownRunsAreReal`,
`LastRunIsReal`); the library's facts on finite sets give the choices their extremes
(`LeastExists`, `GreatestExists`). `FailuresAreSeen` is the other direction, for the window: a job
whose last run failed is counted whenever both lists were answered, and puts the jobs in error for
a day. What it does not say is what the code does not do: a failure behind the 20 latest tasks,
or behind a later run of another guest of the job, is not in the summary. `ErrorsAreCounted`
needs of the two clocks only that the second is not behind the first: a failure within a day of
`refreshed` is within a day of the sensor's clock or its day ended in between.

`MaintenanceInv` says that what was fetched and published is the server's: last backups are the
newest of their moment where the datastore answered, and absent where it did not, a task shown as
ended is one of the server, one shown as running has a running one or one that ended since behind
it (`ShownAreReal`), and no task that had ended before the tasks were read is missing
(`RealAreShown`). It needs both moments of a refresh apart, since the two halves are read at
different times. From it, `MaintenanceInvImplies` gives what the four sensors say, through lemmas
about what the sorted selections choose (`NewestEndedIsNewest` for the latest run of a kind).

For the disks, `CausesStay` says that what gets worse stays a cause, `FullRecordsHaveCause` that
only a full record with a cause rates worse than healthy, `FoundIsAlike` that the search brings a
record of the disk or of a disk of its model. `WearNeverHeals` compares two refreshes with any
number of steps between them, so the invariant has to remember the first: `WearShows` says that
the disk as it is now, at the temperature it had when it was read, scores no better than what is
shown. It stays true because wear only adds to the penalties, each of which grows with its
counter, and because the score is the rest.

For the readings, `HardwareOk` has the types and that what was loaded has the places of the board;
`CpuWalksAgree` follows the two walks of the code over the same readings, the one for the
temperature and the one for the attributes, to the same package, and `NoStepLeaks` shows that an
entity reads nothing but its sources. A mean of several readings is defined as a number of
*degrees* (`Degrees`), a cardinality the library has facts about, so that it lies between
the least and the greatest of them is a lemma without induction.

Every invariant and every action property of a passing run is stated by one of these theorems.
Those about the parts of `CoordinatorData` and `SidecarData` are about the specification of
their own module (`PbsSpec`, `HistorySpec`, `SmartSpec`, ...), and `CoordinatorDataIsCorrect` and
`SidecarDataIsCorrect` about the specifications the runs check.

Only model-checked: the four liveness properties `EveryCallReturns`, `Recovers`,
`EveryTargetIsTried` and `SidecarRecovers`, since the prover does neither liveness under fairness
nor `ENABLED`. The violation runs are single behaviours and need no proof.

## 5. Not modelled

* *Node services* (shut down, reboot, wake) and *buttons*: one request each, then a refresh
  after a pause; they keep no state. Which buttons exist is in `GuestEntities`. A guest's
  button asks the configured node (`button.py:424`), which refuses when the guest is elsewhere.
* *Config flow*: the steps a user walks through one after the other, and
  `async_migrate_entry`. What they end in, an entry of any of the three kinds, is in
  `EntryLifecycle` (`Add`, `AddCluster`), and so is the discovery flow, which runs beside other
  entries.
* *Replication, notifications, node metrics* and the sensors that show one field of a snapshot:
  functions of one answer, whose properties would repeat their tables of names and limits.
* *Options* other than the guests of a PVE entry: each is stored as it was entered.
* *The sidecar's other contents*, `/mounts`, `/health`, `/smart-extended` and the contents of
  `/memory`: one read of a file or command per request; nothing in the integration asks for
  the first three more than once. Their place in the queue is that of any endpoint.
* *NVMe attributes* and critical temperatures in the attributes of entities.
* The parsing of service arguments: rejected calls change nothing.
* Translations, icons, units and the wording of notifications.

Seen on the way, in code whose effect is no property of a module:

* `sensor/pbs.py:809` sorts verifications by their end, so a running one, which has none, hides
  behind any that ended; `_get_value` (`:832`) then shows the old result, not "Running", and
  how a verification ended plays no role.
* `sensor/sensor_last_action.py:60` matches datastores by the beginning of their names: the
  actions of `backup2` count for `backup` as well (`BeginsWith` in `PbsMaintenance`, where what
  "Idle" means holds nevertheless).
* `sensor/pbs.py:829` compares a verification with the last backup only if there is one: while
  the snapshots are not answered a stale verification is shown as "OK" (`VerifyOkIsFresh` says
  so).
* `config_flow.py:577-582`: a CLUSTER entry added by hand while the cluster does not tell its name
  has no `cluster_name`, so the task of a PVE entry does not find it and creates another.
* `sensor/hardware.py:292` keeps fans and voltages out of the CPU's temperature by their keys;
  powers and currents whose label names a CPU are still taken, `:192` takes the first critical
  temperature of any chip for the CPU's, and an NVMe disk whose current value is missing shows
  a limit (`:391-394`).
* `src/scripts/pve-sensors-api.py:459`: attribute 196 (events) begins like attribute 5 (sectors)
  and replaces it.
* `sensor/cluster.py:654`: the number of failed jobs is always in the summary, an empty one
  included, so the restored number is never used.
* `sensor/__init__.py:275` reads every value of the SMART answer as a record, so an
  `{"error": ...}` of the sidecar at the first refresh breaks the setup of the sensors.

## 6. Plan

Done: `AuthTicket`, `AuthRecovery`; `PollCycle`, `PbsRefresh` and `ClusterRefresh`, and their
promise `LastGood`; `GuestMap` and `GuestEntities`; `EntryLifecycle`; `Backup`; `Sidecar`,
`SmartData`, `HardwareReadings`; `BackupHistory` and `PbsMaintenance`; the compositions and the
proofs.

What could follow, in order of use:

1. The replication and notification payloads against reference definitions.
2. The premises of the liveness properties as theorems: what each step of a recovery uses up,
   as `WellServersOnlyHelp` does for the client, for the sidecar's backlog.
