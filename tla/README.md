# NaSnap in TLA+

NaSnap (`src/`) snapshots, restores and recovers Proxmox VE guests that live on
NetApp ONTAP volumes. It is a Flask application with one synchronous gunicorn
worker (`entrypoint.sh`), daemon threads for jobs and schedulers, one SQLite
database, and four outside parties: ONTAP (REST), Proxmox VE (REST and SSH),
the guests, and people. What can go wrong in it is seldom a wrong computation:
it is an order of calls, a lost answer, a list that is old when it is used, a
crash between two calls. That is what these modules are about.

Paths below are relative to `src/plugins/netapp_storage/` unless they start
with `src/`.

## 1. Inventory

| Part | Source | State it keeps | Operations | Module |
|---|---|---|---|---|
| Protection plan runs, retention | `core/snapshot_engine.py`, `api/schedules.py` | rows of `netapp_snapshots`, snapshots on ONTAP, the index file | run a plan over its datastores, create, mark, retain, synchronise rows | `SnapshotCatalog`, `RetentionPolicy` |
| Deletion of snapshots | `api/snapshots.py` | the same | delete a row's or a native snapshot | `SnapshotCatalog` |
| Detect & Scan | `api/provisioning.py`, `core/gc.py` | the same | import index entries, collect stale rows, hourly | `SnapshotCatalog` (in part) |
| Jobs | `core/_job_registry.py`, `core/_helpers.py`, `core/migrate_engine.py`, `api/snapshots.py`, `api/dr.py` | rows of `netapp_jobs`, threads, cancel events | start, cancel, delete, clean up, reconcile at boot | `JobLifecycle` |
| Guest consistency | `core/snapshot_engine.py` | frozen and suspended guests | freeze, suspend, thaw, resume | `VmQuiesce` |
| Instant recovery | `core/instant_recovery_engine.py`, `api/instant_recovery.py` | sessions, FlexClones, temporary storages, machines | start, migrate, discard, clean up, dismiss, orphans | `InstantRecovery` |
| Disaster recovery | `api/dr.py`, `core/recovery_engine.py` (`_bind_nfs`), `core/replication_engine.py` (teardown) | plans, entries, SnapMirror relationships, datastores | edit, fail over, reconcile at boot; a failback is named in the states and has no code | `DrFailover` |
| Scheduler | `api/schedules.py` | `last_run_at`, the clock | is a plan due, start it, edit plans, run now | `PlanScheduler` |
| Provisioning | `api/provisioning.py`, `core/san_helpers.py`, `core/ontap_client.py` | rows of provisioned datastores and mappings; volumes, LUNs, groups; sessions and `storage.cfg` of every host | provision, remove, add host, remove host | `Provisioning` |
| Clone engine | `core/clone_engine.py`, `api/clone.py`, `core/san_helpers.py` | temporary clones, volume groups, disks, configurations | clone from a snapshot, of a live machine, from the secondary; delete orphans | `CloneRestore` |
| Restore engine | `core/restore_engine.py` | the same | restore files, one machine on SAN, from the secondary, a whole volume | `CloneRestore` |
| VMID reservation | `core/_helpers.py` | placeholder configurations | reserve, clean up | `CloneRestore` |
| Single file restore | `api/file_restore.py`, `core/sfr_engine.py` | sessions, NBD devices, clones, copies | open, mount, re-mount, unmount, close, expire, copy, cancel | `SfrSessions` |
| Datastore index | `core/datastore_index.py`, `core/replication_engine.py` | `index.json` on the datastore | read, extend, write back | one step in `SnapshotCatalog` |
| Discovery and pruning | `core/discovery.py`, `core/prune.py` | `netapp_volume_mapping` with its cascades | detect, delete | none |
| VM list cache | `api/snapshots.py` | cached lists | background refresh | none |
| Recovery of deleted VMs and datastores | `core/recovery_engine.py`, `api/recovery.py` | what provisioning and restores keep | attach a volume, register a storage, write configurations | none |
| ONTAP client | `core/ontap_client.py` | none | calls and the polling of ONTAP jobs | in the modules that use it |
| Settings, reports, mail, log-in, UI, database backup | rest | configuration | forms and queries | none |

How they interact: every API request runs in the only worker, so requests do
not interleave with each other; they interleave with threads. Threads share
the database (each statement is atomic, a sequence of them is not), the
registry of jobs in memory, and the outside world. No lock protects anything
across two calls to ONTAP or Proxmox VE. A request of more than 120 seconds
makes gunicorn kill the worker, and with it every daemon thread: that, a
restart of the container and a power loss are the crashes of the modules.

The hard behaviours, with their lines, are the `hazards` of `PROJECT.json`.

## 2. Modules

### RetentionPolicy (abstract) and SnapshotCatalog

`RetentionPolicy` says what a protection plan promises about a volume in three
actions: a snapshot is taken, and is newer than all others; somebody withdraws
one; retention expires one *of the plan*, and only while `Retention[p]` newer
ones of the plan are kept.

`SnapshotCatalog` is the code. Its variables: `ontap` (snapshots on the array),
`rows` (`netapp_snapshots`), `index` (the index file of each datastore), `job`
(the locals of `_run_snapshot` in each thread, `pc` saying where it is), `scan`
and `request` (the locals of `_run_detect_and_scan` and `_delete_snapshot`),
the clock, and the history variables of the abstract module. Steps follow the
code at the grain of one SQL statement or one ONTAP call:

    StartRun/StartManual -> OpenStore -> InsertRow -> UpdateIndex ->
    CreateOk | CreateAnswerLost | CreateFails -> LookupUuid ->
    MarkDone | MarkFailed -> ListForRetention ->
    (ExpireOne | ExpireAnswerLost | ExpireFails -> DropRow)* -> SyncRows -> next datastore

The scan thread imports unknown index entries and collects rows whose snapshot
a list, read earlier, does not show; the request worker reads a row, deletes on
the array, then deletes the row. A snapshot name is a pair of a minute and a
tail; whether a name counts for a plan is the constant `Matches`, because the
code tells by `endswith` of a text that users choose.

### VmQuiesce

The jobs of several threads freeze or suspend guests, take the snapshot, and
release the guests in the `finally` clause. Each call may fail, and a freeze or
a suspend may take effect although its answer is lost. What Proxmox VE and the
guest agent do is external and stated in the head of the module; in particular
`status/suspend` answers with a task, which runs later (compare
`core/migrate_engine.py:94`, which polls such tasks).

### JobLifecycle

The row of a job, its thread, and the registry, for the four ways in which the
code runs jobs: a thread started by a request, by a plan run, a worker of the
bulk migration pool, and work in a caller's thread that is never registered.
Cancel is four steps (read the row, look the thread up, signal, mark), as in
`_cancel_job`. A crash takes threads, registry and events; boot is
`reconcile_stuck_jobs_on_boot`.

### InstantRecovery

A session and what it stands for: the clone on ONTAP, the temporary storage and
its mount, the machine with the number of its disks that are on the clone, and
the ad-hoc snapshot. The start job undoes what it did when it fails
(`_teardown_raw`); migrate, discard and clean-up are threads that set the
status of the session themselves, after the request that started them has been
answered, so several may work on one session; teardown goes on after each
failing step and remembers that one failed. The administrator moves disks by
hand, and deletes orphaned clones from a list that may be old.

### DrFailover

Plans, their entries, and what a failover does with them: the relationship on
the DR side, the row of the datastore, and what Proxmox VE shows under a storage
id. An entry is made for a source volume and names a relationship, a copy, a
storage id and hosts, each of which a request may change (`UpdateEntry` points it
to another copy too). The storage id defaults to that of the source. A failover
copies the entries once, skips incomplete ones, and for each of the others
ensures the row, breaks, binds, and notes success or failure; one entry's
exception does not stop the next. The row is looked up by storage id, and keeps
the endpoint and the SVM it has (`name` and `home` of a row); a storage that is
there already counts as bound, whatever it shows. Two failing calls are passed
over with a warning: a break that is not confirmed, and `pvesm add` that fails on
every host. `Finish` writes the state of the plan. Requests change plans and
entries while a failover runs, another plan may fail over the same volume,
replication may be ended, and a crash leaves a plan running, which the next boot
reconciles (`LiveState`). Three histories: `given` (relationships that somebody
chose to give up; a request that names no entries chooses those the failover will
find when it reads them), `unsure` (entries about which a failed call was passed
over) and `contested` (storage ids that were another volume's at a bind).

### Provisioning

A request checks, writes the row, and starts a thread: create, remove, join (add
a host) or leave. A job is a program of steps over its datastore, the order of
which is the order of the code on that protocol: objects are made on ONTAP
(`MakeObject`), written to the row (`Persist`), then each host is attached,
registered and activated, and the mappings are inserted; a removal detaches host
by host, removes the objects its copy of the row names and the export policy
that it finds through the volume (`Found`), and deletes the row. A policy whose
creation was not answered is used by no volume, and no removal finds it (`stray`).
A host may be removed from a datastore it is not a host of, as in the code.
`Crash` takes the threads; nothing at boot looks after the rows. Two jobs may
work on one datastore, because no request looks at its status. The state of the
hosts is `session`, `cfg` (entries of `storage.cfg`, one file for all hosts if
`Clustered`) and `mapping`. Two history variables say which datastores were
worked on by two jobs, and which names carry the remains of a job that died.

### CloneRestore

Seven kinds of job (clones and restores, from primary and secondary, on NFS,
iSCSI and NVMe) as programs of the same steps: reserve the VMID, take a snapshot
and a temporary clone, attach it to the host, import its volume group or find
its device, copy disk after disk, write the configuration, start, and clean up. A
restore on SAN or from the secondary puts an empty configuration in the place of a
missing one (`stub`, `_ensure_vmid_placeholder`); one from the secondary without a
row of the snapshot, or a manifest, has an empty list of disks (`size`).
What the host has only one of is shared: the names `base1`, `base2` of imported
volume groups, the session with the target of the secondary, the list of NVMe
devices from which a job takes the one that is new. A disk holds the name of the
job whose snapshot was copied to it, so that a property can say whose data a
machine ended up with. `Handle` is the `except` branch of each engine, and a
cancelled job ends the way that engine lets it end, at the points where that
engine looks (`CancelPoints`). The clean-up calls warn when they fail, but for the
deletion of a subsystem on the secondary, which fails the job (`DropRaises`).

### SfrSessions

Sessions over one machine. The single worker answers a request in several steps
(guards and row as read, login, disconnect, clone, device, row written); beside it
run the daemon that ends idle sessions (from rows it has read before) and a thread
per copy. A request logs in afresh, at the host of the datastore (`First`) or,
when that does not answer, at another one (`Reaches`); the daemon logs in at the
host that was reached when the session was created (`home`); where the device is,
nothing says. A mount has a number of its own, and `owner` says for which session
it was made; the row knows only the device and the clone, as in the code, so that
the model can tell when a device in a row is somebody else's. Copies write chunks
into the machine, which a later copy sweeps. Three histories: `leaky` (mounts not
fully made or undone, or lost to a race), `astray` (mounts whose request was at
another host than `home`) and `misled` (sessions whose row, or a copy of it, names
a device that was given up, or is on another host).

### PlanScheduler

Time in ticks, a minute of `Minute` ticks. The loop sleeps until `until`, reads
all enabled plans, and goes through them while the clock goes on and the rows
change under it; for each plan that is due by its old row and the present clock
it starts a run. A run takes its datastores in turn and writes `last_run_at` at
its end. Plans are added, changed, deleted and run by hand at any time; a look
may fail, and the process may die.

### How the modules fit together

`PlanScheduler` decides when a run starts, `SnapshotCatalog` what it does to the
volume and the rows, `VmQuiesce` what it does to the guests; all three take the
same run for a sequence of datastores. `JobLifecycle` is the row and the thread
that each job of the other modules has. `Provisioning` makes the datastores
whose mappings the others read; `CloneRestore`, `InstantRecovery` and
`SfrSessions` are the users of temporary clones. They are checked separately:
what one leaves to another is a nondeterministic choice there (a run may start
at any time, a call may fail).

### Conventions

A definition in front of another and named after it (`SurplusKeepingMore`
before `Surplus`) is a plausible slip of that code. No action uses it; with it
in the place of the real one, the property it is listed with is violated.
`MaxFaults`, `MaxRuns`, `MaxCrashes`, `MaxMinute`, `MaxDeletes`, `MaxJobs`,
`MaxMounts`, `MaxTime`, `MaxEdits`, `MaxMisses` bound what
would be unbounded and appear in guards only. Deadlock is not checked in any
run, because a behaviour that has used up these bounds stops.

## 3. Runs

| Run | Question | Bounds |
|---|---|---|
| `Catalog_Retention` | Does retention keep exactly the newest snapshots of its plan, however runs overlap? | a plan and manual snapshots whose names end with its suffix, one volume, 2 threads (symmetric), 3 runs, 2 minutes, 1 fault or crash, 1 deletion by others |
| `Catalog_Scan` | Do rows and snapshots agree again in the end, though the answer to a deletion was lost? | a plan over 2 datastores, the scan thread, 2 runs, 2 minutes, 1 fault or crash, no deletions by users |
| `Quiesce_Apart` | Is every guest released, and frozen when the log says so? | 2 threads on different guests (2 machines, 1 container), 3 runs, 2 faults |
| `Jobs` | Can a request cancel or delete what still works? Does any row say running for ever? | 2 jobs of any kind, a pool of one worker, 2 faults or crashes |
| `Recovery` | Is what shows as closed clean? Is a clone deleted under a disk? Can leftovers be got rid of? | 1 session, 2 disks, 2 threads, 2 faults, 1 crash |
| `Dr_Failover` | Does the state of a plan tell whether a failover is at work? Is a mirror broken that nobody selected? Does what is called done serve? Does every failover end? | 1 plan, 2 volumes, 2 storage ids (one in use already), 4 forms of an entry (one incomplete, one with the id of the other volume), 2 failovers, 3 edits, 1 fault, 1 crash |
| `Provision` | Is what hosts depend on recorded, is a removal complete, does a mount show its own volume, are other datastores left alone? | 2 datastores that may share a storage id (two on NFS, NFS and iSCSI, or iSCSI and NVMe), 2 hosts, 2 threads (all symmetric), 3 jobs, 1 failed call or crash |
| `Clone_Restore` | Is what is reported done whole, is nothing temporary left, is no machine touched that is not the job's own? | 2 jobs (symmetric) of 11 kinds, 2 VMIDs, a running machine, 2 disks, 1 failed call, cancellation or crash |
| `Sfr` | Can every device and clone be found again? Does a session disconnect only its own, and leave the copies of others alone? | 2 sessions, one on SAN, 2 hosts with 1 device each, 2 mounts, 1 copy, 1 failed call, login at the other host, or crash; states that differ only in the histories of mounts that are gone are one (`Relevant`) |
| `Scheduler` | Does the loop start a plan twice in a minute? How many minutes may it pass over for a plan? | 2 plans, 2 runs at a time (symmetric), a minute of 2 ticks, looks of up to 1, 4 minutes, 3 edits, 1 failed look or crash |
| `Clone_CopiesOwn` | *violated*: a clone removes the temporary volume group of another one, which then copies out of a wrong snapshot and reports done | 2 clones over iSCSI, no fault |
| `Sfr_ChunksKept` | *violated*: a copy removes the chunks of another copy that runs, which then reports done with a file that lacks them | as `Sfr`, 2 devices each, 2 copies, no fault |

Each violated property quotes the comment of the code that it states; `findings`
in `PROJECT.json` has the lines. Further disagreements between code and text, and
cases that the properties of passing runs exclude by name, are listed in section 5.

What the passing runs show:

- `ExpiredCovered`: a snapshot deleted by retention had, and still has,
  `retention_count` newer ones that nobody else's deletion is to blame for.
  Overlapping runs delete from old lists; that this is harmless is not
  evident (each list dooms a *suffix* of the order of creation, and a list that
  is older dooms less). `SweptBounded` is the other side: after a retention
  without errors no more than `retention_count` of what it saw ever remain.
  `ImplementsPolicy` states the refinement, which also covers what users and
  ONTAP take away. Whose snapshots it deletes is
  another question: it goes by the end of the name, and deletes a manual snapshot
  `x_daily` for the plan `daily`. The properties speak of all snapshots whose
  name counts for the plan, such manual ones included; the run has them.
- `StaleRowsCollected`, `IndexedGetsRow`: a finished row without a snapshot
  disappears, after a deletion by retention whose answer was lost too, and a
  snapshot in the index has a row infinitely often. They hold *in spite of* the DB sync that deletes rows of other datastores and of
  the garbage collection that compares with an old list, because the next scan
  repairs both. Without the scan neither holds.
- `StaleCancelOnlyDead`, `RowOfLiveJobKept`: for jobs that a
  request started. They rest on the worker being single and busy until the
  thread is registered; for jobs of plans, of the pool and of `run_as_job`
  nothing of the sort holds.
- `RunningEnds`: with crashes. A plan whose mapping is gone is the exception:
  its row stays running until the next boot (`api/schedules.py:185`).
- `ReleasedOrExcused`, `FrozenAtSnapshot`: as long as no two threads snapshot
  the same guest, which the code does not ensure (section 5).
- `ClosedMeansClean`, `LeftoverReachable`, `CloneKeptUnderDisks`, `DiscardEnds`:
  through retries, two threads on one session, lost answers and stale lists.
- `StateTellsRunner`: start and delete look at nothing but the state of the
  plan, so it must be running while a thread is. `MirrorBrokenOnPurpose`:
  entries are added, edited, retargeted, detected and deleted under a running
  failover, and what it breaks is still what was selected when it read them.
  `SuccessServes`: a plan is called failed over only if everything the failover
  took up has been broken, and its copy is what the row and Proxmox VE have under
  its storage id, except what a warning passed over and ids that were another
  volume's. It says nothing of skipped
  entries: a plan whose entries are all incomplete is called failed over too.
  `FailoverEnds`: however many entries fail.
- `TouchedMeansRecorded`: the order of `MakeObject`, `Persist` and `Attach`
  matters, since the row is all that a later removal has. It holds on SAN and
  not on NFS. `RemovalIsComplete` (what the row names, and the export policy of
  its volume) and `LeavesOthersAlone` are the two sides of a removal; `MountsOwn` says that the check for a taken name keeps two volumes
  apart - as long as no job on that name was overtaken, died or failed.
- `DoneIsWhole`, `TemporariesGone`, `ConfKept`, `NotUnderRunning`: each holds
  except for what it names: machines two jobs were at work on, jobs whose volume
  group or device was taken, machines that would not stop, jobs whose clean-up
  failed, and, for `DoneIsWhole`, jobs with an empty list of disks.
  `TemporariesGone` is about what a job makes for its own use; the stub of a
  restore that failed, and the disks of a clone that failed, do stay, and it does
  not say otherwise.
- `MountNamed`, `DisconnectsOwn`, `CopyUndisturbed`: through re-mounts, failed
  mounts, expiry from old rows and the deletion of orphaned clones, which spares the
  clones that rows name. They are about the host that was reached when the session
  was created. A mount on another host, or one a request did not undo because it
  was at another host, is `astray`: the code leaves that device connected, and no
  row tells of it. What a request at another host disconnects there may be
  anybody's.
- `OncePerMinute`, `JudgedEverySecondMinute`: the guard of `_cron_is_due` looks at the
  *end* of the last run and does not keep a plan from being started twice in a
  minute; that the loop sleeps a whole minute after each look does. The price is
  drift: a look every 60 seconds and a bit, which judges each plan by the clock
  it finds when it comes to it. One minute may be passed over for a plan,
  never two in a row, as long as a look takes no more
  than half a minute. What the property does not promise: a look that fails leaves the
  plans it has not come to, and nothing makes that good, so such a plan may be
  due in two minutes running and be judged in neither; a row changed after the
  look began is judged in its new form by the next one. The history `owed` holds
  the time from which the loop owes each plan a judgement.

Why the bounds are enough: the properties of retention relate one snapshot to
later ones of one plan on one volume, and a violation needs two runs that list
in one order and delete in the other, a third one for what they should have
kept, and one interference; cancel involves one job and whoever starts next to
it; a session is independent of other sessions except through the worker; a
failover tells its volumes apart only by selected or not and failed or not, so
two show every mixture, and for several plans there are the theorems; two
datastores that may have one name, and two jobs, are what a job of provisioning
can meet; two jobs are what contends for a group, a device or a VMID, and with
two disks something may happen between them; two sessions and one device of
a host let a device that was given up go to the other one, and a second host is
what a login falls back to (what takes a third session, or more devices, is left
to the theorems); and the scheduler needs a look that
takes half of a minute, the most that is assumed, and four minutes for a drift to
pass over one. Every action of every module fires in a passing run.

### Fairness

- `SnapshotCatalog!FairSpec`: weak fairness of the steps of the scan thread
  only. `_loop` of `start_datastore_scan_scheduler` runs it every hour and
  catches every exception, and after a crash it is started again at boot. A
  scan may skip datastores only as often as there are faults. Nothing is
  assumed of jobs or users.
- `JobLifecycle!FairSpec`: a started thread goes on (all calls have timeouts),
  the pool takes the next job when a worker is free, a request comes to its
  end, and the container is restarted (`src/docker-compose.yml`, `restart:
  unless-stopped`). That a user cancels, or that a call fails, is never
  assumed.
- `InstantRecovery!FairSpec`: weak fairness of each thread, for the same reason.
- `DrFailover!Spec`: weak fairness of the thread of each failover, whose calls
  all have timeouts. Requests, faults and crashes are never assumed.
- `Provisioning`, `CloneRestore`, `SfrSessions` and `PlanScheduler` state safety
  only. (`JudgedEverySecondMinute` is a bound on time: `Tick` stops at the end of the
  sleep and of a look until they have ended.)

## 4. Theorems

Proved with TLAPS for all values of the constants that satisfy the named
assumptions of the modules.

`SnapshotCatalogProofs`:

- `TypeCorrect`: `Spec => []TypeOK`. `TypeOK` alone is not inductive: that a
  job in `droprow` has a victim, or that `listed` holds names, depends on its
  `pc`. `TypeInv` adds what each `pc` says of the other locals.
- `RetentionKeepsNewest` and `CatalogImplementsPolicy`: `TailsApart` implies
  `Spec => []ExpiredCovered` and the refinement. The invariant: snapshots that
  some thread has *doomed* are covered already (`DoomedCovered`), uuids grow
  (`TakenLast`), and the array is finite. The crux is `CoverStays`: a step of
  the policy never uncovers a snapshot: new ones only add to the newer ones,
  withdrawn ones still count, and an expired one is either older, or of another
  plan (here `TailsApart` is needed), or has itself enough newer ones.
- `RetentionBounds`: `Spec => []SweptBounded`, from what a listing leaves
  undoomed.

`DrFailoverProofs`: `DrTypeCorrect`, `StateTellsTruth` (`[]StateTellsRunner`),
`MirrorsSafe` (`[]MirrorBrokenOnPurpose`) and `DoneServes` (the action property
`SuccessServes`), for any number of plans that share volumes. The invariant
`DrInv` says of each failover that the relationships its selected entries name are
given, for as long as it has not read them; that what it took up is to do, being
bound, or has its outcome; and that what it calls succeeded serves, unless a
warning passed it over or its storage id was another volume's. `OnePlanChanges` reduces a step to the
plan that takes it: no step takes back what another failover knows (`Grows`).
`DoneServes` then follows from `OnlySuccess`: no other action calls a plan
failed over.

`PlanRunProofs`, for the two modules about runs of plans, `VmQuiesce` and
`PlanScheduler`:

- With `GuestsApart`, `QuiesceTypeCorrect`, `GuestsReleased`
  (`[]ReleasedOrExcused`) and `FreezeHolds` (the action property
  `FrozenAtSnapshot`). The invariant says that what a job calls frozen is frozen
  by it alone; `GuestsApart` is what makes that inductive.
- `SchedulerTypeCorrect`, `StartsOncePerMinute` (`[]OncePerMinute`) and
  `JudgesEverySecondMinute` (`[]JudgedEverySecondMinute`), for any plans, cron
  expressions, length of a minute and of a look up to half of it. The properties
  speak of minutes, but what moves is time, so neither is inductive: `StartInv`
  names, for each plan, a time in the minute of its last start, and `Owes`
  relates the time since when a judgement is owed to the end of the sleep, or
  says that the plan is still on the list of the present look, with its present
  row. `MinutesApart` and `MinutesClose` bring that back to minutes. The
  assumption `2 * Work <= Minute` is needed for `JudgesEverySecondMinute` only.

`JobLifecycleProofs`: `JobsTypeCorrect`, `StaleMeansDead` (`StaleCancelOnlyDead`)
and `LiveRowsKept` (`RowOfLiveJobKept`), both properties of steps, for any number
of jobs and any width of the pool. They need to know that a thread which works
can be looked up, which is false between the row and the registration; `JobInv`
has it because the only worker is still busy with that job then, so that no
request can look (`RequestedGood`). Both are stated for jobs of requests, since the
others are not protected that way.

`InstantRecoveryProofs`: `RecoveryTypeCorrect`, `ClosedSessionsAreClean`
(`[]ClosedMeansClean`), `LeftoversReachable` (`[]LeftoverReachable`) and
`ClonesKeptUnderDisks` (the action property `CloneKeptUnderDisks`), for any number
of threads on one session. A session is closed at the last step of a teardown,
so `RecoveryInv` says for each step what is gone if no step before it failed
(`TaskGood`). That this outlives the steps of other threads is because nothing
makes a clone or a mount again once a session has a row (`StartGood`).
`LeftoverReachable` needs `Attended`: a session shows as discarding only while a
thread discards it, unless the process died.

`ProvisioningProofs`: `DatastoresTypeCorrect`, `HostsDependOnRecorded`
(`[]TouchedMeansRecorded`), `ActiveMountsOwn` (`[]MountsOwn`), `OthersLeftAlone`
(`LeavesOthersAlone`) and `RemovalLeavesNothing` (`RemovalIsComplete`), for all
datastores, protocols, ids, hosts, threads and bounds, on a cluster and off it.
`ProvisioningInv` places each job inside its program (`JobGood`) and says what it
may rely on from its earlier steps (`Knows`): a creation alone made the objects
there are, and its row names all of them from `Persist` on; a removal that has
come past a host or an object has left nothing there, and has found the policy
through a volume it has not deleted yet; the copy of the row a job
read is still the row. Each of these is lost when a second job works on the
datastore; that is what the history variables `overlapped` and `marred` record,
and why the properties name them. For a complete removal one needs besides
that every host that has an entry is a host the row or a job at work knows
(`Listed`), and that no two rows share an id (`IdsOwned`). That a removal
leaves others alone rests on entries of `storage.cfg` being of the datastore
that has the id (`HostsGood`).

`SfrSessionsProofs`: `SessionsTypeCorrect`, `DevicesFoundAgain` (`[]MountNamed`) and
`OnlyOwnDisconnected` (`DisconnectsOwn`), for all sessions, hosts, devices, copies
and bounds. A row is copied into the request and into the list of the daemon, and
`SfrInv` says what each copy is still good for: the clone it names is on the device
it names, at the home of the session, or on none (`Homes`); that device is the
session's own unless the session is misled (`Truthful`); and what is kept for the
session and neither leaky nor astray is named by the row, or by the request at
work (`Found`, `ReqGood`, `SweepGood`). The histories had to grow with the proof: a
request that writes down a mount which the daemon has disconnected in between, for
another session's old row, leaves its own row pointing at a device given up
(`Held` in `Record`), which takes three sessions to be seen.

`CloneRestoreProofs`: `CloneTypeCorrect` (`[]TypeOK`), `TemporariesAreGone`
(`[]TemporariesGone`), `DoneJobsAreWhole` (`DoneIsWhole`), `ConfigurationsKept`
(`ConfKept`) and `DisksNotUnderRunning` (`NotUnderRunning`), for all machines,
numbers of disks, empty lists included, finite sets of jobs, requests and bounds.

- Why an invariant: `TemporariesGone` speaks of jobs that have ended, and a job
  leaves nothing because of everything it knew on its way. `CloneInv` says for
  every job at work that what its thread knows covers what there is of it
  (`LeavesKnown`), that a clone which has looked at its VMID is alone with it
  (`ConfOwn`), which disks hold its snapshot (`Written`), and that its machine is
  down from the check or the stop to the start (`StaysDown`); and of the host,
  that the groups imported there are the wired clones of different jobs
  (`GroupsGood`).
- What these rest on is the order of the steps in nineteen programs, which is
  stated once (`StepGood`: what is made is dropped later, what can fail comes
  before the start, the check before what writes, and so on) and checked for all
  programs by `ProgramsAreGood`. Only that is used of them afterwards.
- The argument goes by jobs: a step of one job keeps what is said of it
  (`AdvanceKept`, then one lemma per action), and touches only what it has its
  hands on, so that what is said of the others stays (`Spares`, `JobsKept`). Two
  jobs on one machine break that, and are in the history `raced`, which the
  properties name (`JobsApart`).
- That an imported group always finds a name is the pigeonhole (`FreeName`):
  there are as many names as jobs, and each job has at most one group.

`TailsApart` and `GuestsApart` are hypotheses of the theorems, not
assumptions on the constants, because the code does not establish them. The
other theorems use only the assumptions named in the modules, which give the
constants their types (and `2 * Work <= Minute` above, that `Jobs` is finite, and
`RequestsAssumption`: there is a program for what is requested, as no request
names another kind or protocol).

Only model-checked: liveness (`StaleRowsCollected`, `IndexedGetsRow`,
`RunningEnds`, `DiscardEnds`, `FailoverEnds`), which is out of the prover's reach,
as are statements with `ENABLED`. Every other property of a passing run is a
theorem.

## 5. Limits

### Where code and text disagree

The disagreements that a run shows violated are in `findings` of `PROJECT.json`.
The following were met while modelling. Where a passing property would fail for
one of them, it excludes the case by name.

Plans, retention, jobs, guests:

- Retention tells snapshots of a plan by the end of their name
  (`core/snapshot_engine.py:610`), against "filters snapshots that belong to this
  schedule by name pattern" (`:580`): it deletes a manual snapshot `x_daily` for
  the plan `daily`, and counts it as one that is kept. A plan whose suffix ends
  another one's takes that plan's snapshots as well, which `TailsApart` excludes
  from the theorems.
- The DB sync after one datastore compares the rows of all datastores of the
  plan with the snapshots of that one, and removes rows of live snapshots
  (`core/snapshot_engine.py:667`), until the next scan imports them again.
- A bulk migration cancelled while it waits for a worker of the pool is run all
  the same and ends as done (`core/migrate_engine.py:162`, `:293`).
- A late cancel turns a finished job back to cancelling, and the boot looks only
  for running ones (`api/dr.py:144`). The job of a plan whose mapping is gone
  stays running until then (`api/schedules.py:185`).
- Two jobs on one machine undo each other, or leave it frozen without any failed
  call: an application-consistent job freezes it, another one suspends it, and the
  agent of a suspended machine does not answer the thaw (`GuestsApart`;
  `core/snapshot_engine.py:409`). A suspend is a task that the
  snapshot does not wait for (`:782`).
- The guard of `_cron_is_due`, "Prevent a schedule from firing twice within the
  same minute" (`api/schedules.py:84`), measures from the end of the last run:
  it never prevents that, and makes the loop pass over a due plan when a run of
  it ended less than a minute ago (a plan that is due every minute and runs for
  some seconds runs every second minute; "run now" shortly before the hour takes
  the place of the hourly run). Runs of one plan may overlap. A plan deleted or
  switched off during a look may still be started. `*/n` of the day of the month
  counts from 0, and a day of the week is Python's (Monday is 0), also in
  `@weekly`.
- The daily purge of jobs raises before it deletes anything: `query_one` returns
  a `sqlite3.Row`, which has no `get` (`api/schedules.py:359`).
- Between the listing and the query of the garbage collection a finishing job
  can lose its row until the next scan (`core/gc.py:61`); deleting a row without
  uuid leaves the snapshot on ONTAP (`api/snapshots.py:803`).

Instant recovery and disaster recovery:

- A session that is done can still be discarded, which destroys the migrated,
  permanent machine (`api/instant_recovery.py:335`).
- A crash, or an exception before the first disk is moved, leaves a session
  migrating, which no request accepts (`core/instant_recovery_engine.py:753`, against "stays
  visible and retryable, not silently stuck", `:782`); a
  clone whose uuid was not learnt is skipped by every teardown without counting
  as a failure; a failed start leaves its ad-hoc snapshot (`:472`, against `:470`).
- The list of orphaned clones shows the clone of a session that is being started,
  and the deletion does not look again (`api/instant_recovery.py:446`, against "no
  active session still needs", `src/README.md:870`).
- A DR plan with entries that was failing over when the process died stays
  `failover_running` for ever (`api/dr.py:103`, against `src/README.md:562`).
- A failover whose entries are all skipped, or whose storage no host accepted,
  is called a success (`api/dr.py:885-890`, `core/recovery_engine.py:707`); one
  whose binds all failed after the break, or whose VMs could not be started,
  goes back to standby with its mirrors broken (`api/dr.py:847`, `:1006`), and
  may then be deleted.
- The storage id of a DR entry defaults to that of the source (`api/dr.py:322`). A
  failover looks the row up by that id, and gives the row it finds the name of the
  copy but not its endpoint and SVM (`:791`); a storage that is there already counts
  as bound (`core/recovery_engine.py:686`). So a failover can be called done while
  Proxmox VE shows the source under that id (`SuccessServes` excludes such ids:
  `contested`).

Provisioning:

- A removal is accepted while the datastore is being provisioned
  (`api/provisioning.py:208`); the slower thread writes its storage entry after
  the removal has dropped it, and the next datastore of that id finds "already
  exists" and is active on the old volume (`MountsOwn` excludes such ids).
- On NFS a volume whose creation was not answered is not recorded, yet a host may
  be added to the datastore in error; a failed provisioning sets the datastore
  to error and its job to done.
- Removing an iSCSI datastore logs the host out of the target of the SVM, which
  other datastores share; removing a host of an NFS datastore runs `pvesm remove`
  for the whole cluster, and leaves the export rule.
- Add host writes back a host list it read before (`RecordHost`). Deletions of
  LUNs and volumes are not polled. NVMe subsystems are disconnected by a
  substring of their name.

Clone and restore:

- A cancelled FlexClone or DR-NFS restore ends as done (`_job_failed` looks for
  "failed" only); `lv_copy` loses the status of `dd`.
- Reserving a VMID is a check and a write; the loser of a race removes the
  winner's file. The handler of a clone on NFS or SAN removes a real
  configuration if `qm set` fails. Disks of a failed clone stay, so that a retry
  with the same VMID fails.
- The iSCSI disconnect of one DR job ends the session of the others;
  `find_new_nvme_device` may take the device of another job.
- A volume revert stops only machines that the snapshot lists, newer ones lose
  their disks while they run; a machine that does not stop is a warning; machines
  that were off are started.
- A DR restore on SAN without a row of the snapshot logs "will restore all LVs found
  in clone VG" (`core/restore_engine.py:982`), has an empty list of disks, copies
  nothing and reports done (`:1052`, NVMe `:1266`, `:1337`); an empty manifest has the
  same effect on NFS (`DoneIsWhole` excludes empty lists).
- A DR restore on NFS without a manifest searches the directories of all
  machines (`core/restore_engine.py:1571`, against "Only this VM's disks are
  restored" in the user interface). The stub that a restore on SAN or
  from the secondary writes is not removed when it fails. Objects on the secondary are not covered by the scan for orphans.

Single file restore:

- Close waits 5 seconds for a copy, expiry 3, although the comment at
  `api/file_restore.py:376` says "wait for the thread to fully exit before
  unmounting"; unmount and re-mount do not stop copies at all, and a copy that
  is cut short may report done. Copies of one session share one progress entry.
- A failed re-mount leaves the old device in the row, so that a later close
  disconnects another session's (`DisconnectsOwn` excludes these rows). A SAN
  mount that fails after the device was connected never disconnects it.
- Every request takes the first host that answers (`api/file_restore.py:104`), and
  the daemon the one that was reached when the session was created (`:1000`). So the
  daemon can delete the row of a session whose device stays connected on another
  host, without any failed call; a request to unmount can take a device out of the
  row that it has not disconnected; and at another host a request can disconnect the
  device of another session that has the same number there (`astray`, `misled`).
- The health check of the hosts lists the directories of active sessions as
  leftovers.

### What the modules leave out

`SnapshotCatalog`: pre- and post-scripts, SnapMirror updates after a snapshot,
mail, progress, logs, tamperproof settings (a locked snapshot is one whose
deletion fails); an update of the index is one step. `JobLifecycle`: the purge,
the job log. `InstantRecovery`: NVMe (its clean-up swallows errors), the move of
the TPM device. `Provisioning`: resize, import, requests that reuse objects,
ASA systems, export rules and initiator grants, the check for machines in use,
replication. `CloneRestore`: the search for a manifest, containers, the text of
configurations, the rows a native snapshot leaves; one datastore and one host;
the run omits pairs of kind and protocol that differ from another pair only in
how the temporary clone is made. `SfrSessions`: listings, downloads, volume
groups of guests, the job row, sessions of several machines; on
which host the first of the list is does not change; a selection, listing or copy at
another host than its mount finds no device, where the code may find another
session's; that idle sessions
end some day is not checked, because with the liveness of the daemon the state
space is too large. `PlanScheduler`: fields of a cron expression (a set of
minutes), the list of VMs a run refreshes, notifications.

Parts without a module are listed in `PROJECT.json` with the reason for each:
the index file, discovery and pruning, recovery of deleted VMs and datastores,
SnapMirror, the moves of bulk migration, the cache of VM lists, database
backups, settings, log-in, user interface.

## 6. Plan

Next to be modelled: `DatastoreIndex` (read, extend and write back by several
jobs and the replication engine: an entry that was written is found again) and
`Prune` (mappings, and what a deletion takes with it).
