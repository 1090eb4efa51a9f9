# A TLA+ model of AGCoord

AGCoord runs the checks, full gates and landings of several coding agents on one
machine. One broker process per user owns a durable queue (a SQLite database in
WAL mode); clients, land workers and the broker change it in separate write
transactions. This directory holds TLA+ modules of its core, TLC configurations
that check them on small instances, and proofs that TLAPS checks for every value
of the constants.

## The system

| Part | State | Operations | Meets |
|---|---|---|---|
| Queue store (`store.rs`) | the table `runs`, the maintenance marker, the lock file's published capacities | submit, cancel, clear, drain, drain status, resume, land phases, gate reuse, report | everybody, through SQLite transactions |
| Scheduler (`broker.rs`, `store.rs`) | the owner's copy of the table, capacities, `last_repository` | validate the running rows, pick, admit | the store |
| Broker owner (`broker.rs`, `platform.rs`) | owner lock, stop signals, idle time | boot, pump, idle check, graceful shutdown | the store, workers, signals |
| Worker lifecycle (`broker.rs`, `worker.rs`, `platform.rs`) | map of children, grace timers; PID and start token in the row; control pipe | spawn, commit identity, verify setup, release, observe, signal, drain the process group, finish | the kernel, the store |
| Land worker (`land.py`, `github.py`) | its place in preflight, gate, publication | phase callbacks, gate, avoided-commit checks, publish, report | the store, the forge |
| Child CPU leases (`store.rs`, `pytest_xdist.py`) | table of leases | request, finish, maintain | the pump, processes of a run |
| Resource backends (`cgroup.rs`, `project_quota.rs`, `resources.rs`) | leaves, quotas, manifests, receipts in the row | prepare, attach, measure, cancel, clean up, recover | start and observation of workers |
| Recovery and maintenance (`recovery.rs`, `store.rs`, `host.rs`) | maintenance marker, triggers, recovery record, the lock held for a caller | drain, resume, hold, prepare, prove, complete, park | the broker through marker and queue, the installer |
| Migration (`store.rs`) | protocol, metadata, backups | migrate, roll back | a stopped broker, operators who drain |
| Host (`host.rs`, `native_host.py`) | installed files | preflight, install, upgrade | a drained spool |
| Python client (`queue.py`, `native_client.py`) | none that lasts | start a broker on demand, wait, drain, call the broker binary | all of the above |

What is hard here: the owner decides on an old copy of the table; clients validate
against what an earlier owner published; whether rows are live and whether the
queue is closed are read in different transactions; the owner may die between any
two commits while its worker lives on; a worker's descendants may outlive it; a
stop request races the verdict and the step to publication; callbacks take effect
and their answers get lost; the database may be busy anywhere; a leaf, a quota or a
backup exists before the row or file that names it, or after; brokers of several
spools share one mount; systemd makes the delegated root anew under surviving
workers; an operator repeats a command whose answer was lost. `PROJECT.json` lists
these as hazards with their lines and the properties that cover them.

## Modules

### Scheduler

The queue and its owner. `rows` is the table `runs`, extended by the statuses
`absent`, `offered` (a client has validated its request and has still to insert
it) and `cleared`. `marker` is the maintenance state, `published` the capacities in
the lock file, `pc` the place of the owner in `Broker::start`, `serve`,
`pump_once` and `graceful_shutdown`; `pc = "none"` means that nobody holds the
owner lock. Each action is one transaction or one read outside a transaction, so
that everything the code leaves open to interleaving is open in the model.

| Code | Actions |
|---|---|
| `submit` (`owner_info`, `validate_submit`, then the transaction) | `Offer`, `Submit` |
| `cancel`, `clear`, `advance_land_phase` | `Cancel`, `Clear`, `AdvanceLand` |
| `begin_drain`, `drain_status`, `resume` | `BeginDrain`, `DrainStatus`, `Resume` |
| `OwnerLock`, `Broker::start` | `AcquireOwner`, `BootLoad`, `BootMarker` |
| `pump_once` | `Pump`, `Finish`, `ObserveEnd`, `Pick`, `StartWorker`, `StartDone`, `ActiveInvalid` |
| `serve` | `CheckLive`, `CheckMarker`, `StopSignal`, `Busy` |
| `graceful_shutdown`, `request_interruption` | `RequestInterruption`, `Finish`, `StopDone` |

`blocked_by` is split into `LaneBlocked` and `ResourceBlocked`, `next_admissible` is
`LaneHeads` and `NextAdmissible`, `validate_active` is `ActiveValid`. Sums of units
are cardinalities (`Allocation`), which keeps the module free of recursion.

### JobLife and RunLifecycle

`JobLife` says what the coordinator promises about one job: the command runs at
most once, only while the row is running; a verdict comes once, when nothing of the
command is left or it is `noted` that the rest could not be ended; a cancelled job has
changed nothing at the forge.

`RunLifecycle` is one run in detail: the owner's steps from the admission
transaction to the release of the worker, its observation of the worker, the
worker process with its control pipe and process group, the land worker's
callbacks, clients that cancel, owners that crash and are replaced. The steps of
`start_worker` are separate actions because the code itself names the points at
which it may crash (`admission-commit`, `worker-identity-commit`,
`worker-setup-commit`, `worker-release`, `terminal-commit`). `group` stands for the
descendants of the worker. A run may have a cgroup leaf (`leaf`, from `Prepare` on), and
`observe` then takes another branch. Without a leaf a stop is SIGTERM and, after a grace,
SIGKILL to the process group (`SignalCancel`), and a worker that has ended leaves its row
running until the group is gone (`DrainGroup`). With one, a stop is one kill of the leaf
that is not repeated (`CancelResources`), and the end is another one (`FinishResources`);
either may fail, which is only recorded in the receipt (`undone`), and the row ends all
the same. The backends' own steps are in `Resources`. The module implements `JobLife`
under the mapping `Job`, where `noted` is a recorded failure to finish.

Exit statuses are abstracted to the ones the code tells apart; the codes
`head-changed`, `pr-not-ready` and `publish-failed` behave like `merge-error`. What
a publication does at the forge is one choice: it took effect or not, and it
succeeded, or failed whether or not it took effect. The publication of a `merge`
is its command and has no `published` of its own.

### Landing

One checkout, its branch, its request and the target at the forge. Commits are numbers;
`anc` says what each one reaches and `tree` whose content it has. The worker is a
record with its place in `land.execute`, `prepare`, `execute` and
`_synchronize_target`; each call to Git or the forge and each callback is an action
of its own. `Refuse` ends the worker with a status. `Submit` starts a land, or a
merge on the receipt of a full run; a second submission is the retry after a
failure. Others push to, rewrite and delete the branches, change the request and work
in the checkout; metadata follows the branches when the forge gets to it. Calls fail
without effect, after taking effect, or take effect after their sender gave up
(`late`). Edits in the checkout are not taken back while a worker runs: an edit that
is undone before the next look cannot be noticed by any check of the code.

| Code | Actions |
|---|---|
| `_avoided_refusal` | `CheckAvoided` |
| `execute`, as preflight and as publication | `CheckLocal`, `ReadPullRequest`, `ReadRefs`, `CreateCandidate`, `UpdateRefs`, `Observe` |
| `_synchronize_target` | `SyncLocal`, `SyncMeta`, `SyncRefs`, `SyncMerge`, `SyncConflict`, `SyncCheck`, `SyncPush`, `SyncObserve` |
| `prepare`: the callback `head_changed` | `RecordHead` |
| the gate and its reuse | `StartGate`, `GateGreen`, `GateRed`, `ReuseGate` |

### ChildLeases

The CPU tokens of one running job and the processes of its tree that lease them.
`lease` holds the live rows of `child_cpu_leases` in slots that are used again,
`older` what the column `sequence` says about those that wait, `owner` whether the
process of a row is a descendant of the worker, was reparented or is gone.
`request_child_cpu_lease` is `Request`, `finish_child_cpu_lease` (release,
cancellation and the timeout of a waiting client) is `Finish`.
`maintain_child_cpu_leases` is `Reclaim`, one `Grant` per turn of its loop, and
`Commit`; `lock` keeps other writers out in between, while processes may exit. A
broker that dies inside rolls back, which is as if it had not begun. `credit` is a
history variable: how many younger requests may still be granted first.

### Resources

One run and what its broker asks of the two backends between admission and verdict.
A contract gives each of three bindings (a memory controller and a tmpfs in the
cgroup, quota scratch on disk) the mode off, best effort or required; `Contract`
keeps to one scratch provider. `row.saved` is what the row holds, the private state of each
backend and the receipt, `copy` what the broker works on until `Save` writes both in
one statement. A backend call is one action with an outcome. The worker is a process
that is spawned, attached, reports its setup and is released, or is found dead at its
release; `kids` are its descendants, which `inLeaf` says are in the leaf.

| Code | Actions |
|---|---|
| `prepare_resources` | `Probe`, `Prepare`, `Prepared` |
| `prepare_worker_setup` | `SetupTmpfs`, `SetupQuota` |
| `start_worker`, `attach_resources`, `verify_setup` | `Spawn`, `Identify`, `Attach`, `VerifySetup`, `Release` |
| `record_worker_setup_failure`, `record_worker_setup` | `RecordSetupFailure`, `RecordSetupError`, `RecordSetup` |
| `observe`, `capture_resource_usage`, `signal_cancel` | `CaptureUsage`, `ObserveCancel`, `ObserveEnd`, `SignalGroup` |
| `cancel_resources`, `finish_and_cleanup_resources`, `cleanup_resource_records` | `CancelBackend`, `CancelDone`, `FinishBackend`, `FinishDone`, `CleanupBackend`, `CleanupDone` |
| `finish_run`, `Broker::start` | `EndRun`, `Boot` |

### CgroupLeaf

The inside of the cgroup backend: the delegated root in its successive incarnations, the
owner group that all runs of a spool share, a leaf for each run, and the private files
`owner.json` and one manifest per run. `ensure_owner` is `EnsureOwner` and `RecordOwner`,
the rest of `prepare` is `EnableControllers`, `CreateLeaf`, `Configure`, `WriteManifest` and
`UndoLeaf`; `finish` is `Finish`; `cleanup` is `RemoveLeaf`, `RemoveTarget`,
`RemoveManifest`, each of which may fail; `cleanup_owner` is `CheckOwner`, `RemoveOwner`,
`ForgetOwner`, called from prepare and cleanup and returning to `ret`; `validate_recovery`
and `abandon_reused_root` are `Recoverable` in `Boot` and `AbandonReusedRoot`. Calls fail,
brokers die between any two effects, workers escape their leaf, and `RootRecreated` takes
all groups away while no broker runs.

### ProjectQuota

The inside of the quota backend, for several spools on one mount. `limits` and the charges
(`tree`, and `open` for removed files that a process still holds) belong to the mount and
are shared; `manifest` and `row` are private to a spool. The lock of the mount is held from
`PrepareLock` or `CleanupLock` until `Unlock`, and released by the death of its holder.
`complete_manifest` is `CreateTree`, `RecordTree`, `InstallLimits`, `AssignTree`, `Ready`;
`rollback` is `RollbackTree`, `RollbackLimits`, `RollbackManifest`, and `PrepareGivesUp`
where one of its calls fails; `cleanup` is `MarkCleaning`, `RemoveTree`, `AwaitUsage`,
`ClearLimits`, `RemoveManifest`. A limit that the kernel accepts without installing it is an
outcome of `InstallLimits`.

### Recovery

The maintenance marker with its triggers, the record of an active recovery (`rec`), the
result of the last one (`last`), and the broker as far as recovery meets it: it picks a row
(`filter_queued`), admits it in a later transaction, starts and observes its worker, finds
no live row (`FindIdle`) and reads the marker afterwards (`Yield`). `recover_hold` and
`drain_hold` take the owner lock and keep it until their caller ends (`RecoverHold`,
`DrainHold`, `HolderEnds`). `prepare`, `submit_proof`, `complete` (active and repeated) and
`park` are `Prepare`, `SubmitProof`, `Complete`, `CompleteAgain`, `Park`. A proof that
passes has a receipt that shows its limit in force (`enforced`) or does not. The proof
helper may change on disk. `intent`, `used`, `told` and `late` are history variables: the
drain in force, the proofs of this recovery, the answers of `complete`, the work that was
accepted since the broker's last idle check.

### Migration

The database as far as a migration and a rollback touch it: protocol, rows with their
sequence numbers, metadata (marker, baseline, gate floor, cutoff), triggers, and the
backups of protocol 3 (which stands for 1 to 3) and 4. `backup_database` is `Copy` and
`Protect`, the two transactions of `migrate` are `Normalise` and `Native`; `rollback`
reads the marker (`Rollback`) and replaces the tables later (`RollbackCommit`). `Dies`
ends either at any step. `era` says before which migration or rollback a row was
inserted; it is history, like `ended`, `cleared`, `intent` and `raced`. Clients act under
the owner that they looked for, so the second look at live rows that `migrate` and
`rollback` take inside their transactions never finds one.

### MC modules

`MCScheduler`, `MCRunLifecycle`, `MCChildLeases`, `MCResources`, `MCCgroupLeaf`,
`MCProjectQuota` and `MCRecovery` are instances for TLC: requests, capacities, contracts,
symmetry. `MCScheduler` also has `StreamSpec`, in which the ID of a run that has ended may
become that of a new one (`Reuse`), so that requests keep coming for ever. `Landing` and
`Migration` take their constants from the cfg.

### Proof modules

A module `XProofs` extends the component's module `X` and holds its inductive invariant,
the lemmas, one for each action or group of actions, and the theorems at the end.
`ResourcesProofs` is about what one run holds and extends two modules, `Resources` and
`ChildLeases`; that is why the specification of the leases is called `LeaseSpec` and its
parts `LeaseInit` and `LeaseNext`.

## Runs

Several invariants that speak of one question are conjoined: `Coherent`, `StopKept`,
`ReceiptIsTrue`, `EndIsClean`, `Accounted`, `MarkerHolds`, `RetriesAreHarmless` and
`SpoolIsWhole` are conjunctions of named parts, each with its own comment; one of them in
each module includes its type invariant.

| Run | Shows |
|---|---|
| `lanes` | `LaneExclusion`, `CapacityRespected`, `NoOvertaking`, `PublicationUncancelled`, `MergeReceiptHeld` and `DrainedRunsNothing`, with 3 runs that may be a full gate, a land in its worktree, its merge in another one or work of another repository, owners of two different capacities, clears, a drain and a crash, stop or busy database |
| `serve` | `QueuedIsServed` under `StreamSpec` and one fixed capacity: no endless stream of any repository keeps a queued run waiting for ever that asks for no more than others and stands behind no larger one of its repository |
| `drain` | `DrainCompletes`, with a fault |
| `drain_race` | violated: `DrainedHoldsNothing` |
| `life` | `Coherent` (types, and no process without its running row unless its receipt says that the leaf could not be ended), `PassedIsEarned`, `StopKept` (stop requests decide the verdict and prevent publication), the refinement `JobSpec` and the liveness properties `StopTakesEffect` (unless the receipt records a failed cancel), `EndIsRecorded`, with and without a leaf and with 3 faults |
| `landing` | `Coherent` (types, and the row names the head that is tested), `PublishedIsTested`, `TargetWasTested`, `AvoidedStaysOut`, `SuccessIsLanded`, `SourceKept`, `LandEnds`, with 2 submissions, 2 rounds of preparation, 2 moves of others and a fault |
| `leases` | `BudgetRespected`, `LeasesCoherent`, `OvertakingBounded`, `WaitingIsServed`, `LostIsReclaimed`, with 3 live leases, a budget of 3, requests that need all of it and elastic ones for 1 or 2 tokens |
| `resources` | `ReceiptIsTrue` (no command without what is required, what is called applied is in force, scratch exists, an out-of-memory end is named), `EndIsClean` (what outlives a run is on record), `CancelTakesEffect` (with the same exception as `StopTakesEffect`), for every contract and 3 faults |
| `leaf` | `Accounted` (a live worker's leaf, owner group and metadata stay; populated leaves are listed; nothing is left at the end) and `RunsEnd`, with 3 runs, 4 faults and 3 incarnations of the root |
| `quota` | `ProjectsDistinct`, `Accounted` (running scratch is limited; limits and trees are listed) and `RunsEnd`, with 3 runs in 2 spools, 2 project IDs and 2 faults |
| `recovery` | `MarkerHolds` (a drained spool holds at most what was accepted behind the idle check), `RetriesAreHarmless`, `OnlyProofStarts`, `RecoveryEnds` (unless a proof has passed without enforcement), with 1 job, 2 recoveries of 2 proofs each, a drain and a fault |
| `migration` | `HistoryKept`, `SpoolIsWhole` (the drain survives, but for one that is begun inside a rollback; a rollback stays possible; old gates authorise nothing, but for cleared ones), with 3 runs, 4 migrations or rollbacks, 2 drains and a death |

Bounds. Three runs are the smallest number at which a barrier that runs, one that
waits and later work that might pass both are present; two repositories let the
rotation matter, two worktrees let a barrier and ordinary work run side by side.
Capacities of two units and requests of one and two units make a request wait for
two others. `MaxUnits`, `MaxFaults` and `MaxDrains` cap units, faults and drains; one
fault in `Scheduler` suffices for an owner to be replaced in the middle of anything,
three in `RunLifecycle` allow a crash, a second crash of the owner that adopted the
worker, and a busy database. Run IDs are symmetric in `lanes` and `drain_race` only.
Deadlock is checked in the runs of `Scheduler`, where an owner can always be
started; the other runs switch it off, because what they model comes to an end.
In `serve` the large request shares its worktree with the small barrier, so that it can
hold up what may not; the sequence numbers close up when an ID is used again, as only
their order matters, and IDs are used again while the owner observes. A pass therefore
meets at most as many requests as there are IDs: the code's admission loop has no such
bound (`broker.rs:569`), and requests that end within their own start could keep it from
observing the others.
In `Landing` two moves of others are one that makes the target stale and one in the
worst place afterwards; `Attempts` is 2 instead of 5, as every round is alike and the
last one differs.
Three leases are a head that does not fit, one that passes it and one between them
or one that holds tokens; slots are used again, so that a stream of small requests
never ends.
In `CgroupLeaf` three runs are one that is prepared, one that runs and one that is
cleaned up below the same owner group; four faults allow a call and its undoing to
fail and the broker to die twice; the third root is one that replaces a root that was
itself recovered from. In `ProjectQuota` two IDs for three runs make a spool meet an ID
that another one uses or has left behind. In `Resources` three faults are a failure in
two stages and a crash. In `Recovery` two attempts are one that fails and the last
one, and the second recovery meets what the first has left; the fault is a crash, a
park or a change of the helper. In `Migration` four moves are a
migration, its rollback and both again, with a different baseline.

Fairness. The owner's loop goes on by itself (`OwnerStep`, `StartStep`, `ObserveStep`:
weak). An owner is started when there is none (`AcquireOwner`, `StartOwner`: weak): every
client call starts one and the managed service restarts it. In `Scheduler` every worker
ends, and each pass observes all running rows (`Finish`: strong, because the owner's `pc`
passes by the observation again and again). In `RunLifecycle` no such assumption is made:
only the kernel's delivery of SIGKILL and of the end of file and the launcher's start of a
released command are fair. In `ChildLeases` the broker goes on pumping and who holds tokens
returns them or exits in the end; who only waits may wait for ever. In `Landing` a worker
goes on by itself, its gate ends, and the forge need not ever update its metadata. In
`Resources` and `CgroupLeaf` a broker goes on and is restarted (weak); in `Resources`
SIGKILL takes effect and neither the command nor its descendants need to end, in
`CgroupLeaf` and `ProjectQuota` workers end, since how a run is stopped is the subject of
`Resources`. In `ProjectQuota` a broker's steps are strongly fair: it blocks in `flock` for
the lock of the mount, which every holder releases by returning or dying, and is woken when
it is its turn; nothing ever closes a leftover's files. In `Recovery` the pump is weakly
fair, `Boot` strongly, because a managed broker is restarted between two holds, the holder's
caller ends, and the operator repeats the proof and the completion until one is accepted.
`Migration` has safety only. Otherwise clients are never assumed to act.

## What the code does otherwise than it says

* A submission and a `begin_drain` between the owner's look for live rows and its
  look at the marker leave a drained queue with a queued run (`drain_race`). No
  owner starts on it and no resume is accepted. `DrainedIsEmpty` of `Recovery` excepts
  what was accepted in that window (`late`).

The following came out of modelling too. The properties of the kept runs are stated so
that they hold of the code as it is; where that needed an exception, it is named.

* A run with a cgroup leaf ends although its leaf could not be finished: the failure is
  recorded and the row becomes terminal with processes alive (`broker.rs:1884`), and a kill
  that fails for a stop request is recorded and never repeated (`broker.rs:1645`).
  docs/coordinator.md:213 says that the allocation is held until the complete process
  group is gone, and docs/coordinator.md:1106 that cancelled work becomes terminal only
  after every descendant is gone. `AllocationHeld`, `JobLife` and `EndIsClean` except a
  recorded failure to finish, `StopTakesEffect` and `CancelTakesEffect` a recorded failure to
  cancel.
* A proof that passed without an enforced limit is refused by `complete`
  (`recovery.rs:486`) and is the answer to every further `submit_proof`
  (`recovery.rs:406`): the recovery goes on only after a park. The test
  `a_successful_unenforced_proof_cannot_complete_or_resume_recovery` asks for the refusal.
  `RecoveryEnds` excepts it.
* A land that refuses an avoided commit after a reused gate is recorded as
  `gate-failed` (`broker.rs:78`), although docs/coordinator.md:1081 names the stable code
  `avoided-commit`. After an ordinary gate its report is refused, as the gate's status
  was not recorded yet, and the row says `merge-error`.
* A publication that took effect is handed back as `stale-main` if its answer is lost and
  somebody pushes before the target is read again (`github.py:891`;
  docs/coordinator.md:999).
* A target that is rewritten during the gate to another ancestor of the tested head, or
  fast-forwarded to that head while the request is still open, is published on with the
  same green result (`github.py:798`), although docs/coordinator.md:996 says that a passed
  gate is never reused after either ref moves. `TargetWasTested` says what does hold: the
  tested head contains the target that is replaced.
* A commit made in the checkout while the target is being merged is reset away
  (`github.py:551`; docs/coordinator.md:1003).
* A best-effort cgroup binding that fails to attach drops the backend's state; the
  report of the worker's setup then finds none and ends the broker
  (`broker.rs:1029`), although docs/coordinator.md:273 has the run go on.
* A broker that dies in the cgroup's `cleanup` between the removal of the manifest and the
  save of the row leaves a handle that no later broker accepts (`broker.rs:336`), although
  docs/coordinator.md:279 has the restart clean up. `CancelTakesEffect` and `RunsEnd`
  except a spool on which no broker can start.
* A project-quota allocation whose owner died before the handle was saved is not adopted
  again: the row is interrupted and the allocation stays listed (docs/coordinator.md:580).
* An owner group whose record was not written before a crash, or a record of an earlier
  root without any saved handle, makes every later prepare fail until it is
  removed by hand (`cgroup.rs:1799`, `cgroup.rs:1728`; docs/coordinator.md:60).
* `rollback` reads the maintenance marker before its transaction (`store.rs:3589`); a drain
  that is begun in between is removed with its triggers, although docs/coordinator.md:99
  says that migration and rollback preserve the marker. `MarkerKept` excepts it (`raced`).
* The cutoff of a rollback is the greatest sequence that is left (`store.rs:3655`): after
  a clear it lies below gates that the baseline brings back, although CHANGELOG.md:424
  speaks of every earlier gate receipt. `GatesInvalidated` excepts cleared gates.
* A rollback during an active recovery replaces the metadata that hold the recovery record
  and keeps the marker `recovering`. No module has both.
* A busy database ends the owner when it strikes the reads that `serve` makes itself
  (`broker.rs:488`), although docs/coordinator.md:206 says that the idle check is retried.
* A queued run that exceeds the capacities of a later owner waits for ever, since
  requests are compared with capacities only at submission (`store.rs:2671`). `serve`
  therefore has owners of one capacity.

A large request may wait for ever beside smaller ones that keep fitting, and so may what
stands behind it in its repository; docs/coordinator.md:226 says so, and `QueuedIsServed`
is about the others.

A backup that a dying migration left unfinished makes every later `migrate` refuse
(`store.rs:3266`) until it is removed; that is what the tests ask for.

## Proofs

`SchedulerProofs` proves, for any set of runs, repositories, requests and capacities
and any bounds, from the assumption `ConstantsOK` alone: `TypeCorrect`,
`LanesAreExclusive`, `CapacitiesAreRespected`, `ReceiptsAreHeld`,
`PublicationIsUncancelled`, `DrainedQueueIsIdle` (invariants) and `NothingOvertakes`,
`VerdictsAreFinal` (action properties).

The inductive invariant `IndInv` adds four parts to the properties. `PickHolds`: while
the owner's pick is queued, the decision still holds, since rows that are inserted
later have larger sequence numbers (`SequenceBelowNext`) and only the owner itself
adds running rows. `NothingLiveSeen`: an owner that saw no live row is the only one
who could start one. `WaitingUncancelled`: a queued row carries no stop request, so
that none is inherited at admission. The steps go row by row: a lemma lists what a
step may do to one row, the lemmas about allocations rest on the monotonicity of
cardinality.

`ResourcesProofs` proves `ReceiptCanBeBelieved` and `LeftoversOnRecord`, for every set of
contracts and any number of failing calls and crashes, from `ResourcesConstantsOK`. The
properties speak of the receipt in the row, the broker works on a copy, and the truth is
in the kernel: the invariant `ResourceInv` ties the three together at every place of the
broker. `Receipts` says when the row and the copy agree; `Leftovers` that each of them holds
or names every allocation (one that was made before the first save is unknown to the
row, and then there was no worker). `Preparation` follows a start: what is required
is provided until the release, what is applied is allocated and the scratch that the worker is
told about is its own; the fallback after a failed attach needs that the contract does not
require the cgroup. From this the release finds everything in force (`InForceKeeps`), and no
step changes it while the command runs (`WhileRunning`), not even a crash. `Leaf` says that
a leaf that is held reaches every process of the run, so that finishing it ends them or
leaves a failed stop in the receipt. `OomChain` carries the kill that the leaf counted into the
receipt before the leaf goes; it holds only of a broker that started the worker itself,
since another one calls the run interrupted. `Workers` and `Places` say what the broker's place
means for the worker, the row and where a cancellation or a cleanup returns to.

The same module proves `LeaseTypes`, `BudgetIsRespected`, `RowsAreCoherent` and
`OvertakingIsBounded` of `ChildLeases` for any budget, requests and finite set of slots, from
`LeaseConstantsOK`. The inductive invariant `LeaseInv` adds that the waiting requests
are in a strict total order, so that there is one head, and `CreditCovers`: the requests
at or before w that were not passed yet are at most as many as w's credit. A grant
that overtakes w passes the head, which is w or ahead of it, for the first time;
that uses up one of them.

`RunLifecycleProofs` proves `AllocationAlwaysHeld`, `PassedAlwaysEarned` and
`StopAlwaysKept` for any kind of run, with and without a leaf, and any number of faults, and
`RunImplementsJob`: the detailed run implements `JobLife`, action by action, under the
mapping `Job`. The invariant follows the one chance to start the command: a worker can be
released only by the owner that spawned it (`StartInv`, `PipeInv`), an identity is in the
row before that, so that a later owner either finds the worker or knows that its pipe is
closed, and the command begins once (`RanInv`). `SuccessInv` says what a success means
wherever it is kept, in the exit status, the report, the owner's decision; `FinishInv` that
a verdict is only decided when nothing can still start, and nothing runs or a failed finish
of the leaf is recorded; `PublishInv` that a land publishes only in the phase that refuses a
stop.

`LandingProofs` proves `AlwaysCoherent`, `AlwaysTested`, `TargetAlwaysTested`,
`AvoidedAlwaysOut`, `SuccessAlwaysLanded` and the action property `SourceAlwaysKept` from
`LandingConstantsOK`, for any number of rounds, of moves of others, of faults and of
submissions. The graph only grows (`Grown`), reachability is closed (`GraphInv`), so what is
known of a commit stays known. An update is `Good` when its head was tested, contains the
target that it replaces and brings nothing else: the invariant has it of every update
that was applied, of the one that the worker sends and of one that still waits at the forge,
because the comparison that the forge makes says nothing of a test. `TestedInv` carries the
gate's verdict to the publication. The verdict is about what was in the checkout
when the gate started; it is about the head only if the checkout is still on it and
clean at the last look, and a checkout that has left its head does not come back to it
(a commit of the user is a new one, `BesideKeeps`).

`ProjectQuotaProofs` proves `ProjectsAlwaysDistinct` and `AlwaysAccounted` for any spools,
runs, projects, limits and faults. `RunInv` says of each run what its broker's place means;
under the lock of the mount a project that was free stays the run's own (`InstallInv`),
and limits are cleared only when nobody is charged (`RemoveInv`). A step is argued once
for the run it is about and once, by `Frame`, for all others.

`CgroupLeafProofs` proves `AlwaysAccounted` for any finite set of runs, any faults and roots.
Its invariant says which group the record names at each step of prepare (`RecordInv`), that a
live worker has its handle (`LiveHasHandle`), and that no more owner groups were made than
runs have tried (`MadeInv`, which bounds the handles). That nothing is left at the end is
only claimed of brokers that met no fault; `FaultFree` is what such a broker knows.

`RecoveryProofs` proves `MarkerAlwaysHolds`, `RetriesAlwaysHarmless` and the action property
`OnlyProofEverStarts` for any work, proofs, drains, attempts and faults. The owner admits
what it picked in an earlier transaction: `PickIsEligible` is what is still true of a pick
then. `IdleIsBounded` says that behind the idle check of a broker nothing is live but what
was accepted since (`late`), which it takes into the mark. `AttemptsCounted` bounds the
proofs by the attempts, `AnswersRecorded` ties every answer of `complete` to the recorded
result.

`MigrationProofs` proves `HistoryAlwaysKept` and `SpoolAlwaysWhole` for any drains, runs, moves
and deaths. A backup holds ended rows only (`BackupsAreDone`), the copy that a migration has
made is the table as it still is (`MigrationGoesOn`), and what a rollback has read of the marker
is the drain in force unless one was begun since (`RollbackGoesOn`). That the cutoff bounds the
sequence numbers rests on the lemma that a bounded set of numbers has a greatest one,
which is proved from the well-foundedness of the order of the naturals.

The assumptions are the named ones of the modules: types and finiteness of the constants,
bounds that are numbers, and values such as `NoRun` that are no run. Each `THEOREM` rests on
an inductive invariant (`IndInv`, `ResourceInv`, `LeaseInv`, `IInv`) that also holds in TLC
on the instances of the runs (`CgroupLeaf` with one fault less; sets of all sequences, which
TLC cannot enumerate, replaced by the types of `TypeOK`).

Every invariant and every action property that a passing run checks is proved. Only
model-checked: liveness (`QueuedIsServed`, `DrainCompletes`, `StopTakesEffect`,
`EndIsRecorded`, `WaitingIsServed`, `LostIsReclaimed`, `LandEnds`, `CancelTakesEffect`,
`RunsEnd`, `RecoveryEnds`), which is beyond the prover, as it has no rules for fairness
and `ENABLED`. `drain_race` is a counterexample and has no theorem.

## Not modelled

* The values of the controllers, samples, measurements and block devices of the cgroup
  backend, and the probe of the kernel: data and inspection. A setting that cannot be
  verified is a failing `Configure`.
* The system calls of the launcher (namespaces, mounts, privileges): one step that
  succeeds or fails.
* Host preflight and installation: inspection of the host and a script of file operations
  under the hold that `Recovery` models.
* Autostart of brokers by clients: a race for one `flock`, which `Scheduler` takes as
  given, and polling with a deadline.
* Reuse of a PID: a process is identified with its run.
* In `Migration`, a client whose transaction commits after the owner that it looked for has
  gone, and that the copy of the rows of protocol 1 (`store.rs:3339`) lets the next
  sequence number follow those that are left.
* The file of avoided commits, parsing and validation of stored data and configuration,
  display, packaging, download of releases.

## Plan

1. A composition of `Migration` and `Recovery` over one marker.
2. PID and start token in `RunLifecycle`.
