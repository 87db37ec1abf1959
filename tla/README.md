# A verification development for device-status-monitor

The program (Go, under `src/`) probes network devices over TCP, decides from runs of
results when a device is down or up again, keeps an incident table, mails alerts through a
durable outbox, and keeps a probe history that a nightly pass rolls up and prunes. It runs
as a Windows service with one SQLite file; a desktop client talks to it over HTTP.

Paths below are relative to `src/internal/` unless they begin with `src/`.

## Inventory

| part | state it keeps | operations | what makes it correct |
|---|---|---|---|
| device state machine (`state/state.go`) | none; a pure function on a device's snapshot | `Apply` | status follows from the history by the two thresholds; outages start at the first failure of their run; one DOWN, then at most one RECOVERY |
| evaluator (`core/evaluator.go`, `store/incidents.go`) | `App.snaps`; rows of `devices` and `incidents` | `runEvaluator`, `evaluate`, `dispatch`, `send`, `allowMail`; `LoadSnapshots` at the start | the two tables and the snapshots agree, through crashes and failed writes; no outage announced twice, no recovery of one not marked as announced |
| collapse buffer (`core/digest.go`, `notify/digest.go`) | batches by group and kind; `throttledAt` | `queueAlert`, `flushAlerts`, `flushGlobal` | no alert lost or doubled; a bound on the wait; the hourly cap holds and says so |
| outbox and worker (`store/outbox.go`, `notify/`) | table `alert_outbox` | `Enqueue`, `DueAlerts`, `drain`, `Send`, `MarkSent`, `MarkFailed`, prune | late instead of never; no duplicate without cause; the backoff schedule is kept |
| heartbeat writer (`core/core.go`, `store/heartbeats.go`) | a bounded channel, a batch, table `heartbeats` | `record`, `runWriter`, `flushRemaining` | each heartbeat in one place, none stuck in memory, none lost by a clean stop |
| janitor (`rollup/janitor.go`, `store/rollups.go`) | tables `rollups_daily`, `heartbeats`, `incidents`, retention settings | `Once`: aggregate, then three prunes, VACUUM | the history shown does not change when raw rows become a rollup; nothing pruned before it is aggregated; the backlog is worked off |
| uptime queries (`store/uptime.go`, `store/stats.go`) | none | `deviceDays`, group and dashboard figures | agree with the probes, whichever table they read |
| scheduler and probes (`scheduler/`, `probe/`) | a loop per device, a semaphore, the results channel | `Apply`, `loop`, `probeOnce`, `Stop` | one loop per device, under its present settings; stop ends them all |
| engine (`core/core.go`, `core/engine.go`) | the effective settings, run context, goroutines | `Start`, `Reload`, `runRefresh`, `CheckNow`, `Shutdown` | an edit is never missed by the refresh; the order of the shutdown |
| API for devices and groups (`api/devices.go`, `api/groups.go`, `store/devices.go`, `store/groups.go`, `model/effective.go`) | tables `devices`, `groups` | create, PATCH, pause, delete, bulk | concurrent edits are not lost; a pause takes effect |
| update checker (`update/`) | last release and its ETag, the staged installer | `Run`, `Once`, `Download`, `Install`, `reconcile` | a release is offered until installed; what is launched is what was verified |
| event hub (`api/hub.go`, `api/events.go`) | subscribers with bounded queues | `Publish`, `Subscribe`, stream | a slow client learns that it missed something |
| server plumbing, secrets, logging, service wrapper, desktop client | little | | not candidates: see the last section |

**How they interact.** Scheduler loops send results on a channel to one *evaluator*
goroutine, which owns the snapshots, writes the device and incident rows, puts a heartbeat
in the *writer*'s channel, and parks alerts in the *collapse buffer*. The same goroutine
flushes the buffer on a ticker and inserts mails in the *outbox* table; the mail *worker*
polls that table. The *janitor* rewrites history while all of that goes on. API handlers
edit tables and poke the engine through `Reload`, a channel of length one that a refresher
drains. `Shutdown` cancels one context that everything shares, waits for the goroutines
with a time limit, drains the heartbeat channel and closes the database. All writes go
through one SQLite connection and reads through others, each statement on one snapshot, so a
statement or transaction is atomic and nothing larger is.

**What is hard to test here**, and so what the properties are about: a stop or a crash
between two statements of one evaluation; `select` choosing a ticker after the context is
cancelled; statements that fail one by one; the time limits of the buffer under trickles of
alerts and edits of the window; a mail accepted but not recorded; mails the server will
never take; a day that is rolled up, pruned and still written to; a probe loop that lives
beside the one that replaced it; an edit that lands between the reads of a refresh; an
installer that is discarded, replaced or overtaken while it waits to be started.
`PROJECT.json` lists each hazard at its line with the properties that watch it.

## Modules

`DeviceState` is pure operators. `DeviceMachine` and `Evaluator` are two systems built on
it. `AlertBuffer`, `Outbox`, `HeartbeatWriter`, `Janitor` and `UpdateChecker` are one system
each. `WorkerSet` is what the scheduler promises: `Scheduler` implements it with goroutines,
and `Monitor`, which goes from an API request to the probes, uses it in the scheduler's
place. Every `MC…` module only names the model values and small sets of its run.

* **DeviceState** — `Apply(snapshot, effective, result, reminder, now)` as in `state.go`:
  the same branches, one operator per branch, returning the snapshot and the transition.
  Instants are naturals, 0 is Go's zero time; incident id 0 is "none".
* **DeviceMachine** — one device, no failures: `Probe` folds a result and writes the incident
  row and the mail the transition asks for. `log` is a history variable. The properties
  compare the machine with definitions that read the whole log (`DownAfter`,
  `ExpectedOutage`), so that the incremental counters are judged by something that has none.
* **Evaluator** — several devices. `Take` is a result received and folded; then each
  database call of `evaluate` and `dispatch` is an action (`OpenIncident`, `CloseIncident`,
  `SaveState`, `DispatchDown`, `MarkIncidentAlerted`, `DispatchRecovery`,
  `DispatchReminder`), in the order of the code, each able to fail when the database fails
  or the context is cancelled. `work` is the goroutine's program counter and locals;
  `snaps` and `buffer` die with the process; `rows`, `incidents`, `outbox` do not. `Stop`
  cancels the context in the middle of anything, `FinalFlush` is the `ctx.Done` branch,
  `Crash` may strike between any two steps, `Start` is `LoadSnapshots`. Which of these
  faults may happen is chosen at the start of a behaviour (`faults`), so that a property can
  say which faults it withstands. Two history variables name the devices a fault befell: `torn`, one row
  of a transition is on disk and the other is not; `unsaved`, the evaluation went on to its mail although
  one or both rows were not written, as `evaluate` does after a failed call.
* **AlertBuffer** — the batches, the group and the global digest, recipients, the cap and
  its notice, in time. One `Tick` is a firing of the flush ticker. `Queue` is a DOWN or the
  RECOVERY that answers it; `RecoverQuietly` is a recovery nobody is told of, since notifications were
  switched off meanwhile, so that a device may have two DOWN alerts in a row (`quiet` is a history
  variable); `SetWindow` is an operator's edit; `Restart` is a graceful stop
  and a start; at a `Turn` the database begins to refuse writes or takes them again, so that inserts of
  mails (`dropped`) and of the notice (`unsaid`) fail. Batches flushed together go out in any order, as Go ranges over a map.
* **Outbox** — rows as a queue of due mails (`ready`) and mails with ticks to wait (`wait`),
  which is all of `next_attempt_at` that matters; the worker's pass with its program
  counter; the process up, stopping or down; the mail server and the configuration going
  away and coming back. SMTP is external: accepted, refused, or accepted with its reply lost.
* **HeartbeatWriter** — the channel, the batch, the table (how many rows it has of each heartbeat) with
  its foreign key, device deletion (heartbeats of a deleted device still come, from results under way),
  and the shutdown including its time limit.
* **Janitor** — the pass one statement at a time between probes: candidates read once,
  the oldest first, a limit per pass; a rollup per candidate; DELETEs in chunks; then
  rollups and incidents. Probing, flushing, retention edits, failed statements, stops and
  days without the service come between any two of them.
* **WorkerSet** — the set of devices probed, each with one timing: what `Apply` was last given,
  and empty for good after the stop.
* **Scheduler** — each device's goroutines (`loops`), with their program counter in `loop` and
  `probeOnce`, and the scheduler's table of them (`workers`). `Apply` cancels and starts loops;
  a cancelled loop lives on until a `select` of its own notices. `TakeSlot`/`LeaveSlot` and
  `Publish`/`GiveUp` are the two cases of a `select` each, `Probe` is a dial and `classify`,
  `CheckBegin`/`CheckEnd` is `CheckNow`, which shares the slots. `Cancel` and `Stop` are the two
  steps of the shutdown; a refresh in flight may call `Apply` between them. `asked` is a history
  variable, the argument of the last `Apply`: the refinement compares the goroutines with it.
* **Monitor** — the tables `devices`, `groups` and the default timing, and every handler that
  writes them, up to its `Reload`. PATCH is two actions, `PatchRead` and `PatchDevice` or
  `PatchGroup`, since the code reads and writes without a transaction; every other handler's
  write is one statement or transaction. `Reload` puts the token in the channel of one.
  `RefreshBegin`, `RefreshGroups`, `RefreshDevices` are the three reads of `LoadEffective` on
  their own snapshots, `RefreshApply` hands the unpaused devices to `WorkerSet`. `Evaluate` opens
  and closes incidents of devices the engine knows, also from results queued before an edit.
  `excused` is a history variable: an edit waits for the ticker, because a read failed.
* **UpdateChecker** — `reconcile` at startup in its steps, which hold no lock, or its early return when
  the settings cannot be read; a pass (`Once`, then `stage` and its sweep) under `passMu`, from the loop
  or the API; `Download`, which picks its release outside the lock; `Install`, and `Launch` two seconds
  later, outside the lock. A discard is two steps wherever it happens, the files (`discardStaged`) and
  then the record of them (`ReconcileForgets`, `Discarded`), and a crash may come between. The settings
  rows, the staging directory and running installers outlive the process. Releases come and are pulled; a
  save, the read at startup or the removal of a file fails; a file is damaged; an installer succeeds or
  fails and restarts the service, or ends and leaves it running (`deserted`, history); and a newer version
  may be installed by hand. `tidy`, history too, is lost at a discard, at damage and at a failed save in
  `stage`, and comes back when a record is cleared or its file is checked under `passMu`.
* **…_proofs** — theorems about the module of that name.

A comment `Mutant:` marks an operator that no specification uses: it is a plausible bug in
the definition that follows it, and `PROJECT.json` names the property that catches it.

## Runs

| run | bounds | what it shows |
|---|---|---|
| `device_machine` | 6 probes, 3 settings switched at every probe | `Apply` is hysteresis: status, outage rows, mails and reminders are those of the history |
| `evaluator` | 2 devices, 5 results, 2 process ends, three fault models | the inductive invariant of the proof; the tables agree; no second alert for an outage whose rows were written; no recovery of an outage whose row is not marked as announced |
| `alert_buffer` | a group of 2 and 2 devices of no group, 3 outages, 4 firings of the ticker, cap 2 an hour of 2, 1 edit, restart or turn of the database | nothing lost or doubled on the way to the outbox, the wait is bounded, the cap and its notice |
| `outbox` | 3 mails, one refused for ever; polls of 2; 2 backoff steps; 1 fault | no mail forgotten or doubled, backoff respected, and every mail the server would take arrives |
| `heartbeat_writer` | 5 heartbeats of 2 devices, channel and batch of 2; 1 fault | each heartbeat in one place, none left in memory while the process runs |
| `janitor` | 3 days of 2 probes and the start of a fourth; windows of 1 and 2 days; 1 day a pass; 1 fault | shown history is true; rows pruned too early only after a pass that fell behind; the janitor catches up |
| `scheduler` | 1 device with 3 goroutines, 2 timings, 2 slots, a channel of 1, 1 check-now | one loop that counts, one late verdict at most, the stop returns; the loops are what `Apply` was last given (`WorkerSet` is implemented) |
| `monitor` | 1 device, 1 group, 2 timings, 2 concurrent requests, 2 edits, 3 instants, 1 failed read | no edit is missed, pauses hold, an open incident is not forgotten, the probes settle on the tables |
| `update_checker` | 3 versions, 2 changes of the release, 1 install at a time, 1 restart, 1 fault | what is recorded is on disk, what is shown is going on, what is started is newer and checked |
| `evaluator_stop` (violation) | 1 device, 1 stop | a stop can lose a parked alert |
| `outbox_gives_up` (violation) | as `outbox` | a mail given up on is retried for ever |
| `update_download` (violation) | as `update_checker`, 1 request | a download asked after a start finds no release |

Seven further configurations each show a trace of a finding: `MCAlertBufferOrder.cfg`
(`DownBeforeRecovery`), `MCAlertBufferFlap.cfg` (`CompleteIsEveryone`), `MCAlertBufferNotice.cfg`
(`EveryoneIsTold`), `MCEvaluatorReAlert.cfg` (`RestartResumes`), `MCHeartbeatWriterStop.cfg`
(`StopKeepsHeartbeats`), `MCMonitorPatch.cfg` (`PatchLeavesPause`) and `MCUpdateInstalling.cfg`
(`InstallingEnds`). TLC is expected to report the property violated.

A module's `TypeOK` is an invariant of its run, or it is proved for all values of the constants:
all are proved.

**Why the bounds are enough to be interesting.** Five or six probes hold two complete
outages, one of them with a threshold of two, or one with reminders at an interval of two, and
a restart in either. Four devices are the fewest that have both a group digest (two of a group) and a
global digest (three pending). Three mails against polls of two make the refused one
compete for the poll's limit. A channel and a batch of two reach "full" in both, and five
heartbeats fill both and overflow. One device-day per pass and a one-day window make the
janitor fall behind.

The scheduler's devices meet only in the slots and the channel. Three goroutines of one device,
two of them cancelled and lingering, with a check-now already compete for two slots and a
channel of one, and fill both; every property but the stop speaks of one device at a time, and the
proofs cover any number. Two edits in two requests make every pair of handlers interleave with
each other, with the reads of a refresh and with its failure; a third timing or a second group
would add a move between groups and nothing that can be lost on the way that one group and
none do not. Three versions are the running one, a staged one and one that overtakes it. One fault and
one restart make a discard cut in two meet the startup after it.

Every constant scaled down is named next to its true value in the
CONSTANTS of its module. Counters without bound in the code are bounded by a constant in a
guard (`MaxNow`, `MaxRestarts`, `MaxOutages`, `MaxEdits`, `MaxSamples`, `MaxFaults`,
`MaxFailures`, `MaxLoops`, `MaxReleases`) or saturate (`CountCap`, one above the
last value that makes a difference).

**Deadlock.** `outbox`, `janitor`, `monitor` and `update_checker` check it: the worker, the pass,
the refresh ticker and the update loop always have something to do. A scheduler that was
stopped has nothing left to do. In the others the clock or the supply of heartbeats is bounded,
and behaviours end there.

**Symmetry** is used for devices in `evaluator` and for the devices within a group in
`alert_buffer`, where no property is temporal and no definition chooses among devices.

**Fairness.** Safety runs assume none. `Outbox` has weak fairness of each step of the worker
and of time: the goroutine runs, its ticker fires, each `Send` and database call has a time
limit. Nothing is fair about the server, the configuration, starts and stops: `AlertArrives`
assumes in its statement that they settle. `HeartbeatWriter` has weak fairness of `Take` and
of the ticker's flush: either case of the `select` is taken if it stays ready, since Go
chooses at random. `Janitor` has weak fairness of the pass as a whole (`Run` calls `Once` on
a ticker for ever) and of the writer's flush; a stop in the middle of a pass is a fault, and
there are finitely many of those.

`Scheduler` has weak fairness of each step of a loop that needs nobody else (a dial times out, a
free slot is taken, a result is handed over), of `Stop` and of `CheckEnd`; and strong fairness of
`Exit`, because the loop's `select` between the ticker and `ctx.Done` is a random choice made
again and again. The evaluator is not assumed to read results. `Monitor` has weak fairness of
the refresh, whose ticker fires for ever, and of each handler's own `Reload` after its write;
failed reads are finitely many, edits too. `UpdateChecker` states safety only.

## Findings

Each quotes the code in `PROJECT.json`. Three have a run that shows the trace, seven more one of the
configurations above; the others show as an exception that a property needs (`behind`,
`spoilt`, the premise of `CatchesUp`, `tidy`), without which TLC finds them, or were met in
translating the code.

1. A stop while alerts are parked can lose them: the ticker may win against `ctx.Done`, and
   the flush then runs on a cancelled context (`core/evaluator.go:38`).
2. A RECOVERY mail can precede its DOWN mail, the two waiting in different batches
   (`core/digest.go:134`).
3. A mail past its last retry stays due, first in the queue, and is sent at every poll
   (`store/outbox.go:98`).
4. `runWriter` writes its last batch on the context that was just cancelled (`core/core.go:426`).
5. Raw rows are pruned by age even when their day was not aggregated (`rollup/janitor.go:123`).
6. With `retention.raw_days` above `retention.rollup_days`, days between the windows are
   candidates for ever and can starve the new ones (`rollup/janitor.go:195`).
7. A rollup is never corrected, although a comment says so: an outage detected after
   midnight or a late heartbeat leaves it wrong (`store/rollups.go:61`).
8. A download asked of a process that has just started fails: the check it makes is answered 304,
   which leaves no release in memory (`update/checker.go:403`).
9. PATCH writes back every column it read, and so undoes a pause made in between
   (`api/devices.go:211`).
10. A staged installer that is gone is not fetched again, as its log line says, since the ETag
    is kept (`update/checker.go:265`).
11. `reconcile` runs outside `passMu` and can discard what a pass just staged
    (`update/checker.go:214`).
12. After an upgrade, a release still newer than it is forgotten until the next one
    (`update/checker.go:243`).
13. A group's batch of DOWN alerts counts as complete by its length, so that a device that
    flaps stands for one that is up (`core/digest.go:137`).
14. The engine's set holds paused devices, against a comment; "check now" probes them
    (`api/devices.go:306`).
15. A result that crosses the threshold while the service stops is mailed by the final flush, but neither
    of its rows is written, so that the next process announces the same outage again; a failing
    database does the same (`core/evaluator.go:112`).
16. The notice that mail is withheld reaches only the recipients of the mail that hit the cap, and then
    silences itself for everybody (`core/evaluator.go:253`).
17. An installer that ends before it has stopped the service leaves "installing" on the page
    (`update/apply_windows.go:96`).

## Proofs

All theorems hold for every value of the constants that meets the named assumptions of the
module (types, and bounds that are natural numbers): any number of devices, groups, mails,
goroutines, requests, versions and faults.

| module | theorems |
|---|---|
| `DeviceMachine_proofs` | of `Apply`: `ApplyType`; `ApplyCases`: the five things a result can do, field by field; `ApplyShape`: which transitions go together; of the machine: `TypeCorrect`; `AnnouncedFirst`: `Spec => []RecoveryFollowsDown`; `StatusCorrect`: `Spec => []StatusIsHysteresis`; `OutagesCorrect`: `Spec => []OutagesMatchHistory`; `RemindersSpaced`: `Spec => []ReminderSpacing` |
| `Evaluator_proofs` | `Invariance`: `Spec => []IInv`; `TypeCorrect`; `TablesAgree`: `Spec => []DiskAgrees`; `RecoveriesAnnounced`: `Spec => []RecoveryOnlyIfAlerted`; `NeverReAlerts`: `Spec => []NoReAlert` |
| `AlertBuffer_proofs` | `TypeCorrect`; `AlertsKept`: `Spec => []EveryAlertOnce`; `HeldBriefly`: `Spec => []HeldAtMostMaxHold`; `SiteOutageAtOnce`: `Spec => []SiteOutageGoesAtOnce`; `BudgetKept`: `Spec => []BudgetHolds`; `WithheldAnnounced`: `Spec => []FirstWithheldIsTold` |
| `Outbox_proofs` | `TypeCorrect`; `NeverForgotten`: `Spec => []NothingForgotten`; `DuplicatesExcused`: `Spec => []NoDuplicateByStop`; `AttemptsCounted`: `Spec => AttemptsAreSends`; `BackoffKept`: `Spec => BackoffRespected` |
| `Janitor_proofs` | `TypeCorrect`; `PrunedInOrder`: `Spec => []PrunedOnceRolledUp`; `HistoryCorrect`: `Spec => []HistoryIsTrue` |
| `Scheduler_proofs` | `TypeCorrect`; `OneLoopEach`; `OneLate`; `Implementation`: `Spec => ImplementsWorkerSet` |
| `Monitor_proofs` | `TypeCorrect`; `IncidentsKnown`: `Spec => []IncidentNotLost`; `EditsSeen`: `Spec => []NoMissedEdit`; `PausesHold`: `Spec => []MaintenanceHolds`; of `HeartbeatWriter`: `WriterTypes`; `HeartbeatsPlaced`: `Spec => []OnePlace` |
| `UpdateChecker_proofs` | `TypeCorrect`; `EtagCorrect`; `ShownStateCorrect`; `StagedCorrect`: `Spec => []ReadyIsStaged`; `NeverDowngrades`: `Spec => OnlyNewerInstalled` |

`DiskAgrees` says: of a device whose transitions all reached the disk whole, the row says DOWN
exactly when there is one open incident, and never are there two.

**DeviceMachine.** Everything rests on `ApplyCases`, which says field by field what `Apply` returns: the result is ignored, counted, ends the outage, begins one or goes on
with it. `StatusCorrect` adds that the snapshot's two counters are the runs of failures and
successes at the end of the log (`Counters`). The definitions that read the log need no induction
over it: it grows by one entry a step, a run at the new end is the old one and the new entry or
empty (`RunStep`), and what the definitions say of the older entries stays as it was
(`HistoryUnchanged`), so that the value at the new end follows from that at the old
(`ProbeHistory`).

That a recovery answers an outage announced before is not inductive: a mail
is decided from the snapshot's flags. The invariant adds that ids in the snapshot and in the mails
name rows that exist, so that the id of a new row is in no mail; and that the mails say of the
snapshot's open incident what the snapshot says, a DOWN if `alertSent`, no RECOVERY yet.
`RemindersSpaced` adds that the open row and the snapshot agree (`OpenRow`), that mails are of
the past (`MailTimes`), and that the snapshot's `lastAlertAt` is no earlier than any mail of its
incident (`LastAlert`): that is the field a reminder is decided from.

`OutagesCorrect` compares a table kept as one goes with a definition read off the whole log. Its
invariant `History` says that the run of failures now counted began where the snapshot says
(`StreakStart`), that the log is in the order of time and no two rows are of one instant, that the
snapshot's open incident is the row of the outage not yet ended (`OpenOutage`), and the claim
itself (`Matched`). A probe then leaves the outages as they were, adds one at the end, or ends the
last (`NoOutageChange`, `OutageBegins`, `OutageEnds`); an old outage keeps the form the definition gives it,
because the entries it is read from do not change when the log grows (`ExpectedKept`).

**Scheduler.** `OneLoop` is inductive with the types: it says of the loop the scheduler knows that it
lives, and of every other that it is told to stop. `OneLate` adds for each loop where its late
verdict can still come from (`Spent`): a dial begun before the cancellation, of which there is one.
For the refinement, the mapped
`asked` is the argument of the last `Apply`, kept as history, and `probing` the loops not on their way
out. That the two are equal needs, besides `OneLoop`, that the table of workers is what was asked
(`Obeyed`): a device new, changed, gone or as before is told apart rightly by `Starts` and `Ends`
(`ApplyObeys`), and no step of a goroutine undoes it. Then `Apply` maps to `WorkerSet`'s `Apply`, `Cancel`
to its `Stop`, and every step of a goroutine to a stutter: a loop that is live neither ends nor changes
its timing.

**Monitor.** That the engine knows of exactly the open incidents needs, beside the types, that ids
of deleted rows are not given out again (`used`): a device created anew must not meet the
snapshot of another, and that what the engine evaluates has a snapshot, which `Known` provides.
Pruning the snapshots of devices that left the effective set, which a comment in `refresh` warns
against, breaks it; that is its mutant.

That no edit is missed rests on a second invariant, `Flow`. It says of every place the refresher may be
in that what it has read so far is not stale, unless something is pending that a later refresh
will see: a token, a request between its write and `Reload`, or an edit left to the ticker
(`Arriving`). Every write makes something pending except `CreateGroup`, which asks for no refresh;
`StrangerResolvesNothing` shows that it needs none, because the foreign key keeps every device in
a group that is there (`MembersOK`) and a new group has a new id. `MaintenanceHolds` adds `Handed`,
that between refreshes the scheduler probes only what the effective set let through, and that
`Resolve` takes the later pause.

**HeartbeatWriter.** Its proofs end `Monitor_proofs`, which names the module as an instance (`W`); what
the module assumes of its sizes is a hypothesis of its two theorems. `OnePlace` counts how often a heartbeat is in
each sequence and table. The invariant (`PlacesInv`) says the same without counting: no
heartbeat is twice in the channel or the batch, the table has at most one row of it, and exactly
one of the six places has it once it is recorded, none before. A transaction then moves its whole
batch to the table or to the failed (`InsertEffect`), and whatever moves leaves the rest alone
(`Moved`): the writer's flush and `flushRemaining` are both that step, and they cannot meet, because a
channel cut in two has nothing in both halves (`CutOnce`).

**UpdateChecker.** `EtagNamesLatest` needs that a pass still asking carries the ETag of the
database (`AskedWithEtag`): what it saw when it began is what it compares the answer with, and
nobody else writes the ETag meanwhile, since passes exclude each other. `ShownStateIsReal` is
inductive with the types, which say at which steps a pass may be. `StagedInv` carries the last two.
While `tidy`, a fetched file stays until it is recorded and swept around, because `passMu` is held
(`FetchedIsThere`), and the sweep never takes the recorded one (`SweepsOthers`); what is being staged is
newer (`StagingNewer`); an installer left over from before a start is one that `reconcile` is still
dealing with, or could not deal with (`LeftoverSeen`), so that it is gone when the loop begins after a
startup that worked; and an installer about to be started is as it was checked or gone, and newer if it
was asked for after such a startup (`LaunchesChecked`). This is what makes up for starting it two seconds
after `passMu` was released. `OnlyNewerInstalled` is claimed without `tidy`: no discard cut in two and no
failed save leads to an older or a damaged installer.

**Evaluator.** `DiskAgrees` is not inductive: it speaks of two tables; what is written to them comes
from the snapshot, from the transition held in `work` and, after a restart, from the tables
again. `IInv` therefore adds

* `Halted`: with the process off no evaluation is in progress;
* `SnapsOwned` and `WorkOwned`: incident ids held in memory are those of rows of the same
  device, and an evaluation is at a step its transition asks for;
* `Sound(d)` for each device that is not torn: the tables agree except between the two
  writes of a transition; and while the process runs, between evaluations the snapshot has
  the status and the one incident of the tables (`InSync`), while in an evaluation of `d`
  each step finds what the previous one left (`BusyInSync`).

`torn` is what makes this true and provable at once. It is a history variable: the devices
of which one write of a transition reached the disk and the other did not. The model adds a
device to it in the step that tears it, so that `Sound` is claimed of the others in the
presence of every fault. The `evaluator` run checks `IInv` itself, and the proof has a lemma
per action for types, for ownership and for soundness.

That a recovery is announced only for an outage whose row is marked as announced (`RecoveryOnlyIfAlerted`;
the mark is made before the DOWN mail leaves the buffer, and says no more than that) adds, for each
device that is not torn, that a snapshot whose `alertSent` is set names a row whose mark is set too
(`Remembered`), also after a restart has read it back, and that an evaluation about to write the row
of a new outage will set the mark if the snapshot has it (`Carries`). The recovery mail is decided
from the snapshot, and so names a row with the mark.

`NoReAlert` is claimed under every fault model, graceful stops and failed calls included, of the devices
none of whose transitions was mailed with a row missing (`unsaved`). The invariant has a half for each
kind of mail. Recovery mails are of resolved rows, snapshots hold unresolved ones, and the evaluation that resolves a row is the
one that announces it (`RecoveredOnce`). And the first failure of every outage announced so far is
earlier than that of the streak now counted, in the snapshot and in the row that a restart reads
(`DownOnce`), so that a DOWN mail is of an outage not announced before.

**AlertBuffer.** A firing of the ticker sends any number of mails in any order, through folds. A fold
over 1..n is a function on the subsets of 1..n, chosen as one that satisfies an equation; `FoldExists`
shows that there is one, and `FoldStays` that what every step keeps holds after the last. With that the
cap is a matter of one mail, which is suppressed, queued, withheld, or withheld with a notice
(`SendCases`). `Good(t)` is what every one of them keeps:

* rows are of the past, and `throttledAt` is the instant of an alert that was withheld and answered, by a
  notice to its recipients or by an insert that failed (`NoticeStands`), which is why every alert withheld
  later within the hour has one such behind it (`Explained`);
* no hour has more than `MaxPerHour` rows other than notices, whichever instant it begins at
  (`InBudget`): the code counts the hour before now, and every row of an hour that the new row
  falls in is a row of the hour before it.

How long an alert is held needs that the first of a batch is its oldest and has not waited `MaxHold`
(`Waits`); that a site outage goes at once, that a batch as long as its group got its last alert just
now (`Fresh`). Only finitely many batches are pending, so that "any order" is a sequence of all of
them; nothing is assumed about the number of devices or groups.

`EveryAlertOnce` speaks of batches, outbox, suppressed and withheld alerts at once. Its
invariant names an alert by device, kind and number and says that it has not happened and is nowhere,
is in one place of one batch and was told nowhere, or was told once and is in no batch
(`Settled`). A batch that goes tells each of its alerts once and is emptied (`MailAllTells`), one
that stays is told of nowhere (`MailAllKeeps`); that two batches never share an alert is `Sorted`;
`Numbered` says of outages that ended quietly that they are over, so that no recovery will still
carry their number.

**Outbox.** What a pass does was decided when it polled, and rows change meanwhile. `DueIsReady`
says that what it still has to do is due in the table, each mail once, with the attempts the
poll read: only the pass makes a row wait, and there is one pass at a time. For duplicates,
`Accounted` counts deliveries against the history's excuses (a reply lost, or a row not marked
because the process stopped or the database failed), with one delivery more for a mail between the
server's yes and the row's `sent` (`AcceptedDelivered`). The backoff follows from `OwedIsWaited`: the wait in the row is the one the
schedule owes. Nothing is assumed about the set of mails; that those queued are finitely many is
in the invariant, since a `Tick` appends the rows that come due in an order of all of them.

**Janitor.** `HistoryIsTrue` compares three tables with all the probes there ever were. It is proved in
three layers, each an invariant the next one uses.

* The incidents are true (`IncidentInv`). A device's probes are a log, and `DownIn` says of a log and
  an instant whether the device was down by it. `AddAnswer` and `AddFailure` say what one more entry
  does to that: an answer ends it, a failure adds the run it belongs to once that is as long as the
  threshold, and neither changes what was true of the past otherwise. So the strikes are the length
  and the first instant of the run the log ends in (`StrikesTrue`), an incident is open exactly while
  they are at the threshold (`OpenTrue`), one that is resolved was so by an answer (`ResolvedTrue`), no
  instant is in two incidents of a device (`Apart`), and an instant no older than the horizon is in
  one exactly if the device was down (`CoverTrue`). Hence what the incidents of a day add up to is how
  many of its instants were down (`DownCount`, by a bijection).
* Rows go in order (`PruneInv`). The boundaries of a pass never go beyond the horizon or today
  (`PassWindow`); what the writer still holds is one instant old (`WaitingFresh`), so that a batch
  inserted in the middle of a pass is never old enough to be pruned by it; and a row that is old enough is rolled
  up, about to be, or of a day too old to be rolled up, unless some pass was left with work
  (`KeptUp`). This gives `PrunedOnceRolledUp`.
* The rollups are true (`HistoryInv`). A probe is still a row, or its day has a rollup, has lost rows
  or is too old (`RowsKept`); what a pass has yet to write is of finished days, none twice and none with a
  rollup (`TodoTrue`); a rollup is of a finished day and is right unless it is among the `spoilt`
  (`RollupTrue`). The step to look at is a probe: an outage may be detected after midnight and
  begin before it. Either it was open already and the rollup has counted it, or it begins now, and the
  day is spoilt by then.

TLC checked every part of this invariant on the run's instance before it was proved. Downtime is counted as the
pairs of an incident and an instant it covers, which is the sum of the clipped incidents the code
computes; a fold over the incidents would say the same, but could not be proved about. That there
are finitely many devices is assumed, because rows are counted.

**Only model-checked.** Liveness under fairness (`SampleLands`, `AlertArrives`, `CatchesUp`,
`StopReturns`, `EditsTakeEffect`): temporal reasoning about fairness needs ENABLED, which the
prover does not handle. Every
safety invariant a passing run checks is proved.

## Not modelled

* The dashboard's events and the hourly-cap decision are left out of `Evaluator` (the last is in
  `AlertBuffer`); settings are chosen anew at every result, which covers edits.
* The wording of mails, TLS and authentication of SMTP, the test mail.
* Latency averages and percentiles, the WAL checkpoint, VACUUM; the figures of groups and of the
  dashboard.
* Edits of recipients while alerts wait; the gap between the two statements of `deviceDays`.
* In `Monitor`: names, tags, thresholds and recipients, which take the same way through
  `LoadEffective` as the timing; the order of groups, which nothing in the engine reads.
* In `UpdateChecker`: the names of assets and the format of the checksum file; `Damage` between the
  check in `Install` and the start of the installer, against which the code has no defence; more than
  one file that cannot be removed in the same discard.
* The event hub: what makes up for a dropped event is in the query cache of the desktop client, a
  third-party library.
* The order of `Shutdown` across all pieces: each piece's own module has its stop.
* HTTP plumbing, tokens, validation, logging, secrets, directories, migrations, the Windows
  service wrapper: input and output without a protocol. The desktop client is an external
  reader of the API.

## Plan

1. **Lifecycle**: the order of `Shutdown` over the pieces, with its time limit, composed of the
   stops that `Scheduler`, `Evaluator`, `HeartbeatWriter` and `Outbox` have.
2. **Refinement**: an abstract outage log (a device goes down, comes up, is announced once),
   which `DeviceMachine` implements outright and `Evaluator` when no write fails.

## Running

Model-check with `tlc -config MCOutbox.cfg MCOutbox.tla`, and likewise for the other `MC…`
modules; prove with `tlapm Evaluator_proofs.tla` and the like. The longest runs are `monitor`,
`scheduler` and `update_checker`, about two minutes each.
