# Verification of nockd

nockd deploys and supervises NockApps: it takes an artifact over HTTP, stores it under its hash, keeps
the desired state of every app in a SQLite registry, and drives one operating-system process per app
toward that state. This directory holds TLA+ models of its core, the TLC runs that check them, and
theorems about them checked by TLAPS. Paths are relative to the directory above this one.

To re-run, in this directory: `tlc -workers 2 -config Life.cfg MCDaemon.tla` (any `.cfg` of section 4
with its module) and `tlapm DaemonProofs.tla` (any module of section 5). `PROJECT.json` lists runs, the mutant that each
property catches, the lines every definition stands for, hazards, findings and theorems.

## 1. Inventory

| Component | State | Operations | Interaction | What makes it correct |
|---|---|---|---|---|
| Supervisor (`supervisor.rs`) | `procs`: per app the Child handle, pid, restart counter, backoff, run state, SIGTERM deadline, restart flag; a pidfile per app; `shutting_down` | `reconcile`, `request_restart`, `stop_all`, `cleanup_orphans`, `status` and setters | called by the tick and by handlers in any number of threads; reads the registry; one blocking mutex | at most one process per app, signals only to its own processes, every process recoverable from a pidfile, stops and restarts complete, asked exits are no crashes |
| Daemon loop (`daemon.rs`) | lock file, tasks | start (flock, cleanup), reconcile tick, health, status and resource loops, shutdown | owns all others | start-up leaves no second writer, shutdown leaves nothing behind |
| Control API (`api.rs`) | none | deploy, restart, reload, rollback, stop, start, down, up, trust, icon, views | handlers: registry and store writes, then the supervisor, no lock across calls | a request's effect is applied; partial failures leave usable state |
| Registry (`registry.rs`) | tables app, artifact, deploy_history, trusted_builder, event, endpoint | one SQL statement per method, under its own mutex | read by the supervisor, written by handlers | no reference to what is missing; history complete; verification truthful and sticky |
| Artifact store (`store.rs`) | `artifacts/<hash>/{out.jam,bin}` | `has`, `put`, `stage_jam` | written by deploy, read by spawn | what is recorded as stored is complete and executable |
| Attestation (`attest.rs`) | key files | `create`, `assess`, `binds` | called by deploy and the CLI | verified only on evidence |
| Observers (`health.rs`, `resources.rs`, `daemon.rs`) | columns of `procs` entries | three loops: list, await a probe, write back | race with stops and restarts | readings belong to the instance they are shown for |
| v1 API, streams (`apiv1.rs`) | an offset or event id per connection | SSE followers of a log and of the event table | read only | every line and event once, in order |
| Configuration (`config.rs`) | none | manifest, paths, tails | the tail of a log that is being written | pure functions |
| CLI, client, buildkit (`cli.rs`, `client.rs`, `buildkit.rs`, `main.rs`) | none | one request per command | HTTP | sequential |
| Dashboards (`tui.rs`, `dashboard.rs`, `web/`), metrics (`nockchain.rs`) | none | poll and render | HTTP, gRPC | presentation |

Hard behaviours. Tokio's multi-threaded runtime runs passes of the tick and of handlers side by side. A
pass lists the registry *before* it takes the `procs` mutex, so it may act on old rows. Processes exit,
ignore SIGTERM, and their numbers are reused at any moment. A handler is a row of separate writes that
others interleave, and that a failure or a kill of the daemon may cut anywhere. Shutdown races the passes
in flight. The daemon itself may die anywhere, and its apps outlive it. The observer loops and the streams
keep what they have read across awaits. `PROJECT.json` lists these hazards at their lines.

## 2. Plan

Built, in this order: `OsProcess`, `Supervisor`, `AppLifecycle`, `Daemon` (the single-writer guarantee is
the system's first promise), `Deployments` (what a deploy leaves behind), `Boot` (what one life of the daemon
leaves to the next), `Observers` and `Streams` (what an operator is shown).

The safety properties of all of these are proved (section 5).

Left:
1. The kernel that `stage_jam` copies beside a put that rewrites it, as a spawn step of `Deployments`.
2. Pure parts against their reference: `backoff_secs` and the grouping of `deploy_history`.

## 3. Modules and how they correspond to the code

**`OsProcess`** (external) is the process table: pid slots that are free, up or a zombie, with the owner,
the revision and the strongest signal delivered. SIGTERM is a request that a process may ignore for ever;
after SIGKILL it exits, not at once. A slot is reused as soon as it is free. A process whose handle was
dropped is reaped by tokio's orphan queue.

**`Supervisor`** is `reconcile()` and `request_restart()`. `procs[a]` is `Managed`, `procs[a].tracked` says
whether the table has an entry; `pc[t]` is where task `t` is in a pass: the test of `shutting_down`
(`ShutdownGate`), `list_apps` (`ListApps`), the mutex (`LockProcs`), then three loops, each cut into one step
per app because exits, timers and registry writes fall in between: reap or escalate (`ReapExited`,
`Escalate`), drop what is not listed (`DropApp`), drive toward the row (`DriveStop`, `DriveStopped`,
`DriveRunning`, `DriveHeldBack`, `Spawn` and `WritePidfile`, `SpawnFails`). The order of apps in a loop is
left open, as a HashMap's is.

**`Daemon`** is one life: the tick, the mutating handlers and `stop_all()` over `Supervisor`. Handlers
contain no `await` between their first write and their last, so one that has begun finishes; a step is one
registry or supervisor call. It holds the properties of the composition.

**`AppLifecycle`** is the abstract promise: none, running, asked, killed, ended, none. `Daemon` implements
it under the mapping `PhaseOf`, read off the entry's handle and the process behind it.

**`Boot`** composes lives: `Launch` (flock), `CleanupApp` pidfile by pidfile, `EndCleanup`,
`KillStragglers`, `Bind`, then `Daemon`'s steps (`DaemonStep`). A life ends in `Crash` at any point, in
`BindFails` after the loops were spawned, or in `ServeReturns`; each is `Die`: memory is gone, pidfiles,
registry and app processes stay. Strangers are processes nockd did not start; they take free numbers,
so that a pidfile, or an entry whose child was collected, may name one. `lost` is auxiliary: the writers
that no pidfile named when a daemon died.

**`Observers`** is the health, status and resource loop: each lists, waits and writes its answer under the
app's name (`Connect`/`Answer`/`SetHealth`, `RunStatusCmd`/`SetStatusLine`,
`ListLive`/`Sampled`/`SetResources`), against stops, restarts, crashes and hung servers. Every write takes
the mutex that a pass holds throughout, so a pass is one step here (`Pass`, with `Reap` and `Drive` per app);
its inner order is `Supervisor`'s matter. `Shown` is `derive_status`.

**`Streams`** is `logs_sse` and `events_sse`: a follower is a `pc` and an offset or last id, each await a
step. A log is a sequence of numbered pieces, one per write of the app; what a follower has shown is a set.
A missing log is an empty one. Nothing in nockd truncates a log, but the follower handles one that has
shrunk, so somebody may.

**`Deployments`** is `Store::put`, the registry tables and the writes of deploy, rollback and trust. A file
write is an open, which empties the file, and a write; a SQL statement is atomic. `Crash` kills the daemon
between any two steps of all handlers and starts it again. It is kept apart from `Daemon` because they share
only the app row's artifact: `Daemon` sees it as the row's `rev`, and what reconcile does never writes
store or tables.

`MCDaemon`, `MCBoot`, `MCDashboard` and `MCDeployments` give instances; `DaemonProofs`, `LifecycleProofs`,
`BootProofs`, `LivesProofs`, `StreamsProofs`, `DashboardProofs` and `DeploymentsProofs` hold the theorems. Definitions commented "Faulty variant" are not
part of any specification: each is a plausible bug, used to see that a property would catch it.

Abstractions, all named here:
- everything `spawn()` reads of a row (artifact, arguments, port, endpoint) is one revision;
- a deadline is none, pending or due, a backoff is waiting or over: each may run out at any moment, which
  covers every length;
- the restart counter saturates at `RestartCap`; only "zero or not" and "moved" are used;
- errors of SQLite are left out, but for the one `events_sse` turns into "no events yet"; so are the writes
  to the event log; `unwrap` on a poisoned mutex is not modelled;
- health, status line and resources are in `Observers` and not in `Supervisor`: no decision reads them;
- a reading of the sampler is told apart only by the instance it is of;
- a failed `try_wait` is an exit not seen yet; the code treats it so, and the next pass asks again;
- a health call to a server that is ready is answered SERVING; a server that says NOT_SERVING of itself is left
  out (the loop records it as it records a call that broke off, which `Exits` has);
- the sampler (`sysinfo`, external) knows the processes there are when it lists them, and remembers no dead one;
- hashes are injective: an artifact is its bytes, its kernel hash follows; a signature is valid or forged.

## 4. Runs

| Run | Question | Result |
|---|---|---|
| `life` | one registered app, every request, policy, failed spawn, exit, ignored SIGTERM: `OneProcess`, `SignalsStayHome`, `Recoverable`, `StatusTruth`, `NoPenaltyForAskedExit`, `ImplementsLifecycle` | holds |
| `two_apps` | two apps deployed from nothing with as few pids as apps: `TypeInv`, `OneWriter`, `SignalsStayHome` | holds |
| `progress` | liveness: `StoppedAppsStop`, `RunningAppsRun`, `TerminationEnds`, `RequestsFinish` | holds |
| `shutdown` | `stop_all` against passes in flight: `HandedOver`, `ShutdownEnds`, `QuietShutdownIsClean` | holds |
| `boot` | three lives with deaths at any step, failed binds, shutdowns and a stranger: `BootTypeOK`, `OneWriterUnlessLost`, `BlankSlateUnlessLost`, `LostOnlyInWindows`, `StrangersSpared` | holds |
| `dashboard` | late answers, hung servers, followers of a growing and truncated log and of the event table: `TypeOK`, `NothingSkipped`, `EventsInOrder`, `HealthPageSettles`, `StopSettles`, `ReadingsPageSettles`, `PiecesArrive`, `EventsArrive` | holds |
| `deployments` | deploys, rollbacks, trust changes, failed writes, a kill: `TypeOK`, `NothingMissing`, `DeployedIsRunnable`, `HistoryComplete`, `VerifiedOnEvidence` | holds |
| `stale_redeploy` | `RevisionApplied` | violated |
| `never_restart` | `RestartStarts` | violated |
| `first_deploy` | `OneProcess` with an app that is not registered yet | violated |
| `shutdown_respawn` | `NothingSurvives` | violated |
| `sticky_verified` | `VerifiedSticky` | violated |

Bounds. One tick and one handler give two passes at once, which is what every race found needs; a third
task repeats the role of the second. Two pids for one app let an old and a new instance exist together and
make every third start reuse a number; in `two_apps` the two apps compete for two pids, so that numbers pass
between them.

In `boot` a third life sees what the second inherited and added. Three pids hold the process of a life, the
lost one of an earlier life and a stranger. One app suffices because a pidfile and an entry concern their own
app only; a second is in the theorems.

In `dashboard` the pages share nothing, so a variable `page` runs them side by side. The health loop and the
other two loops are two pages because they write different columns and read none of each other's. On the
health page a second app boots, hangs and exits undisturbed by requests, so that the loop may be held up by
an app other than the one that waits for it. Five events and a batch of two need three polls; four pieces, a
tail of one and one truncation let a log shrink and grow past an offset again.

Revisions matter in pairs. In `deployments` two handlers overlap on one app and on two artifacts, one with a
separate kernel and one without; three history rows let a rollback be rolled back; one crash is enough
because a restart forgets all handlers. The theorems of section 5 have none of these bounds.

Deadlock is checked in all runs except the two that shut the daemon down for good, where it does stop, and
`boot`, where the last life may end with nothing left to happen. Pids (`MCDaemon`, `MCBoot`) and handlers
(`MCDeployments`) are interchangeable in the specifications without fairness, so symmetry is used there and
nowhere else.

Fairness (`Daemon!Fairness`). The tick returns every second and a task that has begun is scheduled (weak
fairness of `Tick` and `TaskStep`); the `procs` mutex is not fair, but a pass holds it for a bounded time
and the loop sleeps between two, so a waiter gets it in the end (strong fairness of the steps that take it);
`stop_all` goes on; timers run out; a process that got SIGKILL exits. Nothing is assumed of a process that
got only SIGTERM, and nothing forces clients to send requests. In `Observers` passes and loops come back,
a process told to exit does (by the SIGKILL that follows, which `progress` shows), a backoff expires; no
app need ever answer a probe. In `Streams` a connected follower polls for ever; nobody need write. `Boot`
assumes nothing.

### What disagrees with the repository's own words

1. `stale_redeploy`: a pass lists the old row, waits for the mutex while a deploy writes the new row and
   asks for the restart, and then itself restarts the *old* artifact (`supervisor.rs:178`); nothing corrects
   it, although `api.rs:211` promises that a redeploy does not keep the old version.
2. `never_restart`: with policy `never`, an app that exited once is never started again by restart, start or
   deploy (`supervisor.rs:285`), although a requested restart is to "start fresh (no crash penalty)".
3. `first_deploy`: a pass that listed the registry before a first deploy takes the new app for a removed one,
   kills it without waiting, and the next pass starts a second process beside it (`supervisor.rs:237`).
   DESIGN principle 8 rules out a second writer; `OneWriter`, which does not count a process already sent
   SIGKILL, still holds.
4. `shutdown_respawn`: a pass past the gate starts apps again after `stop_all` has taken the children.
5. `sticky_verified`: `put_artifact` replaces the row (`registry.rs:157`) before the rule that keeps a
   verified artifact verified can look at it.

Also seen while modelling, without a run of its own:
- `has()` asks for a kernel file (`store.rs:49`), so a put of a binary-only artifact is never the no-op that
  `store.rs:73` describes; `Deployments` models the rewrite.
- The comment above `cleanup_orphans` promises a blank slate to the first pass. `BlankSlateUnlessLost` says
  how far it is kept: not for a process whose daemon died during its own start-up cleanup (pidfiles are
  removed before the processes are gone), between a spawn and its pidfile, or during `stop_all`.
  `LostOnlyInWindows` says that these are the only three. SIGKILL at start-up is not awaited either, so an
  old process may still be dying beside its successor; it counts as killed, not as a writer.
- `StrangersSpared` excepts the shutdown because `stop_all` leaves pid and deadline in an entry whose child
  it collects: a pass or restart request still in flight may signal a number that was reused.
- One probe that never returns holds the health loop up for all apps, until that app exits.
- `set_resources` says that it clears the reading of a stopped app (`supervisor.rs:140-141`); the sampler no
  longer asks about it, so the last reading may stay.
- A piece of a log that is not UTF-8 ends the following of that log for good.
- `events_sse` starts from the last id "so we only stream genuinely new events" (`apiv1.rs:198`), but takes a
  registry error at that moment for an empty table: such a stream, blind in `Streams`, sends the whole history.
  `EventsInOrder` measures from the true last id and makes a named exception of blind followers.

Some hazards are behaviours of the models that no property forbids, because the code has nothing against them:
a property that meets one names it as an exception or a hypothesis. These are an endless sequence of restart
requests (`TerminationEnds`, `StoppedAppsStop` ask for a pause), a process that outlives SIGKILL and one still
dying when its successor starts (not a writer), the stranger whose number is in an old pidfile or entry
(`StrangersSpared`), a put cut short or rewriting (`DeployedIsRunnable`), a probe that never returns
(`HealthPageSettles`), invalid bytes (`PiecesArrive`), a truncation that no length shows (`NothingSkipped`) and
trust withdrawn from a builder while a verdict is on its way to the registry (`VerifiedOnEvidence` is about the
signature only). PROJECT.json lists them with a note and without a property.

## 5. Proofs

From the named assumptions on the constants only; no bound on apps, pids, tasks, handlers, crashes, lives,
strangers, followers or what is written. (Where a module names a bound as a constant, the theorem is for
every value of it.)

`DaemonProofs`
- `TypeCorrect`: `TypeInv`, types and what tasks remember, is inductive.
- `OwnershipInvariant`: the strengthening. None of the three properties below is inductive: that a new process
  is the only writer follows from "no handle in the entry, so no writer of this app", which a pass must find true
  whatever other tasks have done to entry, pidfile and registry since it listed. `Ownership` says that an entry's
  pid is its handle's, that the handle is of a live or unreaped process of that app and that the pidfile names it
  or nothing (`EntriesOwn`), that a process that may go on writing is the one behind its app's entry
  (`WritersTracked`), and that it is in the pidfile or just being recorded (`WritersRecorded`). Most steps only
  signal or move timers and labels; `HarmlessKeepsOwnership` disposes of these at once, the others (reap, drop,
  spawn, pidfile, exit, `stop_all`) have a lemma each.
- `SingleWriter` (`OneWriter`), `SignalsReachOwnApp` (`SignalsStayHome`), `WritersAreRecoverable`
  (`Recoverable`) follow.

`LifecycleProofs`, on `DaemonProofs`
- `EntriesTellTheTruth`: `EntryTruth`. The daemon keeps one trace of the signals it sent, the deadline of the
  entry. `TermTruth` says that a deadline is set exactly when the child was signalled, unless the child exited
  first, and that there is none without a child; `StateTruth` says the same of the state. It is inductive with
  `Ownership`, which lets a step on one app leave the processes of the others alone (`AppStepsAreLocal`).
- `StatusIsTrue` (`StatusTruth`) follows at once; for `AskedExitsAreFree` (`NoPenaltyForAskedExit`)
  `OnlyCrashesCount` looks at every step that moves the counter and finds a failed spawn or an exit of a child
  with no deadline, hence with no signal.
- `OneInstanceUnlessDropped` (`OneProcess`): `OneProcess` is false as it stands, as `first_deploy` shows, and
  the theorem says why. A process that got SIGKILL may live on for a while; it stays the child of its entry
  (`InstanceTracked`) unless the second loop of a pass drops the app, and then only (`NothingToDrop` excludes
  this). `OneInstance` draws the consequence: if every app was registered when the daemon began
  (`NoRow \notin BootRows`, the situation of `life`), then, because no handler deletes a row, every list names
  every app (`EveryoneListed`), no pass drops one, and `OneProcess` holds.
- `LifecycleUnlessDropped` (`ImplementsLifecycle`): initial states map to initial states and every step to a
  step or a stutter of `AppLifecycle`, as long as no app is dropped and `stop_all` has not taken the children:
  both take an instance away from its entry with no end that the abstract specification knows.
  `DaemonImplementsLifecycle` is the case of the run `life`: all apps registered and no signal to the daemon.
- `EveryChildInOneHand` (`HandedOver`): a pass that is past the gate when the signal comes goes on while
  `stop_all` takes the children, so `Ownership`, which ends there, cannot say where a process is. `Hands` holds
  before, during and after: an entry's child is known by its own pid and is not one that `stop_all` took
  (`ChildrenHeld`), a taken process keeps its number until `stop_all` has awaited it, as no pass can reap it
  (`TakenHeld`), and whatever may go on writing is in one of the two hands (`WritersHeld`). At the moment of the
  taking this needs that nothing was taken before (`NothingTaken`). The spawn of a late pass is the other
  interesting step: it finds a free number, hence none that is awaited.
- `QuietShutdownLeavesNothing`, the safety half of `QuietShutdownIsClean`: from a moment between the signal and `stop_all` at which no pass is in flight, all
  that may go on running is a child of an entry or awaited by `stop_all` (`Accounted`), which ends with none.

`BootProofs`, on the lemmas of `DaemonProofs` for the steps inside a life
- `BootTypeCorrect`: `BootTypeOK`.
- `HandoverInvariant`: `BootInv`. With several lives the link from an app to its process changes its kind: at
  rest it is the pidfile (`AtRest`), during the cleanup the pidfile or the list of pids to kill
  (`BeingCleaned`, `BeingAwaited`, which also need that every app with a pidfile is registered, hence
  `Remembered`), while the loops run the entry (`Owned`, the counterpart of `Ownership` for writers that are not
  lost). `Fresh` says that a daemon before its loops has no memory. One lemma per part shows that every step
  keeps it; `LoopsBeginOwned` is the step from the list to the entries.
- `OneWriterOverLives`, `BlankSlate`, `ProcessesLostOnlyInWindows` and `StrangersAreSpared` (all properties of
  the run `boot`) follow; the last looks once more at every step that signals.

`LivesProofs`, on both
- `EntriesTellTheTruthOverLives`, `StatusIsTrueOverLives` and `AskedExitsAreFreeOverLives`: the facts of
  `LifecycleProofs` in every life of `Boot`. The lemmas there ask of a step no more than `EntriesOwn`, which
  `BootInv` gives while the loops run; a death empties the entries, and what happens to processes before the
  loops run concerns no entry. `OneProcess` is not among them: an old process that was killed by the cleanup
  may be dying beside its successor.

`StreamsProofs`
- `LogsSkipNothing` (`NothingSkipped`): below its offset a follower has shown all that was written since the
  request. Inductive only with the order of the pieces in the log, with the bound of offset and length by the
  log's length while no truncation went unnoticed, and with what holds between the poll that finds a length and
  the read that may go past it.
- `EventsStreamInOrder` (`EventsInOrder`): what was sent is the interval after the start of the stream (the
  true last id when it opened, or 0 for a blind follower), and a batch in hand is the interval that follows it.

`DashboardProofs`, on `StreamsProofs`
- `DashboardTypes` (`TypeOK` of `MCDashboard`): the types of loops and followers together. Those of the streams
  are not inductive alone (a log's length needs the order of its pieces), so the invariant is
  `ObsTypeOK /\ StreamInv`, with `StreamInv` made of the invariants of `StreamsProofs`.
- `PagesFollowInOrder`: `NothingSkipped` and `EventsInOrder` in that composition.

`DeploymentsProofs`
- `TypeCorrect`: `TypeOK`.
- `RegistryGrounded` (`NothingMissing`) from `Grounded`, which adds what a handler in flight relies on: past
  `put_artifact` its artifact has a row and a binary, past the opening of the binary the file exists. Nothing
  is ever deleted (`StoreGrows`), so these facts last.
- `HistoryTellsAll` (`HistoryComplete`), inductive together with the types.
- `VerifiedRestsOnEvidence` (`VerifiedOnEvidence`) from `Evidence`: a handler that holds the verdict
  "verified" holds a valid attestation of its own artifact.
- `HistoryRuns`, and from it `DeployedRuns` (`DeployedIsRunnable`). Not inductive: that a recorded artifact can
  run depends on all handlers that ever wrote its files. `FilesAccounted` says whose work is missing when the
  files are not as `put` leaves them (`Accounted`: a torn file or a binary not yet executable has a handler at
  just that write, unless a put of it was cut short) and that the kernel is written first (`KernelFirst`: where
  it is absent, so is the binary, and nobody is at the binary). With `NothingMissing` a recorded artifact has a
  binary, hence a kernel, and a handler at work if either is not whole.

Every invariant and every action property of a passing run is thus proved. Only model-checked is liveness, which
needs fairness and ENABLED and is beyond the prover: `StoppedAppsStop`, `RunningAppsRun`, `TerminationEnds`,
`RequestsFinish`, `ShutdownEnds`, that `QuietShutdownIsClean` is reached, `HealthPageSettles`, `StopSettles`,
`ReadingsPageSettles`, `PiecesArrive` and `EventsArrive`. Nothing is proved by induction over data.

## 6. Not modelled

`stage_jam` (a copy before the spawn; its failure is a failed spawn), `set_icon` (one column), the read-only
views, `probe_endpoint` and the endpoint table (nothing else reads it; what a spawn takes from it is part of
the revision), the registry's configuration columns but for those a decision reads. Left out for good:
argument parsing, builds and HTTP plumbing of the client, presentation, the metrics call, manifest and path
handling (no state), cryptography and hashing (external). A wall clock set back would delay escalation and
backoff; the liveness properties assume time passes.
