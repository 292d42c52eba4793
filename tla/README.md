# crawler-lite: a verification development in TLA+

crawler-lite runs web spiders. A *master* keeps spiders, tasks, schedules and
results in PostgreSQL, hands tasks to *workers* over one gRPC stream each, and
stores logs and artifacts in MinIO; a worker runs each task as a Python process.
This directory holds TLA+ modules translated from the Go sources under `src/`,
TLC configurations that check them on small instances, and proofs checked by
TLAPS that hold for every instance.

1. [The system](#1-the-system)
2. [Plan](#2-plan)
3. [Modules and the code they stand for](#3-modules-and-the-code-they-stand-for)
4. [Runs](#4-runs)
5. [Fairness](#5-fairness)
6. [Proofs](#6-proofs)
7. [Findings](#7-findings)
8. [What is not modelled, and abstractions made](#8-what-is-not-modelled-and-abstractions-made)
9. [Running it](#9-running-it)

## 1. The system

| Component | Source | State it keeps | Operations | Status |
|---|---|---|---|---|
| Task service | `internal/task/service.go`, `internal/repository/tasks.go` | rows of `tasks`, the dispatcher's wakeup channel and snapshot | `Queue`, `Cancel`, `OnUpdate`, `maybeScheduleRetry`, `RunDispatcher` | modelled |
| Retry policy | `internal/task/retry.go` | none | `PolicyFromSpiderConfig`, `Decide`, `backoffFor` | modelled |
| Worker hub | `internal/hub/hub.go` | `sessions`, `tasks`, per session `FreeSlots` and `outbox` | `Connect` (register, read loop, pump, unregister), `Assign`, `CancelRunning` | modelled |
| Worker runtime | `internal/runner/worker.go` | `running`, `freeSlots`, `outbox`, the current stream and its context | `Run`, `connectOnce`, `startTask`, `cancelTask`, `sendUpdate`, `pumpOutbox`, `heartbeatLoop` | modelled |
| Task executor | `internal/runner/executor.go` | sources and venvs on disk, `venvLocks`, the process and its pipes | `Run`, `prepareDir`, `resolveInterpreter`, `pumpEvents`, `classifyOutcome` | partly |
| Wire protocol | `proto/worker/v1/worker.proto` | frames on a stream | | partly |
| Schedules | `internal/schedule`, `internal/api/schedules` | rows of `schedules`, the cron in use | `Run`, `Reload`, `fire`, the API calls | modelled |
| Log, item and artifact sinks | `internal/hub/sinks.go`, `internal/storage/minio.go` | log buffers, log objects, `task_log_index` | `Write`, `flushTask`, `Run`, `AppendJSONL` | partly: the log |
| Notifications | `internal/notify`, `internal/api/notifications` | rows of `notification_channels`, the copy of the enabled ones | `Create`, `Update`, `Delete`, `Notify`, `enabled`, `invalidate` | modelled |
| Spider sources | `internal/spider`, `internal/gitsource`, `internal/api/spiders` | spider rows, source archives | `Create`, `Update`, `Delete`, `Sync` | modelled |
| HTTP API | `internal/api` | none of its own | routes | partly: the handlers that change channels, spiders, schedules |
| Process wiring | `internal/app`, `internal/workerapp`, `cmd` | | start and shutdown | partly: shutdowns |
| Authentication, web UI, crawlerkit-py | `internal/auth`, `web`, `crawlerkit-py` | none of their own that changes | | not modelled |

How they interact:

    user --Queue/Cancel--> Task service --Assign/CancelRunning--> Worker hub
      ^  \                     ^    \                              |  ^
      |   \ Sync               |     \ Notify                     |  | frames
      |    v         OnUpdate  |      v                           |  |
      |  Spider sources        +----- Notifications -- read loop -+  |
      |    |  key on record                                stream |  |
      |    |                     log sink <---- read loop         v  |
      |    +---- archive ------------------------------------> Worker runtime
      +-- Schedule runner                                      -> executor -> spider

- The task service *calls* the hub (`Assign`, `CancelRunning`) from the
  dispatcher's goroutine and from HTTP handlers. The hub *calls back* the service
  (`OnUpdate`) from the read loop of a session. They share no lock.
- Hub and worker talk over a stream that is ordered in each direction and may
  break; what a worker has not sent when it breaks waits for the next stream.
- Inside a worker, the receive loop, the heartbeat loop and every execution put
  frames into one bounded channel, and one pump per stream takes them out.
- A sync and an execution meet in the object store and in the spider's row only:
  the one uploads and then marks, the other is given the key on record and
  downloads later.
- The schedule runner queues tasks like any user. The log sink is called by the
  read loops and flushes from a goroutine of its own. Each terminal update sends
  its notifications from a goroutine of its own.

What makes it hard:

- **Interleaving.** Four kinds of goroutine (dispatcher, API calls, read loops,
  executions) act on the same task; `SetStatus` overwrites whatever the row says;
  the handling of a terminal update has four parts others can come between; a
  heartbeat overwrites a counter that `Assign` and `releaseTask` adjust.
- **Stale state.** The dispatcher walks a snapshot, and a row stays queued after
  it is handed out until the worker's report is persisted; the copy of the
  channels is dropped before the table changes.
- **Failure.** Streams break, worker and master die, statements of the database
  fail or succeed without an answer; a worker comes back with
  reports of executions of another session; the log object is read, extended and
  written back by calls that can each fail; a sync uploads and marks in two steps;
  an installation leaves half an environment on a volume that several workers share.
- **Ordering.** A captcha is reported early and again at the end; a cancellation
  can overtake or miss the assignment; a process exits before its events are read.
- **Waiting.** The worker's loops wait for room in a channel that only a pump
  makes, for each other, and for a pipe that a forked process may keep open.
- **Numbers.** The backoff is a float64 product turned into an int64.

What makes each component correct:

- *Hub*: `h.tasks` names open sessions only; an entry on a live stream is backed by an
  assignment on its way, an execution, or its final report, unless a statement failed
  when it was to be released; the slot counter finds back to the truth.
- *Worker*: the slot counter is the concurrency less the live executions; an
  entry of `running` names a live execution; a frame put into the outbox leaves
  once and in order; a broken stream is followed by another.
- *Executor*: a spider runs what was on record, with its packages; its end takes
  in all that was read of its events, which is all it emitted unless the reading broke off;
  its deadline ends it.
- *Task service*: no try of a row earns more than one retry; a row never goes back to the
  queue; until something fails, a row that says running has work behind it, every row
  comes to an end if its executions do, and a timeout is retried.
- *Retry policy*: attempts stay within the config, pauses grow as documented and
  stay under the cap.
- *Schedules*: one cron runs; after a call it has the rows as they are, and no job
  still acts on what a row said before; `next_run_at` fits the expression; calls
  return.
- *Log sink*: no line is lost, reordered or stored twice for another reason than
  the ones that can be named; the index is increased by lines that are in the object
  at that moment (an overwrite takes them away again, section 7);
  a shutdown flushes; every line gets stored.
- *Spider sources*: the source on record can always be downloaded; a version's
  archive never changes once the row has named it.
- *Notifications*: an event goes to rows that are recent, and that are those of the
  table unless a write and a refresh overlapped.

The hazards behind these, each at its line, are listed in `PROJECT.json`.

## 2. Plan

Done, in this order:

1. `Deployment`, `WorkerHub`, `WorkerRuntime`, `RetryPolicy`, `TaskService`, and
   `TaskControl`, which composes them: the life of a task is what the system is
   for, and where most of its hazards lie.
2. `RetryChain` over `RetryPolicy`: the arithmetic, with 64-bit limits.
3. `Component_proofs` (hub, workers, task service), `TaskControl_proofs` and
   `RetryChain_proofs`.
4. `ScheduleRunner`: cron generations.
5. `LogStore`: the log of a task on its way to the object store, and `LogPromise`,
   the abstract specification it implements.
6. `NotifyCache`: invalidations racing with refreshes.
7. `SpiderSources`, `TaskPreparation`, and `SourceToRun`, which composes them: from
   the branch to the process.
8. `WorkerStream`, `SpiderProcess`, and `WorkerProcess`, which composes them: the
   worker's goroutines around a bounded outbox, with liveness.
9. `LogStore_proofs`, `SourceToRun_proofs`, `NotifyCache_proofs`: every safety property of
   the three, and the refinement of `LogPromise`.
10. `ScheduleRunner_proofs` and `WorkerProcess_proofs`, and in the modules there were
    `RunningIsBacked`, `QueuedIsUnreported` and `PausesGrow`. With these, every invariant
    and every action property of the passing runs is also a theorem.

11. `ExecutionPromise`: an execution without its process, its pipe and its deadline, as
    `TaskControl` takes it to be. `WorkerProcess` implements it, proved as `PromiseCorrect`; and
    the safety under the liveness of the worker and of the schedules' runner, `WaitsCorrect`
    and `StuckForever`.

To come:

1. A reader of the live log (`api/tasks`): it reads the buffered lines and subscribes to
   the new ones in two steps.

Abstract specifications: `LogPromise` for the log store; `ExecutionPromise` for the
executions of a worker; each component's own specification serves as the abstract one of the composition (`Implements`,
section 6). Bounds and runs are in section 4, theorems in section 6.

## 3. Modules and the code they stand for

`PROJECT.json` maps every definition to its lines; this is the outline.

**`Deployment`** declares what all components share: tasks, sessions, concurrency
and the frames of the protocol. A worker's ACCEPTED and RUNNING are sent one
after the other and mean the same row status, so they are one frame.

**`WorkerHub`** (`hub.go`). `session`, `freeSlots`, `outbox` and `owner` are the
fields of `Session` and `WorkerHub`; `inbox` is what the worker has to say on its
stream; `stage` is where the read loop stands in its current frame.

| Code | Action |
|---|---|
| `Connect` up to Welcome, `register` | `Register` |
| read loop: Heartbeat | `Heartbeat` |
| read loop: `OnUpdate` returns nil / an error | `UpdatePersisted` / `UpdateFailed` |
| read loop: retry decision, slot, `h.tasks` | `RetryDecided`, `ReleaseSlot`, `ForgetTask` |
| `Assign` | `Assign`; `AssignOverHeartbeat`, `UndoOverHeartbeat`, `UndoOverRelease` where a read loop changes the counter between its two locked parts |
| `CancelRunning` | `SessionOf` (lookup), `PushCancel` (send to an open session); `CancelPanics` in `TaskControl` (the session was closed in between) |
| `pumpOutbox`, the streams | `Transfer`, `CutAfter` |
| end of `Connect` | `Unregister` |

**`WorkerRuntime`** (`worker.go`, outcomes from `executor.go`). `link`, `wout`,
`execs`, `handle` (`Worker.running`), `wfree`. `Join` and `LoseStreams` are
`connectOnce`; `StartTask` and `CancelTask` are `handleMaster`; `ReportCaptcha`,
`Finish` and `CleanUp` are the execution's goroutine. Its results are those of
**`ExecutionResults`**: `ResultsOf` is `classifyOutcome`, where the deadline is tested before
the captcha, the captcha before the exit code, seen from outside: which results remain
possible when all that is known is a cancellation and a captcha.

**`RetryPolicy`** (`retry.go`) has constants for the largest duration and for
what a conversion out of range yields, `Wrap` for the 64-bit product of the
linear backoff and `FloatToDuration` for the float64 one. **`RetryChain`** is the chain
of attempts it leads to.

**`TaskService`** (`service.go`, `repository/tasks.go`). `status`, `attempt`,
`parent`, `ready` are columns; `scan` is the dispatcher's snapshot, `wakeup` its
channel, `canceller` a Cancel call between its row and its message.

**`TaskControl`** composes the three. Each of its actions is one step of one
goroutine, from one point where another can come between to the next, put
together from the components' actions: `ReadUpdate` is the hub's
`UpdatePersisted` and the service's `PersistUpdate`, and so on. It adds the
faults: `StreamBreaks`, `WorkerDies`, `MasterDies`, and statements of the database that
fail. A statement made with the context of a broken stream fails at no further cost; on
a live stream it counts as a fault (`StatementFails`). It may have been carried out or
not.

| What fails | Action | What the code does |
|---|---|---|
| `SetStatus` in `OnUpdate` | `ReadUpdateFails` | logs and reads on; nothing is released, which `kept` remembers |
| a statement of `maybeScheduleRetry` | `DecideRetryFails` | logs; the release goes on |
| a lookup of `buildAssign` | `DispatchErrs` (`DispatchFails` if the spider is deleted) | marks the row failed and asks the retry policy, either of which may fail too |
| `SetStatus` in `Cancel` | `CancelErrs` | returns the error; no worker is told |
| a queued row of a spider without sources | none | `Queue` refuses it and no code takes a key away |

Two history variables count for the properties: `tries`, how often a row was handed to the
hub or failed in `buildAssign`, and `kept`.

**`ScheduleRunner`** (`schedule/runner.go`, the calls of `api/schedules`, the
queries of `repository/schedules.go`). `crons` are the cron instances built so
far, `current` is `Runner.cron`, `pc`, `todo` and `held` are the local state of
`Run` and of the calls, `jobs` the goroutines of `fire`. A time of next run is
represented by the expression it was computed from. The cron library is external:
a running cron starts a job of any of its entries at any moment, `Stop` ends that
at once, and stopping a cron that is not running does nothing.

| Code | Action |
|---|---|
| POST, PATCH, DELETE | `Create`, `Update`, `Delete`; the reload follows |
| `Reload`: query, build and swap | `ListEnabled`, `Swap` |
| the query fails, or the call's statement was carried out and answered with an error, so that there is no `Reload` | `ListFails` |
| `Reload`: stop, wait and start, `UpdateNextRun` | `StopOld`, `StartFresh`, `WriteNext` |
| `Run` after its reload | `BootReads`, `BootStarts`, `BootStops`, `BootReturns` |
| `fire` | `JobStarts`, `JobReads`, `JobQueues`, `JobMarks` |

**`LogStore`** (`hub/sinks.go`, `storage/minio.go`, `UpsertLogIndex`). `buffer` is
the `logBuffer` of one task, `flush` the local state of `flushTask`, `object` the
log object, `index` its row, `run` the state of `LogSink.Run`; `fate` is history:
what was lost, and why.

| Code | Action |
|---|---|
| `Write` | `Write` |
| `flushTask`, first locked part | `Take`, `NothingToTake` |
| `tryDownload` | `Read` |
| `Upload` and what follows an error | `Upload`, `UploadFails`, `ReadCutOff` |
| `UpsertLogIndex` | `UpsertLogIndex` |
| context cancelled, process over | `Stop`, `Restart` |

**`LogPromise`** says what the log store promises without buffers, flushes or
objects: lines accepted, lines still to be stored in their order, lines stored,
lines known to be stored and not counted. `Promise` in `LogStore` is the refinement
mapping: what is to be stored is what a flush has taken and not uploaded, followed
by the buffer.

**`NotifyCache`** (`notify.go`, `repository/notifications.go`, the handlers of
`api/notifications`). `table` is the table, `copy` is `cached` and `cacheUntil`,
`call` the statement an API call has still to make, `ping` a goroutine of `Notify`.
Time is counted in ticks; a copy carries its age.

| Code | Action |
|---|---|
| POST, PATCH, DELETE: validation, `invalidate` | `Post`, `Patch`, `Remove` |
| the statement | `Write`, `WriteFails` |
| `enabled`: hit; miss; query; store | `NotifyHits`; `NotifyMisses`; `Answered`, `QueryFails`; `Stored` |

**`SpiderSources`** (`spider/service.go`, `gitsource/syncer.go`,
`repository/spiders.go`, the handlers of `api/spiders`). `spider` is the row, `archive`
the object under the key of each version, `sync` the local state of each sync.

**`TaskPreparation`** (`prepareDir` and `resolveInterpreter` of `executor.go`). `exec`
is where each execution stands and in which worker, `venv` each environment on disk,
`lock` is `venvLocks`, one map for each worker: whoever holds the lock of a hash keeps
out the executions of its own process only, while the environments lie on a volume that
all replicas mount (`docker-compose.prod.yml`, `worker_venvs`). `spoilt` is history: the
environments that one worker built while another had them locked, or that a crash or a
removal that failed left half built. The `uv` command is external.

**`SourceToRun`** composes the two through the dispatcher: `Dispatch` is `buildAssign`,
`Download` what the store has under the key when the execution asks for it.

| Code | Action |
|---|---|
| POST, PATCH, DELETE of a spider | `Post`, `Patch`, `Delete` |
| `Sync`: `Get`, clone, upload, the two marks | `SyncBegins`, `Clone`, `Upload`, `MarkSynced`, `MarkSyncFailed`; `Fails`, `SyncLost` |
| `prepareDir` | `Download`, `DownloadFails` |
| `resolveInterpreter` | `SystemPython`, `Lock`, `CacheHit`, `CacheMiss`, `UvVenv`, `UvPipInstall`, `UvFails` |

**`WorkerStream`** (`worker.go`). `loop`, `pump` and `beat` are the program counters of
`Run` with `connectOnce`, `pumpOutbox` and `heartbeatLoop`; `outbox` is the channel with
its capacity; `stream` the transport, `ctx` the stream's context. Frames of executions
are numbered as they are put; what they say does not matter here.

**`SpiderProcess`** (`executor.go`, `Run` from the process on, `pumpEvents`,
`classifyOutcome`). `at` is where `Run` stands, `child` the process, `forked` what it left
the pipe of FD 3 to, `pipe` the events in it, `frames` what `pumpEvents` has still to put,
`events` whether it still reads: it has come to the end ("off"), or a line above 4 MiB or
an error of the pipe has ended it before ("cut"), and the spider goes on unheard.

**`WorkerProcess`** composes the two: an event or a report needs room in the outbox, and
the end of a stream's context cancels the executions started under it. `WorkerRuntime`
is the same worker as the master sees it, with an outbox without a limit, for
`TaskControl`; `WorkerProcess` has the limit, the goroutines and the process, and no
master.

**`ExecutionPromise`** is what the two have in common: an execution runs, may be cancelled,
may meet a captcha, owes what was emitted, and ends with one of `ResultsOf`; once at most,
what it says goes unheard from then on (`BrokenOff`), and what was not read of it is neither
owed nor in the result. In the mapping
(`Promise` in `WorkerProcess`) an execution is under way (`Phase`) from its goroutine's start
to the decision; it was `CutShort` if cancelled by then; `CaptchaMet` is about what was emitted,
not about what has been read, until the reading breaks off (`Unheard`); and `Owing` is the
pipe, as long as it is read, and the frames read from it and not yet put.

| Code | Action |
|---|---|
| `connectOnce`: connect; receive; Recv fails; join the pump, the heartbeat loop | `Connect`; `Assign`, `RecvCancel`; `RecvFails`; `PumpJoined`, `BeatJoined` |
| `startTask`: ACCEPTED, RUNNING, the goroutine | `Accept`, `StartRun` |
| `pumpOutbox` | `PumpTakes`, `SendSucceeds`, `SendFails`, `PumpStops` |
| `heartbeatLoop` | `BeatTicks`, `BeatPuts`, `BeatStops` |
| executor `Run`: spawn, `cmd.Wait`, `wg.Wait`, result | `Spawn`, `Waited`, `Drained`, `Report` |
| `pumpEvents` | `ReadEvent`, `PutFrame`, `EndOfEvents`, `EventsCutOff` |

The modules whose names begin with `MC` hold values and symmetries for TLC.
Definitions under a comment that begins with `Mutant:` are plausible mistakes in the
definition below them; no specification uses them. Each property of a passing run
is violated when such a mistake replaces the definition (`PROJECT.json`, `mutants`).

## 4. Runs

Passing runs (distinct states, minutes on two cores):

| Run | Bounds | States | What it shows |
|---|---|---|---|
| `task_faults` | 3 rows, 2 sessions, 1 worker with one slot, outbox of 1, 1 cancellation, 1 fault, 2 tries, success or timeout | 538 817, 0.7 min | the maps of hub and worker and the retries stay consistent with one fault at any moment, a failing statement included |
| `task_retry` | 2 rows, 1 session, 1 cancellation, 2 tries, every ending, captchas, deletion of the spider | 351 732, 2 min | statuses are backed by work, timeouts are retried, rows never go back |
| `task_beats` | 1 row, 1 session, 1 cancellation, 2 tries, heartbeats, captchas, successes | 783 658, 3 min | counters stay exact or find back, rows settle, unless an execution never ends |
| `retry_chain` | mixes of sound and malformed fields, chains of up to 100 attempts | 6 136, 2 s | attempts, caps, growth of pauses |
| `schedule_calls` | 1 schedule, 2 expressions, 1 call at a time, 4 crons per life, restarts | 58 568, 0.2 min | the cron in use follows the table, calls return |
| `log_store` | 3 lines with or without a level, 2 failing calls, shutdowns and crashes without a limit | 107 169, 0.3 min | the store keeps `LogPromise`, counts what it holds, stores every line in the end |
| `notify_cache` | 2 channels, 1 kind of event, 2 calls, 2 refreshes, TTL of 2 ticks, queries of up to 1 | 692 678, 1 min | how old the copy can be, and when it can differ from the table |
| `source_to_run` | 2 syncs, 2 commits, 2 versions, 2 executions with shared requirements on 2 workers, 1 crash | 1 955 184, 2.5 min | sources can be downloaded and are the ones on record, environments are complete |
| `worker_process` | 1 task, outbox of 1, 1 break, 1 event (a captcha), one shutdown | 153 404, 2.5 min | frames arrive in order, executions are as `ExecutionPromise` has them, streams and deadlines are seen to |

Runs that find the violation they are there for: `schedule_overlap`,
`log_transient`, `worker_stuck` (section 7).

What the properties say:

- `OwnerIsOpen`, `AssignmentsBacked` (`task_faults`): the hub's maps agree, and an entry
  on a live stream waits for something that comes. The one exception is in the property:
  a release that was skipped because the statement of the final report failed, with the
  stream up or not (`kept`); such an entry stays until its task is handed out again or
  the session ends.
- `HandleIsLive`, `WorkerSlotsExact`: the worker's map and counter agree with its
  executions, also when a task is assigned twice.
- `RetriesEarned`: a row has no more children than it has had tries. Two tries of a row
  whose reports are handled twice do make two retries; a report that is handled again, cut
  off, resent or that meets a failing statement makes none beyond that.
- `RunningIsBacked`, `QueuedIsUnreported` (`task_retry`): row and execution agree
  up to a frame on its way, as long as nothing fails.
- `TimeoutsRetried`, `RowsSettle`, `SlotsReturn` (liveness, without faults; the last two
  unless an execution never ends, as nothing in the code makes every execution end),
  `RowsNeverRequeued` (action property).
- `PromiseKept` (`log_store`): the refinement of `LogPromise`. A line is stored
  behind the lines accepted before it; it is stored again only if the store did
  not say that it had it; what a step adds to the count is stored at that step; what is
  stored is replaced only by a batch that was uploaded after a read that found nothing,
  after which the count is too high. `CountsMatch`
  relates the counts of a batch to its lines after they were put back, `StopFlushes`
  is about a shutdown, `EventuallyStored` about every line (liveness).
- `InUseIsRecent`, `StaleMeansOverlap` (`notify_cache`): the age of the rows an
  event goes to, and the only way they can be other rows than the table's: a refresh
  that overlapped with a write.
- `SourceUsable`, `RunsWhatWasOnRecord`, `RunsWithItsDeps` (`source_to_run`): from the
  branch to the process. The second has a hypothesis, no two syncs at once; the third
  leaves out environments that are `spoilt`: built by one worker while another had them
  locked, or left half built by a crash or a failed removal. Without these they do not
  hold (section 7).
- `FramesSurvive` (`worker_process`): what was put into the outbox is on the stream, in the
  outbox, in the pump's hand or lost by a Send that failed, once and in order. A frame
  that Send took counts as on the stream, also if the transport had broken and never
  carries it; `TaskControl` has that loss (`CutAfter`, `LeftAfter`).
- `ExecutionKept` (`worker_process`): the refinement of `ExecutionPromise`. An execution has one
  result, it fits what was cancelled and what the spider emitted, however late that was
  read, and every frame of what was emitted is in the outbox by then, up to where the
  reading of the events has broken off. `TaskControl` takes its results from the same
  `ResultsOf`, where a captcha that was not heard is one that was not met.
- `ReconnectsUnlessStuck`, `DeadlineEnds` (liveness) name the cases in which a worker or an
  execution does not go on. `DeadlineEnds` covers a forked process that holds the pipe past
  the deadline and lets go; one that never does is its exception (section 7).

Why the bounds are enough, as far as they are:

- *One slot, one place in the outbox.* The conditions in the code compare a
  counter with zero and a channel with its capacity; one is the smallest value at
  which both sides occur, and the hazards (over-assignment, undo after a full
  outbox, a loop that waits for room) occur with it.
- *Two rows* are a task and its retry, *three* a task with two retries; *two sessions* are
  the session lost and the one after it. With one worker this includes reports of
  one session that arrive on another.
- *`MaxTries`* is 2: a row handed out twice while it is queued, or a row and its retry.
- *`MaxCaptchas`* is 1: a spider may meet any number of captchas, one report of which at
  a time waits to be handled; in `task_faults` it is 0.
- *`ExecId`* names the executions alive at once. With two tries two are enough.
- *Heartbeats*: at most one is on its way per stream. It may be read at any later
  moment, so its staleness is not bounded.
- *`task_retry`* and *`task_beats`* have no faults: their properties state what
  holds as long as nothing has failed. The two invariants among them are proved for
  every value.
- *`retry_chain`* counts time in units of 30 s (the default base); an int64 of
  nanoseconds holds 307 445 734 of them, so the chain of 100 attempts crosses the
  limit, and a linear base of 10 000 000 wraps around.
- *`schedule_calls`*: four crons are Run's and those of three calls. Schedules are
  independent but for the order in which `Reload` writes their `next_run_at`. A run
  with two schedules and one call (435 691 states) was made as well and shows
  nothing else; the properties are proved for any number of schedules and callers.
- *`log_store`*: three lines are one that is stored, one that is taken and one
  written meanwhile; two failures are an upload that fails and the retry of it.
- *`notify_cache`*: two refreshes are one that brings back old rows and one that
  read new ones; a TTL of 2 has a copy that is fresh, older, and expired; what an
  event goes to is proved for every value.
- *`source_to_run`*: two versions are one on record and the one after it, two
  executions the one that builds and the one that waits, or two builders on two workers.
  Proved for every value.
- *`worker_process`*: one task fills an outbox of one with its own two frames; one
  break has a stream before it and one after it. Two tasks would only compete for
  the outbox as the heartbeat does already, and the safety is proved for any number.

Deadlock is checked in `schedule_calls`, `schedule_overlap`, `log_store`,
`log_transient` and `notify_cache`. The others switch it off: a system with its
bounded inputs used up, a chain that is over, or a worker that has returned, has
nothing left to do.

Two constants of `ScheduleRunner` mark where its properties end. `EarlyCalls`
is FALSE: the API is served before `Run` has started its cron, and a call in that
moment leaves two crons running, like the overlap in section 7. `Overlap` is TRUE
only in `schedule_overlap`.

## 5. Fairness

`FairSpec` states what goes on by itself, and why the code makes it:

- the dispatch loop: its ticker (`service.go`, `RunDispatcher`) lists and walks the
  queued rows again and again;
- read loops, `Cancel` calls, executions' clean-up: a goroutine that can run does;
- streams deliver what was sent, or break (a fault, for which there is none);
- a worker without a stream connects again (`Worker.Run` loops), which needs a master
  that answers with its Welcome;
- heartbeats: a ticker;
- `not_before` passes: time;
- schedules: a reload goes on, jobs end; nothing obliges a cron to fire;
- logs: the ticker and the calls of a flush, and the end of a process whose `Run`
  has returned (`App.Run` gives the servers 15 s).

In these modules weak fairness is enough. `WorkerProcess` has one condition per
goroutine, and two of them are strong where goroutines compete:

- a goroutine that waits for room in the outbox gets it (`LoopPuts`, `BeatPuts`,
  `PutFrame`, `Report`): the Go runtime serves the senders blocked on a channel in
  the order they came, so one that finds the channel full each time it looks is
  not overtaken for ever. If no room is ever made again, it waits for ever: that
  is `Stuck`;
- the pump that finds both its context done and a frame ready stops in the end
  (`PumpStops`): a `select` with several cases ready picks one at random.

The other conditions there are weak: the receive loop, a `Send` that succeeds or
fails, the heartbeat's ticker, the reader of the events, `cmd.Wait`, the deadline and the
death of a killed process. None is stated for a spider's own end, for what it forks,
for a preparation, or for an assignment, a cancellation or a break. `Connect` is the one
step under fairness that takes the master: its Welcome ends it. `ReconnectsUnlessStuck`
rests on that, so it is about a master that answers; `DeadlineEnds` needs no master.

Users, captchas, faults, crashes and shutdowns are never obliged to happen, and no
execution is obliged to end: the preparation has no deadline, and a forked process that
holds FD 3 keeps `Run` waiting beyond its own. So `RowsSettle` and `SlotsReturn` say "or
some execution never ends".

## 6. Proofs

| Theorem | Module | Statement |
|---|---|---|
| `HubCorrect`, `HubOwnerIsOpen`, `HubClosedIsQuiet` | `Component_proofs` | invariants of the hub in any environment |
| `WorkerCorrect` | `Component_proofs` | invariants of the workers in any environment |
| `ServiceCorrect` | `Component_proofs` | invariants of the task service in any environment |
| `SystemCorrect`, `TypeCorrect`, `SystemOwnerIsOpen`, `SystemClosedIsQuiet`, `SystemMidFrame`, `SystemSlotsExact`, `SystemHandleIsLive`, `SystemChainsBounded`, `SystemRowsNeverRequeued`, `SystemAssignmentsBacked` | `TaskControl_proofs` | the properties of the composed system |
| `SystemRunningIsBacked`, `SystemQueuedIsUnreported` | `TaskControl_proofs` | rows and executions agree up to a frame on its way, until the first fault |
| `Implements` | `TaskControl_proofs` | the composition implements `HubSpec`, `WorkerSpec` and `ServiceSpec` |
| `ChainCorrect`, `ChainTypeCorrect`, `AttemptsCorrect`, `CapCorrect` | `RetryChain_proofs` | attempts and caps for every config |
| `GrowthCorrect` | `RetryChain_proofs` | `Spec => PausesGrow`: each pause follows from the one before it |
| `TypeCorrect` | `ScheduleRunner_proofs` | `TypeOK`, with early and overlapping calls |
| `RunnerCorrect`, `OneCronCorrect`, `CronCorrect`, `JobsCorrect`, `NextRunCorrect` | `ScheduleRunner_proofs` | `OneCronRuns`, `CronMatchesTable`, `JobsAreCurrent`, `NextRunIsCurrent` where calls come one at a time |
| `WaitsCorrect` | `ScheduleRunner_proofs` | the jobs a call or the shutdown waits for only become fewer, where calls come one at a time |
| `ProcessCorrect`, `TypeCorrect`, `FramesCorrect`, `OutcomeCorrect` | `WorkerProcess_proofs` | `TypeOK`, `FramesSurvive`, `OutcomeIsWhole` of the worker |
| `PromiseCorrect` | `WorkerProcess_proofs` | `Spec => ExecutionKept`: the worker implements `ExecutionPromise` |
| `WaitsCorrect`, `StuckForever` | `WorkerProcess_proofs` | only a worker that is stuck waits for itself, and it does so for good |
| `TypeCorrect`, `StopCorrect`, `CountsCorrect` | `LogStore_proofs` | `TypeOK`, `StopFlushes`, `CountsMatch` of the log store |
| `PromiseCorrect` | `LogStore_proofs` | `Spec => PromiseKept`: the log store implements `LogPromise` |
| `TypeCorrect`, `UsableCorrect`, `RecordCorrect`, `DepsCorrect` | `SourceToRun_proofs` | `TypeOK`, `SourceUsable`, `RunsWhatWasOnRecord`, `RunsWithItsDeps` |
| `TypeCorrect`, `RecentCorrect`, `SeenCorrect` | `NotifyCache_proofs` | `TypeOK`, `InUseIsRecent`, `StaleMeansOverlap` |

Assumptions are the named `ASSUME`s of the modules: row ids are positive numbers,
`NoSession` is no session, concurrency and capacity are positive, the policy is
one the parser can produce, the value a conversion out of range yields is one of
the two ends of the type; `NoLevel` is no level and
there is a line; the TTL is positive and default events are events;
there is a commit and a version, every source has known requirements or none, and
no worker is `NoWorker`, and
(`ComposedAssumption`) what is downloaded is what was uploaded; there are finitely many
callers of the schedules' API.

Some theorems have a hypothesis, and each is one the code needs. Those about
`ScheduleRunner`, except its types, assume `~EarlyCalls` and `~Overlap`: a call before the
boot is over, or two at once, leave two crons at work (`schedule_overlap`, section 7).
`RunningIsBacked` and `QueuedIsUnreported` begin with `faults = 0`, as a lost session leaves
its rows running (section 7). `RunsWhatWasOnRecord` and `RunsWithItsDeps` have theirs in
the property, and `AssignmentsBacked` names its exception, `kept`.

*Along which argument.* Each component of `TaskControl` has a next-state relation of its own
(`HubNext`, `WorkerNext`, `ServiceNext`) in which the others are arbitrary, and an
inductive invariant over its own variables:

- Hub: `HubTypeOK /\ HubSafe`, where `HubSafe` is `OwnerIsOpen /\ ClosedIsQuiet /\
  MidFrameIsTerminal` (`ClosedIsQuiet`: a session that was closed has nothing to push and no
  frame in hand, a strengthening and no property of its own). None is inductive alone: a release changes the counter of
  the session in whose read loop it happens, which is harmless only because that
  session is open, and it is about the right task only because the frame it read
  is still at the head of the queue.
- Worker: `WorkerInv` adds to the types that the set of executions is finite and
  their ids are distinct; without that, neither the counter nor the map can be
  related to the executions.
- Service: `ServiceInv` adds that rows are numbered without gaps, that the
  dispatcher's snapshot and the cancel call name rows that exist, and the bound of
  every chain.

The composition's invariant is `SystemInv == HubTypeOK /\ HubSafe /\ WorkerInv /\
ServiceInv /\ NamesKnown`. `NamesKnown` (frames, assignments and executions name
rows that exist) is what ties the components: a hub step passes a frame on, and
the service's invariant needs its task to be a row. Every step of the system is
shown to be a step or a stutter of each component (`HubView`, `WorkersView`,
`ServiceView`), so the components' lemmas apply as they stand; this is also the
proof of `Implements`.

`AssignmentsBacked` needs more than types: `AssignInv == LinksOpen /\
LinksDistinct /\ EntriesBacked` (a worker's stream is an open session, no two
workers share one, and the property in terms of the queues). The proof follows an
assignment from the outbox to the execution to its final report, with lemmas on
what appending to, taking from and cutting off a queue keeps. When a statement fails, the
final report is gone and its task is in `kept`; only handing the task out again takes it
from there, and that puts an assignment in its place.

`RunningIsBacked` and `QueuedIsUnreported` hold until something fails, so the invariant is
`FaultFree == faults = 0 => Smooth`, on top of `SystemInv` and `AssignInv`. `Smooth` reads
each session's `Unread` frames, those whose status is still to be written (the frame in
hand is no longer one of them once its row is updated), and says five things:
no worker has frames of an earlier stream; open sessions have a worker, and
executions have a stream; a start still unread belongs to an execution or is followed by
a final report (`StartsSettled`); a running row has an execution or an unread final
report (`RunningKept`); an execution whose row is queued has its start unread
(`QueuedKept`). The third is what the other two miss: without it, reading a late
ACCEPTED could make a row running behind its last report. It rests on the order in which a
worker puts its frames, and on nothing the master checks. Lemmas on queues (a frame
read, a frame added) carry the proof.

For `RetryChain` the invariant bounds the attempt by the *parsed* policy and
keeps the pause in range; that the parsed policy is within what the config asked
for is a lemma on the parser. `GrowthCorrect` adds `PauseIsLast` (the pause is that of the
attempt before); the rest is arithmetic: a wrapped product plus a base is the
next wrapped product if it does not leave the type (`WrapAdds`), and the multiplier doubles up
to the clamp (`Doubling`, by the 31 powers themselves, as there is no induction here).

For `ScheduleRunner` two invariants. `Typed` needs no hypothesis: it adds to the types that
the crons still to be built have room (`RoomForCrons`), counting those whose reload
is under way. `RunnerInv` is about calls that come one at a time:

- `OneCall`, `CurrentIsLatest`: who can be where, and which cron is current;
- `OneAtWork`: a running cron is the current one, or the old one before it is stopped, and
  jobs belong to the same; `OneCronRuns` follows;
- `ListedIsTable`: from the query to the swap nobody changes a row, so the entries of the
  cron in use are the enabled rows, unless a query failed;
- `JobsRead`: once the fresh cron has started, the jobs of the old one are gone and those of
  the new one have read what the row says;
- `NextWritten`: an enabled row whose `next_run_at` is another expression's still stands in
  what a call or the boot has left to write. A job that marks its run writes what it
  has read, so this needs `JobsRead`.

`WaitsCorrect` is the safety part of `CallsReturn`: with jobs that end, a wait ends whose jobs
are not added to. On top of `RunnerInv` it needs `RunOwnsFirst`: no call starts the cron that
`Run` started and stopped. TLC checked it under the bounds of `schedule_calls`, and with two
schedules and three crons (4.9 million states); with overlapping calls it finds a call that
waits for the jobs of a cron another call has started meanwhile, so the hypothesis is needed.

For `WorkerProcess` one invariant for each half:

- `StreamInv` adds to `FramesSurvive` that the pump has a frame in hand when it is about
  to send one, and that a break, or the stop, that has not yet cost a frame is one
  `lost` may still count (`OneMoreToLose`). Lemmas say what adding and taking do to a line
  of frames in order.
- `ProcessInv` says of each execution that events are written and read between the start
  of the process and the end of its pipe, or the point where the reading breaks off, after
  which the spider may go on writing (`EventsBetween`), and that a captcha emitted
  was seen or is still in the pipe (`CaptchaSeenOrAhead`), also one nobody will read.
  `OutcomeIsWhole` follows because a result is made up only when the reader has ended. No
  run lists it, since `ExecutionKept` says it of the results too. It says that a captcha
  that was read ends as neither success nor failure, that one that was emitted does only
  when the reading broke off, and that nothing read is left to put; it says nothing of
  timeouts and cancellations.
- `PromiseCorrect` rests on `ProcessInv`. A step of one execution changes what the promise
  sees of that one alone (`PromiseOfOne`), and most steps change nothing (`PromiseUnseen`):
  an event read moves from the pipe to the frames and is owed all the same, the end of the
  process and the reading of its events may come in either order. That leaves the start,
  an emission, the last frame put, the broken-off reading (`PromiseBrokenOff`), the result,
  the report, and the cancellations; an emission nobody reads is a stutter.
  `ResultFits` compares `classifyOutcome`, which sees what was read, with `ResultsOf`, which
  knows what was emitted: with the pipe empty they are the same (`CaptchaKnown`), and when
  the reading has broken off, what was emitted counts as far as it was read.
- `WaitsCorrect` adds `WaitInv`: the loop leaves a stream, and the pump stops, only when the
  stream or its context has ended; the task about to be started has no execution; and
  `Run` waits for a process there is. From it, `LoopsGoOn` and `RunGoesOn` list the steps that
  can be next, and the theorem says that one of them always can, except in `Stuck`, when
  the process is over, or when a forked process holds the pipe. With the fairness of section
  5 this is the safety part of `ReconnectsUnlessStuck` and `DeadlineEnds`, for any capacity
  and any number of tasks. That a disjunct of the two lists means that an action under
  fairness is enabled is not provable here; TLC checked it, and `WaitInv`, over the states of
  `worker_process`, and the refinement also with two events of two kinds (868 808 states).

For `LogStore`:

- `PromiseCorrect` rests on `TypeOK /\ FlushInv`; `FlushInv` says that a flush under way
  holds lines, and that what it has read is the object as it is, or nothing.
  An upload is then the promise's `Store` of as many lines as were taken, or its
  `StoreInDoubt`; taking and putting back move lines between the two halves of
  `promised` and are stutters.
- `StopCorrect` rests on `ShutdownInv`: every line written is in hand, in the buffer,
  in the object, or gone; and once the last flush is under way, the ones written before
  the shutdown are no longer in the buffer alone.
- `CountsCorrect` rests on `CountsInv`: lines in buffer and batch are distinct and
  written, so the counts of a batch put in front of a buffer add up.

For `SourceToRun`:

- `UsableCorrect`: whoever marks the row has uploaded, whoever uploads has a commit,
  and an archive is replaced, never taken away (`UsableInv`).
- `RecordCorrect`: `OneSync` (the sync under way has read the version on record, the
  key on record holds the commit on record) and `OnRecord` (an execution that has
  not downloaded yet holds a key no later sync writes), both as long as no two
  syncs have overlapped.
- `DepsCorrect`: `LockHeld` (whoever looks for or builds an environment holds its lock,
  and no other execution of the same worker does) and `Sound` of every environment that is
  not `spoilt`: whoever builds it is alone with it on all workers, somebody is installing
  what lacks packages, and whoever runs in it has them. An environment becomes `spoilt`
  the moment a second worker meets one that builds, which is what the step that takes a
  lock beside a builder, and the miss beside a holder, record; that nothing else breaks
  `Sound` is what the proof shows.

For `NotifyCache`: `AgeInv` (a copy has used up as much of its time as it has aged)
and `SeenInv` (what was read without a write beside it is what the table holds, and
no write has begun since).

*Only model-checked*: liveness (`TimeoutsRetried`, `RowsSettle`, `SlotsReturn`,
`CallsReturn`, `EventuallyStored`, `ReconnectsUnlessStuck`, `DeadlineEnds`), because
the prover does not handle fairness and ENABLED, and the three violations of section 7. What a recursive definition
computes for every input is out of the prover's reach too; no module here declares
a RECURSIVE operator.

## 7. Findings

- **Two crons run** (`schedule_overlap`). `runner.go:58` says `Reload` is safe to
  call at any time; only the swap is under the mutex. When a second reload stops
  the first one's cron before the first has started it, both crons run from then
  on and every schedule fires twice.
- **A failed read overwrites a log** (`log_transient`). `minio.go:96` says the
  upload meets the same error as the read before it; if the store answers again
  in between, the upload succeeds and replaces the log by its latest lines.
- **A worker never returns** (`worker_stuck`). `worker.go:68` says `Run` returns
  when its context is cancelled. It waits for the heartbeat loop, and the
  receive loop puts frames itself; once the outbox is full and its pump gone,
  either is blocked for good (`StuckForever`, section 6, for any capacity).

Met while modelling, without a run of their own:

- `service.go:329` speaks of "a worker disconnect that re-queued tasks"; nothing
  re-queues, and rows of a lost session stay running.
- `README.md` calls captchas non-retryable; if the spider goes on after its
  captcha event until its deadline, the final report is TIMEOUT, which overwrites
  the status and is retried (`Outcomes` in `WorkerRuntime`).
- `retry.go:134` says the bound on the attempts prevents the pause from overflowing;
  with `max_delay_s: 0` and the default base, attempt 30 leaves the range of an
  int64, and the pause is negative on amd64 (`FloatToDuration`).
- `executor.go:436-438` says that `uv venv` reinitializes an environment left partly built
  by a crash; the test for a cache hit, made before, takes it as ready once it has a
  python (`CacheHit`, `WorkerCrashes`). The same holds of one that a failed removal has
  left: the error of `RemoveAll` is ignored (`:441`, `:461`, `:468`; `UvFails`).
- `executor.go:413` says "Serialize concurrent installs for the same hash". The lock is a
  map of one process (`:419-424`), and `docker-compose.prod.yml` mounts one `worker_venvs`
  volume in every replica of the worker. Two workers can build one environment at once,
  run in it half built, or remove it under each other (`Lock`, `Elsewhere`; `spoilt` in
  `RunsWithItsDeps`).
- `executor.go:13-17` says that Run "Enforces the task timeout — SIGTERM first, then
  SIGKILL on the process group to take down any spawned children", and that it "Returns
  when the subprocess exits, the timeout fires, or the parent ctx is cancelled". The
  context kills the process alone, with SIGKILL; `Run` then waits for its pumps (`:204-206`)
  and kills the group only after they have ended (`:212-214`). A forked process that holds
  FD 3 keeps `Run` waiting past its deadline, and past a cancellation, for as long as it
  likes (the exception of `DeadlineEnds`). And the deadline is that of the process:
  download and installation before it (`:118-141`) have none.
- `pumpEvents` ends for good at a line above 4 MiB or an error of the pipe (`:697-703`);
  the comment there speaks of the log line it writes, not of what follows: a captcha
  emitted later is not in the result, and the execution ends as failed or succeeded
  (`EventsCutOff`).
- `CancelRunning` sends on an outbox it looked up before (`hub.go:369-374`); if the session
  was unregistered in between, the channel is closed and the send panics. In an API call
  the HTTP server recovers and the row stays cancelled (`CancelPanics`).
- An update whose `SetStatus` fails releases nothing (`hub.go:214-227`), on a live stream
  too: the entry of `h.tasks` and the slot stay, the latter until the next heartbeat
  (`ReadUpdateFails`, `kept` in `AssignmentsBacked`). `OnUpdate`'s retry is lost as well.
- `notify.go:244` says that after `invalidate` "the next Notify reloads"; a refresh under
  way stores the rows it read before, and the next event goes to those
  (`StaleMeansOverlap`).
- Two syncs of one spider at once write the same key, and the commit on record may
  be the one whose archive was replaced (hence the hypothesis of
  `RunsWhatWasOnRecord`).
- `level_counts` are merged with `||`, so they are the counts of the latest flush
  and not totals (`artifacts.go:82`, `Counted` in `LogStore`).
- After any reload the shutdown stops a cron that is no longer in use
  (`runner.go:51`).

## 8. What is not modelled, and abstractions made

- *Executor*: unpacking an archive, process groups, the pumps of stdout and stderr
  (they end with the process like the reader of the events, and put frames like
  it), the log lines of the preparation, and the parsing of event lines. An event
  is a captcha or something that leads to a frame. A line that does not parse leads to none
  and changes nothing; a line that is too long ends the reading. In `TaskControl` all that remains of the executor
  is the set of results, the early captcha report and cancellation;
  `<<"FAILED", "deps">>` stands there for every failure before the process runs.
- *Item and artifact sinks*: one statement or upload each, with no state of their
  own. Log, item and artifact frames are left out of `TaskControl`; they change
  nothing of its state.
- *Live log*: the fan-out over Redis and the viewer that subscribes to it are not
  modelled yet.
- *Database*: in `TaskControl` the statements of `OnUpdate`, of the retry decision, of
  `buildAssign` and of `Cancel` may fail, carried out or not; in `ScheduleRunner`,
  `NotifyCache`, `SpiderSources` and `LogStore` those of the calls and flushes. A query of
  the dispatcher that fails is one more round. `last_sync_error` is left out: nothing
  but the API's listing reads it. One spider in `TaskControl`, whose policy does not
  change; one spider in `SourceToRun`, since rows and keys of spiders are apart.
- *Strings*: statuses, classes, levels and kinds of event are what they are compared
  with. The retry block's strings are taken trimmed and in lower case. The symbolic
  links, sizes and names inside an archive are left out.
- *Notifications*: the text of a message, the HTTP request to the channel and its
  failures, which are only logged. A copy is a set of rows, not a list.
- *Authentication, web UI, crawlerkit-py*: see the table in section 1. The first keeps
  users and signs tokens, one call each; the second only shows; the third is Python
  that runs inside a spider and is seen through the events it emits.
- *Sessions* are used once each; their number bounds the connections of a run.
- *Log sink*: one task, since tasks share only the flusher's goroutine. A read cut
  off by a shutdown and the upload after it fail as one step. A tick that comes
  together with the cancellation puts back what it takes and is left out.
- *Schedules*: jobs of one entry do not overlap, a minute lying between them;
  `last_run_at` and `last_task_id` are not kept; expressions parse, as the API
  checks them. A row is not created again under the id of a deleted one.

## 9. Running it

    tlc -workers 2 -config TaskControlFaults.cfg MCTaskControl.tla
    tlapm TaskControl_proofs.tla

`PROJECT.json` names module and configuration of every run.
