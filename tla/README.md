# LocalFlow: TLA+ models, model checks and proofs

LocalFlow (`src/src/localflow`) runs commands on one Linux host as *tasks*: a
controller process keeps task rows in SQLite, starts each task as a transient
systemd unit, watches it, stops it on request and recovers after crashes. This
directory holds TLA+ models of it, TLC configurations and TLAPS proofs.

## 1. The system

| Component | State it keeps | Operations | Source |
|---|---|---|---|
| Task service | coroutines per task (starter, waiter, stop sequence), queue cursor, wake event, stopping flag | submit, batch, interrupt, schedule, start, wait, recover, shutdown, stop, maintain | `service.py` |
| Store | tasks, batches, events, idempotency receipts, acknowledgements, deferred seeds | create, list, `transition` (compare-and-set), set_blocked_by, events_after, purge | `storage.py` |
| Systemd executor | descriptor and exit file per task; the unit itself lives in systemd | start, wait, interrupt, is_running, completed_code | `executor.py` |
| Supervisor | the program's pseudo-terminal, log writer, control socket | run, forward signals, record the exit code | `supervisor.py` |
| Subprocess executor, process owner | child process table, owner's control socket | the same, without systemd | `executor.py`, `process_owner.py` |
| Start of a controller | instance lock, state marker, process id, workspace files | validate, lock, set aside, fill in, publish | `cli.py`, `paths.py`, `settings.py` |
| Task logs | log file, cached sizes, integrity receipt | bounded append, integrity | `log_files.py` |
| Submission and retention | receipts, batches, seeds, log directories | submit, replay, purge, evict | `api.py`, `storage.py`, `service.py` |
| Terminal socket | byte offset, unacknowledged chunk; the page's terminal | replay, acknowledge, input, reconnect | `api.py`, `frontend/src/App.jsx` |
| Event stream | event table, one cursor per connection, browser channel | append, stream, reconnect | `api.py`, `frontend/src/connections.js` |
| Authentication | nonces, current and previous keys | issue, verify, rotate | `auth.py` |
| Configuration and workspace files | files, their versions | read, write with expected version, move, delete | `config_repository.py`, `workspace_repository.py` |
| Configuration editor | open file, drafts, requests in flight | open, type, save, move, react to events | `frontend/src/App.jsx` |
| Watcher | last seen versions | reconcile, append events, reload plugins | `watcher.py` |
| Plugins | loaded instances, generation, diagnostics | load, resolve | `plugins.py` |
| Pure parts | - | variable resolution, result scan, log search, terminal windows | `variables.py`, `results.py`, `service.py`, `terminal_windows.py` |

The controller is one asyncio event loop. A stretch of code without a suspending
`await` runs undisturbed; at every suspending `await` any other coroutine may run,
and at any point at all systemd, the supervised program, a controller crash or a
host reboot may step in. Components meet in the task row: requests, the scheduler,
starters, waiters, stop sequences, recovery and shutdown all write it through
`Store.transition`, which succeeds only from the states the caller expects. What
happens outside is observed through two channels that change at different times:
systemd's answer about the unit and the exit file.

What is hard about it, and therefore what the properties are about:

* a row in `starting`, `running` or `stopping` holds its keys and a slot; many
  coroutines may end it, and it must be ended once, with the right verdict, and not
  while its processes live;
* `executor_ref` is recorded after the unit exists, so there is a window in which a
  live unit belongs to a row that says it has none;
* the exit file is truncated, then written, then the unit leaves; readers may look
  between any two of these;
* scans admit several rows, one transaction each, from a snapshot, with a cursor
  carried from scan to scan;
* stops, start errors, probe errors, kill errors, deadlines and restarts overlap;
* files are shared with people, editors and other processes that keep no protocol: a
  task log has three writers, the workspace has any number;
* a browser page holds cursors, drafts and requests in flight while everything behind
  them changes, breaks or restarts;
* logs are read in blocks, while what is looked for lies across block boundaries.

`PROJECT.json` lists each of these hazards with its line and the properties that
would notice it going wrong.

## 2. Modules

| Module | What it is | Used by |
|---|---|---|
| `TaskService` | the controller, its rows, the units and exit files; properties | `MCTaskService`, `TaskServiceProofs` |
| `KeyLock` | what admission promises: all keys and a slot at once, kept to the end, given up once | refined by `TaskService` |
| `TaskServiceClaims` | a sentence of the documents that the code does not keep in every run | `MCTaskService` |
| `BoundedLog` | any number of writers on one log file with limit, disk reserve and receipt | refined by `TaskLog` |
| `TaskLog` | service, executor and supervisor writing one log, and the program's terminal | `TaskLogProofs` |
| `Submission` | requests become rows, rows go away again | `MCSubmission`, `SubmissionProofs` |
| `EventStream`, `TerminalSocket` | the two connections of a page, server and browser side | composed in `BrowserChannels`, `BrowserChannelsProofs` |
| `ConfigFiles`, `Watcher`, `ConfigEditor` | files and requests; the watcher's pass; the page's editor | composed in `Workspace`, `WorkspaceProofs` |
| `Plugins` | plugin files, the registry, a task that a plugin expands and judges; extends `Watcher` | `PluginsProofs` |
| `ProcessFamily` | subprocess executor, owner process and the processes of a command | `ProcessFamilyProofs` |
| `Startup`, `Instance` | controllers coming up on shared directories; the key file and signed requests between them | `MCInstance`, `InstanceProofs` |
| `LogSearch`, `ResultScan`, `TerminalWindow` | the three block-wise readers of a log | composed in `Scans`, `MCScans`, `TaskLogProofs` |
| `...Proofs` | eight modules of theorems; `TaskLogProofs` is about the writers and the readers of a log, the others about one specification each | |

A definition marked "Mutant:" is a plausible bug of the definition after it; it is used
only to see that a property notices it.

### TaskService

*State.* Durable: `state`, `stage` (`interrupt_stage`), `ref` (`executor_ref` is
set), `blocked_by`. Outside the controller: `unit`, `killed`, `exit`, `rebooted`
(the boot id differs from the one in `host-boot.json`). Volatile: `ctl` (what the
process is doing), `todo` and `seen` (the loop of recovery or forced cleanup),
`cursor`, and per task `starter`, `waiter`, `seq`. `Wipe` is the loss of the volatile
part.

*Actions.* One per stretch between suspending awaits:

| Actions | Code |
|---|---|
| `Submit`, `Interrupt` | `submit`, `interrupt` |
| `Schedule`, `CrashInSchedule` | `_schedule`; the crash keeps a prefix of its transactions |
| `StartSpawn`, `StartReturns`, `StartFails` | `_start` around `SystemdExecutor.start` |
| `WaitReturns`, `WaitError`, `WaitProbe`, `WaitFinish` | `_wait`; the outcome is computed before the result evaluation (a thread) and written after it |
| `SeqAction`, `SeqEscalate`, `SeqKill`, `SeqKillError`, `SeqConfirm` | `_interrupt_sequence`, `_confirm_forced_exit` |
| `StartController`, `RecoverRebooted`, `RecoverRead`, `RecoverError`, `RecoverDecide`, `RecoverDone` | `start`, `recover`; the exit file and the unit are read in two steps |
| `ShutdownBegin` ... `ForceConfirmed`, `ForceError`, `ControllerExit` | `shutdown_all`, `stop` |
| `UnitStarts`, `ProgramExits`, `ExitRecorded`, `UnitInactive`, `UnitVanishes` | systemd (external) and `supervise` |
| `Crash`, `Reboot` | external |

`_schedule` is written declaratively: `Admits(S)` says that `S` is exactly the set of
visited rows that meet no held key, `Scanned(S)` which rows the loop reaches before
the capacity is used up. For every state there is exactly one such `S`, because
membership of a row depends only on earlier rows.

*Abstractions.* Task `t` is the `t`-th row in `list_tasks` order. No integer limit
means as many slots as tasks. A gentle stop action either makes the program end
(then `ProgramExits` happens) or does not; its waiting time is not modelled, and a
repeated interrupt, which only cuts that wait short, changes nothing. Exit codes are
zero or nonzero. Batches, seeds, retention, events and logs have modules of their own. The limit does not change across restarts. Every task has
the same number of stop actions (`StopActions`).

*Faults* are switched on per instance by `Events`: requests to interrupt or shut
down, failing `systemd-run`, `systemctl show` and `systemctl kill`, a torn exit file,
a control group killed by the host, controller crashes and host reboots. Each may
happen any number of times.

### BoundedLog and TaskLog

`log[w]` is the `BoundedLogWriter` object of writer `w` with the file size it cached
when it opened the file; `size`, `marked` and `receipt` are what is on disk. `Open` and
`Write` are the constructor and `write`, with every outcome of the file operations
(`MarkOutcomes`, `WriteOutcomes`): stored, cut at the limit, refused for the disk
reserve, failed half-way, receipt updated, removed or left. The check of free space,
made once per MiB in the code, may happen at any write. `TaskLog` says who the writers
are and when: `_log_lifecycle` of the service, `SystemdExecutor.start` whose writer spans
`systemd-run`, and the supervisor's loop. `dropped`, `broken` and `foreign` are history.

A round of that loop is a `select` on two descriptors, one step per descriptor reported
(`Ready`, `Serving`), and a `waitpid`; the supervisor may be killed in any of them.
`SupervisorReads` stores a piece of output. `SupervisorReceives` takes a message from the
control socket, a resize or input, and `SupervisorTypes` is the `os.write` of that input to the
terminal, byte by byte, which blocks while the terminal's input is full (`Blocked`). So a
program in raw mode that never reads its input stops the draining of its own output; nothing in the code
prevents that, and `OutputKeepsDraining` excepts it (`[]<>~Blocked`). `TypingFails` is the
same write raising because no process has the terminal open any more: the supervisor ends
without the exit record. Left out are a malformed resize message, which also ends the supervisor, a
message longer than the 65 536 bytes of a receive, echo, and a terminal in line mode, which drops input that does not
fit instead of blocking.

### Submission

Rows, receipts, batches and seeds are tables; a route is one step because it does not
await, except that `POST /tasks` commits its row and its receipt in two transactions
(`CreateTaskTorn` is the crash between them). `ClockSeed` and `DeferredSeed` draw from the
wall clock, which may be set back. `maintain` is a purge, then one log directory after the
other, then eviction down to the budget. `Start` also repairs the batches of a database
of the first format. A plugin may expand to no draft at all, which nothing refuses: the batch row
without a task stays until the next deletion of rows clears such batches away. These batches have no
task to name them and are one element of the table (`Hollow`).

### EventStream and TerminalSocket

Each module has the server's handler, the frames under way and the page. A connection
may break (both sides see it) or stall (only the watchdog does). The channel of
`connections.js` is shared by a count of consumers; its cursor follows the last delivered
event; a fetch is the set of the oldest rows after the cursor. `BrowserChannels` is the conjunction of the two
with interleaved steps.

The terminal's handler sends one chunk, awaits its acknowledgement, and reads input
meanwhile. What the page asks for is a range, in one of four directions: the last bytes of a log it follows,
an earlier or a later page, or the surroundings of a search hit. On connecting, the handler narrows the
range to a window (`Windows`): at its start for the newest output and for an earlier page, at its end
for a later page, and at both for a hit. Only a stream that follows the log of a
task that runs has no end (`Live`); any other stops at the end of its window, even when the range
went further. A view is therefore promised (`Promised`) its window, and `PagesJoin` says that the next page goes on
within it. The page renders and acknowledges, types, turns pages (`EarlierPage`, `LaterPage`, `OpenHit`),
follows the log again after its last page (`Resumes`), and opens its range anew after a break, a
resize or another theme (`Reconnects`, `Reopens`). Two gaps are the code's: an earlier page whose
end lies beyond the size the page knows of the log is cut there and may not reach the page it came from
(`frontend/src/App.jsx:351`), and a view that follows the log of a task that is over has no later page, although
its window may end before the log does.

### ConfigFiles, Watcher, ConfigEditor and Workspace

A request is its check and then its one or two file operations, with edits on disk
between them (`raced` remembers those). A version is identified with the text it is the
hash of. Three paths in two directories, with texts that include a file of their own or of the
other directory, make every dependency between two files happen. The page's requests are in three steps (sent, served, replied); any of them may
get lost.

A pass of the watcher reads all versions and then announces one file after the other. Nothing
catches an exception of a pass. A file that is not UTF-8 (`Garbled`) is passed over when
versions are read, but the search for dependents reads it again and raises (`Traceable`,
`WatchRaises`), and so may the writing of an event, or `awatch` itself (`WatchFails`). Then `run()`
has ended (`dead`): no pass follows until the controller is started again, and nothing reports it. In `Plugins`
files may be garbled; in `Workspace`, which is about the texts that the page and the API write, they are not.

### Plugins

A load takes the digest of a file and executes it in two reads; it replaces the registry
if it found any plugin. `bytecode` is Python's cache, which does not notice a change of the
same time and size. `Expand` runs a configuration or a template through the registry and
`Evaluate` judges the ended task by name and digest.

### ProcessFamily

Processes fork, end and are reparented to the owner. `OwnerLooks` visits one process of
`/proc` at a time and `OwnerSignals` signals what the walk found, in between reaping and
receiving requests. `start` polls for the ready file under a timeout that may fire at any
moment, and aborts. A signal is never refused: an owner that met EPERM, from a program that
runs under another user, would end with its children alive (`process_owner.py:48`), but the installed service
sets `NoNewPrivileges` (`deploy/localflow.service:16`), which rules such programs out. Kernels without pidfds, where only direct
children are signalled, are left out too.

### Startup and Instance

`Validate`, `TakeLock`, `SetAside`, `WriteMarker`, `LookAtFile`, `WriteFile`, `FilesDone` and
`Publish` are the steps of a start, one per file operation that matters; a controller may
die after each. Data directories may have been used by an older or newer program, or be
damaged. `Instance` adds the key file and, per controller, generation, earlier keys and
nonces. One client signs one request that arrives twice. `since` and `disturbed` are
history.

### LogSearch, ResultScan and TerminalWindow

Letters stand for classes of bytes: for a window an ASCII byte, the first and a further byte of
a longer character, a tab and a line break, in any order, as a log need not be text. `SearchRead`, `SearchMatch`
and `SearchBlockEnds` are a block's read, one match of `finditer` and the end of the block; the log grows
between them. `Halve` is a pass of the loop that finds how many bytes fit, and `Steps` the
bytes by which an edge moves to a boundary. The reference definitions (`Occurrences`, `Whole`,
`Boundary` with `Cost`) are on the whole log. Two differences to the numbers in the code: a query
has at most one byte more than the overlap (4096 bytes; the API admits 512 characters), and on a terminal of
two columns what precedes a hit may fill the window if it is tabs, so that the hit is shown where `LeadFits`.

`ResultScan` reads the logs a task declares, one after the other (`rest`, `read`). `Consume` and `Feed` are the scan of a
piece: reports and the counts of errors, fatal errors and everything else (information, warnings), of which the last report's hold, and
the diagnostics of either severity after it. `Decide` is the result of one log, `Together` the worse of two, with the counts added
when they are equal; an exception ends the evaluation. A log is refused when it is empty, or known not to be whole
(`integrity`), and fails when it was changed between opening and the end of the scan (`touched`). A word of a report's heading, and the name of a count with its colon, are one symbol each, so `Keep` counts symbols
where the code keeps 128 characters, more than a heading or a name has; a prefix of a line is not cut at 128, and a number
of more than 4096 digits, which fails the evaluation, does not occur. A change of the log that restores its size within one tick of the
file's time stamp, which the code cannot see, counts as a change.

## 3. Runs

| Run | Instance | Checks | States |
|---|---|---|---|
| `Faults` | two tasks sharing a key, all events | `TypeOK`, `KeyExclusion`, `RecordedUnitGone`, `ReportedOutcome`, `Supervised`, `TerminalIsFinal`, `LaunchOnce`, `ImplementsKeyLock` | 1.2 million |
| `Stop` | two tasks sharing a key, two gentle actions; interrupts, shutdown | `CleanExit`, `StopEnds`, `ShutdownEnds` | 136 000 |
| `Queue` | four tasks, limit 2, pages of 2; failing inspections | `CapacityBound`, `BlockersHonest`, `QueueDrains` | 24 000 |
| `TaskLog` | limit 6, marker 2, a terminal of two bytes of output and one of input, reads of 1, output of 3, one lifecycle line, one control message of up to two bytes; all log faults | `HonestReceipt`, `OverlapBound`, `OutputKeepsDraining` | 740 000 |
| `Submission` | three rows, one key, one row of an old database, one day of retention, budget of one log, three clock readings, one crash | `OncePerKey`, `ReceiptsReadable`, `SeedsUnique`, `NothingDangling` (`BatchesBacked`, `LogsFollowRows`) | 3.6 million |
| `BrowserChannels` | three events in batches of two, two consumers, two breaks; a log of 3 in chunks and windows of 2, hits of 1, two drops, two moves (pages, hits, resizes), one reconnect | `ReplaySound` (`OneChunkInFlight`, `ReplayHasNoGap`), `NoSkipNoRepeat`, `EventsArrive`, `ViewCatchesUp` | 331 000 |
| `Workspace` | three paths, two texts to write; three edits, requests, restarts or acts of the user in any mix | `MoveKeepsFile`, `NoBlindOverwrite`, `DraftsKept` | 1.7 million |
| `Plugins` | two plugin files, three texts to write; three edits, also to a file that is not UTF-8, restarts or failures of the watcher | `ResultsByOwnCode`, `WatcherSettles` (`ReportsSettle`, `RegistrySettles`) | 1.9 million |
| `ProcessFamily` | four processes, two signals | `WaitHonest` (`FamilyGone`, `LeadersStatus`), `FamilyEnds` (`StartEnds`, `ForceEnds`) | 239 000 |
| `Instance` | two controllers, two directories (symmetric), two deaths, edits or rotations, a life of two ticks | `OneOwner`, `OwnFormatOnly`, `SignedOnce` (`NonceOnce`, `KeyCurrent`), `StartLosesNothing` (`StateKept`, `UserFilesKept`), `InTimeAccepted` | 3.6 million |
| `Scans` | logs of six letters in blocks of three; reports of three phrases, or of a heading and three more, in chunks of any length, two or three logs of one phrase with any integrity; texts of four to five pieces, malformed ones too, and a terminal of two columns and five rows | `SearchExact`, `VerdictWhole`, `WindowSound` | 859 000 |
| `ClaimExclusion` | two tasks sharing a key, crashes | `ProcessExclusion` is violated | |

A property with names in brackets is the conjunction of those. `TypeOK` of the modules other
than `TaskService` states the types for the reader; it holds on the same instances and no run
lists it.

*Why the bounds are enough.* Two tasks show every race between coroutines of one task
and a key passing from one to another; the scan pages need four. Every event of `Faults`
may happen any number of times. In the log, the limit can be met inside a lifecycle line,
inside output and while two writers overlap. Three rows let a batch, a retry and an
eviction meet. In `Workspace`, `Plugins` and `Instance` the bound is on disturbances, not on
the steps that follow them: the races of interest take two, one to start something and one
to fall into its window. Four processes are a leader, a child, a grandchild that is
orphaned, and one forked behind the walk. Six letters make two block boundaries. One message of two bytes blocks a terminal that holds one; a log of
three and windows of two make pages overlap and be narrowed at either end; three logs put an equal, a better and a
worse result after one another.

*Deadlock* is checked in the runs of `TaskService`: the controller can always be started
again. Elsewhere a bounded instance really stops when its bounds are used up or its work is
done.

*Fairness.* `TaskService`: asyncio runs every ready coroutine and its timers fire (weak
fairness of starters, waiters, sequences, recovery, shutdown and the scheduler); systemd
finishes accepted jobs and empties a control group that got SIGKILL; `WaitReturns` is
strongly fair, because a waiter that keeps inspecting a unit that has left succeeds at
some point although single inspections fail. `ProgramsEndSpec`, used only by `Queue`, adds
that programs end; `StopEnds` and `ShutdownEnds` hold without it. They presuppose a watcher that has not failed,
because the lifespan awaits it before `shutdown_all` (`api.py:324`). `TaskLog`: the
supervisor's loop goes on while it lives and `os.write` has room, for nothing else in it waits longer than a quarter
of a second; the program need not read. `BrowserChannels`: handlers and the page's
callbacks run, the watchdog and the reconnect timer fire; breaks are bounded.
`Plugins`: loads, the first scan and passes of the watcher, which come at least every
second, go on; once an exception has ended `run()` no pass is enabled, so nothing is assumed of it. `ProcessFamily`: owner and executor run; processes need not do anything.
Requests, errors, crashes, edits and the end of a program are never forced.

*Exceptions inside properties.* Some properties except a window that the code leaves open,
each by a history variable and each named in its comment: an edit on disk inside a request
(`NoBlindOverwrite`, `MoveKeepsFile`, `UserFilesKept`), text typed during a save, or between
a move of the open file and its opening under the new path, and a draft moved over unsaved text of a
removed file (`DraftsKept`), a load torn by an edit (`ResultsByOwnCode`), an edit before the first scan
(`RegistrySettles`), everything after an exception has ended the watcher (`WatcherSettles`), a supervisor blocked for good by
input the program does not read (`OutputKeepsDraining`), what lies beyond the window of a view with an end
(`ViewCatchesUp`), a clock set back and an eviction (`ReceiptsReadable`), a crash between
row and receipt (`OncePerKey`), an owner without a control socket (`FamilyGone`). The
mutants show that what is left is not empty.

### Where code and documents disagree

`ClaimExclusion` finds the gravest: after a crash between `systemd-run` and the recording of
`executor_ref`, recovery marks a live task lost and its key goes to the next task
(RQ-020, `docs/requirements.md:36`). The others met while modelling:

| Code | Document |
|---|---|
| a task that ends between recovery's two reads is marked lost in spite of its exit record (`service.py:308`) | `operations.md:48` |
| a start that fails after an interrupt leaves the row `stopping` for ever (`service.py:509`) | `architecture.md:46` |
| one failing `systemctl kill` ends the sequence that was to retry it (`service.py:742`) | `stopping.md:32` |
| a task interrupted while starting becomes `cancelled` on its exit file alone (`service.py:843`) | `stopping.md:32` |
| a failing kill in the forced phase ends the controller with active rows (`service.py:270`) | RQ-149 |
| with a limit, a newer task may overtake an older one (`service.py:489`) | RQ-022 |
| a restart resumes a task at stage `sigkill` with its first gentle action (`service.py:749`) | `architecture.md:62` |
| a repeated stop between two waits is discarded (`service.py:801`) | `stopping.md:25` |
| output still in the terminal when the child is reaped is neither stored nor reported (`supervisor.py:88`) | RQ-194 |
| a program that does not read its input stops the draining of its output (`supervisor.py:76`) | says nothing |
| a YAML file that is not UTF-8, or an event that cannot be written, ends the watcher for good (`watcher.py:94`, `watcher.py:99`); the shutdown then re-raises that exception instead of draining the tasks (`api.py:324`) | `skills/localflow-operations/SKILL.md:14` |
| `caught_up` may come before the last chunk is acknowledged (`api.py:1416`) | `api.md:237` |
| a rotation by another controller makes a nonce useless within its 30 seconds (`auth.py:165`) | `api.md:162` |
| an include added between check and rename is broken by a move or delete (`workspace_repository.py:132`) | `api.md:132` |
| text typed while a save is in flight is discarded; text typed after a move of the open file was sent is filed under a path that is not its file's; a moved draft replaces unsaved text kept for a removed file of that path (`App.jsx:2251`, `App.jsx:1866`) | RQ-159 |
| an event with a version the page saved earlier is ignored (`App.jsx:2087`) | RQ-147 |
| editing a plugin turns the result of its running tasks into an error (`plugins.py:623`) | `plugins.md:151` |
| a crash between the creation of a key file and its writing leaves an empty key until the first rotation (`auth.py:39`) | says nothing |
| a plugin that expands to no task leaves an empty batch (`service.py:120`) | says nothing |
| a template that fails half-way leaves its first tasks queued (`api.py:864`) | says nothing |
| an owner without a control socket is given up alive (`executor.py:168`) | comment at `executor.py:164` |
| a self-overlapping query may miss an occurrence at a block boundary (`service.py:935`) | comment at `service.py:932` |

## 4. Proofs

For every value of the constants that the named assumptions allow:

| Module | Theorem | Statement |
|---|---|---|
| `TaskServiceProofs` | `TypeCorrect` | `Spec => []TypeOK` |
| | `KeysExclusive` | `Spec => []KeyExclusion` |
| | `TerminalRowsFinal` | `Spec => TerminalIsFinal` |
| | `RecordedUnitsGone` | `Spec => []RecordedUnitGone` |
| | `LaunchedOnce` | `Spec => LaunchOnce` |
| | `OutcomesReported` | `Spec => []ReportedOutcome` |
| | `RowsSupervised` | `Spec => []Supervised` |
| | `ExitsClean` | `Spec => []CleanExit` |
| | `BlockersAreHonest` | `Spec => []BlockersHonest` |
| | `LimitKept` | `Spec => []CapacityBound` |
| | `RowsImplementKeyLock` | `Spec => ImplementsKeyLock` |
| `TaskLogProofs` | `LogInvariant` | `LogSpec => []LogInv` |
| | `TaskLogImplementsLog` | `Spec => LogSpec` |
| | `TaskLogReceipt` | `Spec => []HonestReceipt` |
| | `TaskLogBound` | `Spec => []OverlapBound` |
| | `SearchIsExact` | `ScansSpec => []SearchExact` |
| | `WindowIsSound` | `ScansSpec => []WindowSound` |
| | `VerdictIsWhole` | `ScansSpec => []VerdictWhole` |
| `SubmissionProofs` | `SubmissionInvariant` | `Spec => []SubmissionInv` |
| | `KeysOnce` | `Spec => []OncePerKey` |
| | `ReceiptsReplay` | `Spec => []ReceiptsReadable` |
| | `SeedsDistinct` | `Spec => []SeedsUnique` |
| | `DeletesClean` | `Spec => []NothingDangling` |
| `BrowserChannelsProofs` | `CursorNeverSkips` | `Spec => NoSkipNoRepeat` |
| | `TerminalReplays` | `Spec => []ReplaySound` |
| `WorkspaceProofs` | `MovesKeepFiles` | `Spec => []MoveKeepsFile` |
| | `OverwritesSeen` | `Spec => NoBlindOverwrite` |
| | `TypedTextKept` | `Spec => DraftsKept` |
| `PluginsProofs` | `JudgedByOwnCode` | `Spec => []ResultsByOwnCode` |
| `ProcessFamilyProofs` | `FamilyTyped` | `Spec => []TypeOK` |
| | `WaitIsHonest` | `Spec => []WaitHonest` |
| `InstanceProofs` | `DirectoryOwned` | `Spec => []OneOwner` |
| | `FormatServed` | `Spec => []OwnFormatOnly` |
| | `StartsLoseNothing` | `Spec => StartLosesNothing` |
| | `SignedRequests` | `Spec => []SignedOnce` |
| | `AcceptedInTime` | `Spec => InTimeAccepted` |

Every safety invariant and action property of the passing runs is proved.

### The controller

*Keys.* `OnlySchedulerAdmits`: no action but a scan makes a row active.
`ScanExclusion`: of two rows that are active after a scan, or after the prefix of a scan
that a crash leaves, the later one was admitted with no holder of its keys. With
`TypeOK` this makes `KeyExclusion` inductive.

*Terminal rows.* Every write to a row is a compare-and-set from nonterminal states or is
guarded by one; `TerminalStep` goes through the actions.

*Units.* `RecordedUnitGone` is not inductive: a waiter that has collected a code writes
the row later, and recovery after a reboot does not look at the unit. `UnitInv` adds
what they rely on: without a unit, or with one only requested, there is no exit file,
reference or waiter (`NoUnit`, `RequestedUnit`); a starter that has not spawned yet has an
active row and no unit (`CreatedStarter`); the waiter and the reference come with the
starter's last step (`StarterBeforeWaiter`, `RecordedStarted`); the waiter of a recorded
unit collects only after the unit has left (`CollectedUnitGone`); starters exist only
while the controller is up or closing (`StartersWhileUp`), and between a reboot and the
end of recovery no unit exists (`RebootedUnits`). `LaunchedOnce` follows from `CreatedStarter`.

*Verdicts, supervision, shutdown.* `VerdictInv` says what a verdict carried over an await
rests on: the code is written as the supervisor's last act (`CodeIsLast`), and what a waiter or
recovery has read still agrees with the record when it is used (`CarriedHonest`, `SeenHonest`).
`SupervisedInv` adds that recovery leaves a waiter with every active row it has visited.
`ShutdownInv` follows `shutdown_all`: from its interrupts on everything unfinished is stopping
(`AllStopping`), and the confirming loop has every active row still ahead of it (`ConfirmAhead`).

*Admission.* `BlockersHonest` needs that a task named as a blocker has left the queue and that no
step puts it back. For `CapacityBound` the rows a scan admits are counted:
`Scanned` stops when the capacity is used up, the last admitted row is found by a
well-founded minimum, and cardinalities do the rest. `RowsImplementKeyLock` classifies every step by how it moves rows
between the phases new, waiting, holding and released (`Moved`, `QuietMove`): an ask, a withdrawal, a
release, or the grant of a scan, which `KeysExclusive` and `LimitKept` show the lock allows.

### Logs, requests and pages

*Logs.* `OverlapBound` needs what each writer believes: `CachedSizes` says that a writer's
cached size falls short of the file by no more than what others appended while it had the
file open, and that a writer that still stores has room for its marker. `HonestReceipt` needs
`LossReported`: a dropped byte leaves a receipt that says so, or a failed update on
record. `WriteOutcomesBound` bounds the outcomes of one `write`, `WriteInv` and `OpenInv` are
the two operations. `TaskLogImplementsLog` maps every step of the three processes to a step
of one writer or a stutter, so that the properties carry over.

*Search.* `SearchInv` says that the block is a part of the log with what was carried over before it
(`BlockInv`), that the hits are occurrences in order and on their lines (`HitsInv`), and how far
the search has come (`FrontInv`): what ends before the block or begins before the next match is
reported or overlaps another occurrence, and no hit ends later. `NextMatch` is the step: an occurrence
that begins before the end of the match is the match, overlaps it, or was dealt with. A match that is
skipped ends in the overlap, so it was dealt with in the block before; at the end of a block nothing is left
in it because an occurrence that ends in it would be found.

*Window.* `WindowInv` brackets how many bytes fit, which is what halving needs: more bytes cost
no fewer rows (`CostMonotone`, by counting). `AlignedBack` and `AlignedOn` say where an edge comes to lie:
at a boundary it has passed no other for, or where it was if the bytes are of no character; the least
number of steps exists by the well-founded order of the naturals (`LeastExists`). A boundary further
on is then at least a byte beyond what fits (`ChosenSound`).

*Results.* `VerdictInv` says that the logs read so far came to a result that is no exception, and that, as long as the log
has not been touched, the scan stands where reading it up to its place in one piece
would bring it (`Scanned`), which has three parts. (1) Counts: the log that was read, compacted, is
done up to some place (`Fed`): the counts are those of the events before it, what follows is kept back, and no event
reaches over it or would begin before it if more were read (`DoneTo`). `FeedStep` carries this over a feed: compacting what is kept
back and what is read gives the rest of the compacted log (`CompactCut`, by appending symbol by symbol, as `AppendInduction`
allows for any predicate written as a set), events of a part are events of the text (`PartEvents`, `PartAmount`), counting in
parts is counting at once (`CountsCompose`), and what a feed keeps back begins before anything that could still become
an event (`FeedBound`, which is where `Keep` has to be at least two). (2) Headings: the reports change exactly when a heading ends in
what was read (`NewIff`), although the scan finds it in the compacted text. (3) Lines: the prefix that is kept
begins with the first symbol of the line that is no blank (`PrefixStep`), which tells whether it is a diagnostic, and of which
severity (`PrefixTells`), and the diagnostics counted are those after the last heading (`ErrsStep`, `ErrsBreak`). The line break that
the scan adds at the end changes none of it (`CountsBreak`), so a log that was not touched comes to what `Whole` says
(`OutcomeWhole`); several logs follow by `TogetherFine`.

*Submission.* `OncePerKey` bounds a count by another count; `KeysAccounted` is the account behind it:
a key has at most one receipt, and no more submissions than that and the receipts that were lost. `ReceiptsReadable`
needs `ReceiptsOlder`: a receipt is no younger than the end of its tasks unless the clock went
back, so it expires first. `SeedsUnique` is inductive with the types, for any number of seeds in one
transaction; the slots of a transaction are numbered by rank and the proof shows that ranks are
distinct. `LogsFollowRows` needs that a log under removal belongs to a deleted row
(`RemovesDeleted`). The attempt to prove `BatchesBacked` found that a batch may be empty; the model was
corrected and the property restated.

*Events and terminal.* `FeedInv` follows the rows from the table to the page: the rows a
handler has fetched, the frames on the wire and the page's cursor meet end to end, with no remaining
row between them (`BatchCovers`, `WireCovers`). `TermInv` is the same for the offsets of the terminal:
a chunk or its acknowledgement is under way, never both (`OneOfThem`), what is shown, the chunk and
the handler's offset are adjacent (`Adjacent`), and all lies within the window of a stream that has an end.

*Workspace.* `RequestInv` keeps what a request's check has established until its file operation, for
files that were not edited meanwhile; `MoveKeepsIncludes` is the fact about rewritten includes.
`DraftsKept` needs where the text of the open file may be (editor, draft or stored) and which path each
belongs to. The attempt to prove it found two ways to lose text that three acts of the user do not
reach (TLC finds them with five); the exceptions of the property now name them.

*Plugins.* A digest stands for the code it was recorded with in the load, the registry and the
task (`Faithful`), because between the two reads of a load the digest is that of the file
(`DigestCurrent`) and bytecode that fits a file was compiled from it (`CacheFits`).

### Processes and controllers

*Families.* `FamilyInv`: every living process but the owner has a living parent, so that an owner
without children is alone (`DrainedIsAll`, by a minimal counterexample over the order of forking), and
an owner that has left was alone.

*Directories.* `LockInv`: a controller past the lock holds the lock of its directory, and
its process id is published once it is up. `LeaveLock` covers every way to leave; the lock
is free when it is taken, which keeps the others' claims. `WorkInv` and `FormatInv` add, for each
moment of a start, what has been moved and which format the directory is left in when the start dies
there.

*Signed requests.* `SignedOnce` is not inductive: `AccessInv` adds that
nothing arrives before there is a nonce (`NoneBefore`), that earlier keys carry numbers of
generations that are over (`Numbered`), that the present key and earlier keys of the
nonce's generation have been in the file since it was issued (`KeysSince`), and that at
most one arrival gets past the nonce (`TakenOnce`). `KeysSince` survives a restart of the
issuing controller, which counts from one again, because its earlier keys are forgotten
with it. `AcceptedInTime` needs the converse, that the key of the nonce's generation is still kept while
the nonce lives.

### Assumptions and limits

The assumptions (`ConstantsAssumption`, `BoundedLogAssumption`, `TaskLogAssumption`,
`SubmissionAssumption`, `EventStreamAssumption`, `TerminalSocketAssumption`, `FilesAssumption`,
`WrittenAssumption`, `FamilyAssumption`, `StartupAssumption`, `InstanceAssumption`, `SearchAssumption`,
`ScanAssumption`, `WindowAssumption`, `CharacterFits`) give types, say that null values are no
members of the sets they stand beside, that a limit, where there is one, is larger than
its marker, that a query fits the overlap and a character the terminal, that a scan keeps back at least all but one symbol of a heading. The bounds of the runs (`Max...`) are constants like the others, so the theorems hold for
every bound. The inductive invariants hold on the instances of section 3 by TLC as well, except
`VerdictInv` of `TaskLogProofs`, which asks for a place among all numbers and is proved only.

Only model-checked: every liveness property (fairness and ENABLED are outside the prover). What a recursive
function computes is not proved either: `Value` stands for the number that digits denote, and the proof needs only
that equal digits have equal values.
Within the fixed sets of a specification the proofs are about what the sets hold: three paths and
the texts of `ConfigFiles`, two plugin files, the files of a start.

## 5. Not modelled

* How long a gentle stop action waits (`_wait_stop_action`): timeouts extended by output and the
  advance event only decide that, so `SeqAction` lets the wait end at any moment. The helper
  process of a command action is not modelled in `TaskService`; its executor is `ProcessFamily`.
* The subprocess backend under a crash of the controller: the documents promise nothing
  there (`docs/operations.md:52`), and its tasks end or go on unwatched.
* Admin sessions of the browser (`auth.py:58-130`): cookie and CSRF token are functions of the
  admin key and keep no state.
* Of the modelled parts: what the sections above name as left out (control messages that are malformed, echo and line
  editing of the terminal; signals refused for want of privilege; the limits on the text of a number; YAML files that are not UTF-8
  in `Workspace`).
* Read-only routes, serialisation, schema validation, path checks and symbolic links,
  `variables.py`, log formatting, the time service, rendering in the browser, the `stop` and
  `status` commands, the legacy `app_main` server, and the bundled plugins and tools: they
  transform input or call external programs and keep no state of their own that the
  properties are about.

`PROJECT.json` lists every component with its status, the hazards with their lines and the
properties about them, and the source lines of every definition.
