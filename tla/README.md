# Erledigen: TLA+ verification project

Erledigen is a single-user to-do application: a Bun server that keeps tasks,
notes, tags, recurring series, holidays and preferences in one SQLite file and
runs a small job queue beside its HTTP and WebSocket endpoints, and a Svelte
client that edits optimistically and keeps several tabs and devices in step
through WebSocket events. This directory holds TLA+ modules translated from that
source, the TLC configurations that check them on small instances, and TLAPS
proofs of what holds on every instance. Paths below are relative to the
repository; `server/`, `client/` and `shared/` stand for `packages/<name>/src/`
(`client/` for `packages/client/src/lib/` where that is shorter).

Contents: 1 inventory, 2 plan, 3 modules, 4 runs, bounds and fairness, 5 proofs,
6 disagreements between code and documentation, 7 not modelled.

## 1. Inventory

`PROJECT.json` has the same list with source files, modules and status, and each
hazard at its line with the properties that cover it.

| Component | State | Operations | Talks to |
|---|---|---|---|
| Job queue (`server/adapters/jobs`) | the `jobs` table | schedule, cancel, getPending, markRunning/Completed/Failed/Dead, recoverStuckJobs | runner, scheduler |
| Job runner (`JobRunner.ts`) | handlers, `started`, `stopping`, `polling`, the cycle's snapshot | register, start, stop, pollOnce, runJob, attempt | queue, handlers |
| Recurring jobs (`JobScheduler`, `jobHandlers`, `RolloverService`, `index.ts`) | none of its own: the next run is a row of `jobs` | boot, ensureRolloverScheduled, ensurePurgeScheduled, rollover, purgeDeleted | queue, tasks, preferences |
| Task storage (repositories, `TaskService`, `taskRoutes`) | every table, twice: SQLite and in-memory twin | create, createMany, update, delete, restore, forceDelete, replaceAll, purge | event bus |
| Recurring tasks (`RecurringTaskService`, `recurringTaskUtils`, `dateKeys`) | series, their generated tasks, statistics | generate, adopt, update, delete, computeStats | tasks |
| Import, export, restore (`ImportService`, `ExportService`, `SnapshotRestoreWriter`) | staged documents, backup file | export, validate, back up, replace, import level by level | every repository |
| Storage boot (`migrationRunner`) | `_migrations` | run what is pending, each in a transaction | database |
| HTTP server (`BunHttpServer`, `rateLimiter`) | requests under way, buckets, sockets | dispatch, drain, shutdown | routes |
| Realtime server (`EventBus`, `WebSocketManager`, `ConnectionManager`) | live sockets and their client ids | greet, publish, broadcast, reap, closeAll | routes, connections |
| Client connection (`websocketService`, `connectionStore`) | socket, status, attempts, timers, client ids | connect, handlers, backoff, ping, destroy | stores |
| Client task store (`taskStore`) | task rows, fetch under way | fetchAll, create, update, remove, restore, event handlers | HTTP API, connection, undo |
| Client entity stores (`entityStore` and subclasses) | rows of each kind | the same, generic | as above |
| Undo history (`notificationStore`, `taskActions`) | toasts, two stacks | push, undo, redo, expire | task store |
| Client preferences, tags (`preferencesStore`, `tagStore`, `TagService`) | preferences shown and saved, tag colors | load, save with rollback, rename, merge, delete | HTTP API |
| Keyboard and overlays (`keyboard`, `keybindings`, `uiStore`, `Modal`) | prefix, overrides, focus, modal, question | press, capture, confirm, open, close | everything |
| Drag and drop (`dragReorder`, `nndZone`, `dragStore`) | dragged row, target | hover, drop, renumber | task store |
| Editors of tasks (`TaskRow`, `InlineAddTask`, `TaskDetailModal`, `NotesModal`) | drafts, timers | open, type, commit, cancel | task store |
| Notes of days (`DayNoteField`, `LiveMarkdownEditor`, `liveLines`) | working text, timer, lines and caret | type, save, mount | day note store |
| Someday panel (`SomedayPanel.svelte`) | active tab, forms, editors, deletion under way | add, rename, delete a list or tab | stores |
| Quick add (`createFromText`, `parse*`, `formatFrequency`) | none | a line of text to schedule, date, tags | stores |
| Habits (`HabitsModal`, `HabitScheduleForm`, `HabitHeatmap`, `recurringTaskStore`) | form, detail, habits shown | save, delete, open, generate | recurring tasks |
| Projects and overview (`ProjectsModal`, `HillProgress`, `projectHome`, `projectMilestones`, `summary`) | forms, hill | create, edit, date, drag, gather, sum up | stores |
| Palette (`SearchModal`, `paletteCommands`) | query, command under way, selection | search, stage, run | stores |
| Window of days (`DayList`, `DateMinimap`, `dateViewStore`) | the rows rendered, the month rail, jumps | grow, trim, go to | habits |
| Import form (`SettingsModal`, `refetchAll`) | file, format, mapping, request | choose, agree, send, refetch | import routes |
| Foreign formats (`adapters/import`, `adapters/export`) | none | write, read | import and export services |
| Wire formats, presentation | none | validate, render | |

**What is hard.** Nothing in this program shares memory between threads; what
interleaves are promises, timers, sockets, the clock and process deaths.

* *Job runner.* A cycle works from copies of rows taken before its awaits, while
  callers cancel rows, `stop()` waits for it, a timed-out handler goes on, and the
  process may die between any two statements. Correct means: no job is lost, run
  twice at once by its own doing, retried too early or too often, or revived after
  it was settled; `stop()` drains.
* *Recurring jobs.* There is no cron: a daily job exists because the run before
  scheduled it. A boot, a crashed run, a preference change or midnight between two
  statements can break the chain or double it.
* *Client stores.* A response, its echo and other clients' events arrive over two
  channels with no common order; optimistic edits overlap; a socket that drops
  loses events. Correct means: when everything is quiet the store shows the
  server's rows, each once.
* *Drafts.* An editor keeps a copy of what it edits while answers, events and
  timers go on below it. Correct means: what is typed is neither lost nor written
  to another row, and no field is written that its user never entered.
* *Restore and import.* All of a document or none of it, a backup before it, and
  a snapshot that is accepted again.
* *Recurring tasks.* Generation runs at several places and must be idempotent.
* *Shutdown and limits.* A drain loop over counters; a token bucket.

## 2. Plan

Written in this order, each step with its runs and, where named, its theorems:

1. the queue and its worker under crashes: `JobQueue`, `JobLifecycle` (the abstract
   specification), `JobRunner`, `JobRunnerProofs`;
2. what the worker does every day: `DailyJobs` over the same queue,
   `DailyJobsProofs`;
3. several tabs and one server: `TaskSync`, `Connection`; one tab that undoes:
   `UndoHistory`, and its keys: `Keyboard`; composed by `MCSync`;
4. the server's data: `Storage`, `Snapshots`, `RecurringSeries`, `Calendar`, `Formats`;
5. the server's life: `HttpServer`, `HttpServerProofs`;
6. the stores and forms of the client, one module each, composed by `MCClient`;
   the stores of whole rows, the import form, the notes of days and the editors of a
   task, `EntitySync`, `ImportForm`, `DayNotes` and `TaskEditors`, with variables of
   their own in `MCRows` and proved about in `RowsProofs`;
7. proofs of what the tabs promise: `RecursionLemmas`, `TaskSyncProofs`,
   `ConnectionProofs`; of what a restore and an import promise: `SnapshotsProofs`;
   of the two storage adapters and of the recurring tasks: in `HttpServerProofs`.

What would come next: proofs about the other forms of the client; an abstract replica as the
specification of a tab that watches; the JSON surgery of tag renames.

## 3. Modules and the code they model

Definitions marked "slip" are not part of the model: each is a bug the
neighbouring definition might have; exchanging it for the original makes the
property it is listed with in `PROJECT.json` fail. That is how we know that a
property depends on the code it is about. `PROJECT.json` also maps every other
definition to its lines.

Conventions: an `await` is a boundary between actions unless the module says why
not; a request is "sent", then served, then answered (or lost), in any order;
history variables (`starts`, `crossed`, `lost`, ...) are read by properties and
bounds only and are commented where they are declared.

### JobQueue, JobLifecycle, JobRunner
`JobQueue` has every statement of `SqliteJobQueue.ts` as an operator from table to
table. A statement is atomic (bun:sqlite runs it synchronously). Ids are row ids;
"unused" and "deleted" stand for the absence of a row before INSERT and after
DELETE. `JobLifecycle` is the promise of the interface `JobQueue.ts`, for one job
at a time: queued, taken, done / back with a try less / buried, withdrawn only
while queued, interrupted jobs put back without charge. `JobRunner!Lifecycle`
instantiates it with a refinement mapping from the columns (`LifeOf`).

| Action of `JobRunner` | Code |
|---|---|
| `Boot`, `Register` | `index.ts` builds a runner; `register()` |
| `Start`, `Stop` | `start()` with the recovery statement; `stop()` with the wait for the cycle |
| `Poll`, `Skip`, `Begin`, `EndCycle` | `pollOnce()`, `cycle()`, the head of `runJob()` |
| `HandlerEnds`, `TimeOut`, `LateHandlerEnds` | the race in `attempt()`; the loser goes on |
| `Settle` | `markCompleted`, `markFailed` with backoff, `markDead` |
| `StorageError`, `Crash` | a queue statement throws inside `cycle()`'s try; the process dies |
| `ScheduleJob`, `CancelJob`, `Tick` | callers of the queue, the clock |

### DailyJobs
The clock counts three slots a day (from midnight, from the purge hour, from 9am):
these are the only instants the schedule tells apart. Since bun:sqlite is
synchronous, the promises of a poll cycle resolve within one turn of the event
loop, so requests and signals are served only between cycles (`phase = "idle"`);
a crash and midnight can fall between any two statements. `BootRollover`,
`BootPurge`, `StartRunner` are the order of `index.ts`; `Begin`, `RollTask`,
`PurgeDeleted`, `Chain`, `Settle` are a run of a handler statement by statement.
`CreateTask`, `EditTask`, `DeleteTask`, `RestoreTask` keep the columns rollover and
purge depend on; `EditTask` leaves `original_date` and `days_late` alone, as
`update()` does. `MCDaily` checks two scenes over the same variables: one task and
fixed preferences, or no task and a user who switches the rollover.

### TaskSync and Connection
`TaskSync` is the client's task store between its two channels. `reqs` holds HTTP
requests, which reach the server and are answered in any order; `wire` is the
WebSocket of each tab, in order but lost when it breaks; `fetch` is the one
`GET /api/tasks` a tab has under way.

| Action | Code |
|---|---|
| `Connect`, `Cut`, `NoticeClose` | registration and greeting of a socket; its end, and the browser noticing it: the request header loses its client id at once, the echo filter keeps the old one until the next `connection:ack` |
| `Deliver` | `handleMessage`, the filter of `onServerMessage`, the store's handlers |
| `FetchAll`, `ServeFetch`, `FetchArrives`, `FetchFails` | `fetchAll()` with its coalescing |
| `Create`, `Update`, `Remove`, `Undo`, `RestoreFromTrash` | the store's methods up to their await, with the optimistic change |
| `PostTask`, `PutTask`, `DeleteTask`, `RestoreTask` | the routes: statement, event and answer in one step, or 404 |
| `Fail`, `Arrive` | a request or answer lost; what follows the await |
| `Retag` | a tag operation: all rows, one event, which makes the tabs fetch |

A tab that is not among `Latecomers` has loaded its page before the first edit;
`Courteous` says that nobody edits a row while something about it is under way.
`Connection` is the tab's end of the socket itself: several browser sockets, each
with the events still owed to the page, the backoff timer, the ping interval, the
status toasts.

### UndoHistory
One tab's deletions with their confirmations, the toasts that expire, undo by toast
or by key and redo, list deletions that go task by task (`DeleteList`, `DropNext`),
and the requests below them, which are refused or lost. `Remove` and `Restore` are
the store's methods with the optimistic change; `Serve` is the routes,
`DeleteAnswered` and `RestoreAnswered` what follows the await. `rows` says of each
task how often the tab shows it.

### Keyboard
A page that is worked with keys and mouse. `HandleGlobalKeydown` is the order of the
gates: Escape, an overlay, a modifier chord, an input or a focused control, the
matcher (`Feed`), each with what it does to a first key that waits. `Press` looks up
who listens, the row of the settings that captures a binding or the page; `Run` are
the handlers; `Expire` is the timeout. The mouse moves the focus, changes the lists,
opens modals and asks questions in between. Lists are the sections of the day list and
of the Someday panel; `Visible` puts the rows of all sections in one list, as the
effects in `DayList` and `SomedayPanel` do.

`MCSync` holds the two tabs of `TaskSync`, the one of `UndoHistory` and this one as
four scenes, which leave each other's variables alone; only what the history needs of
the task store (a row taken out and put back) is in two of them.

### The server's data and life
* `Storage` runs every repository beside its in-memory twin, call by call
  (`Create` ... `ReplaceAll` for each entity), and compares rows and answers: the
  services' tests use the twin, the server the table.
* `Snapshots`: routes that fill and empty the tables that refer to one another;
  `ExportData`, `Restore` (validation of `JsonRestoreImportAdapter`, backup, the
  replacing transaction statement by statement, crashes) and the import of foreign
  tasks level by level: a level's rows in one transaction, then its canceled rows to
  the trash, one by one (`CancelRow`), with a crash between any two of these steps.
  No call writes `dependsOn`, so it is null in every table; a document whose
  `dependsOn` names no row is one of the flaws.
* `RecurringSeries` with `Calendar`: generation over overlapping ranges, adoption,
  edits, deletion, statistics after every change; `Calendar` has date keys and
  schedules as the code computes them, and `Grid`, the reference they are compared
  with.
* `Formats`: the writers and readers of CSV, iCalendar and Markdown and the readers
  of Todoist and Things. A text is a sequence of symbols: quotes, separators, line
  breaks, backslashes, and whole words, dates and tags.
* `HttpServer`: migrations at boot, requests through limiter and handlers, sockets,
  the shutdown with its drain loop and deadline, the token bucket of one caller, made
  by its first request (`CallersBucket`).

### The client's parts (`MCClient`)
| Module | What interleaves |
|---|---|
| `Preferences` | loads, saves with rollback, tag colors (auto-assigned, sent as one map), renames, restores; answers in any order |
| `DragReorder` | snapping, renumbering, the PUTs of a drop, their failures, other tabs |
| `DayNotes`, `LiveLines` | the debounced note against events and answers; the lines of the live editor under the caret |
| `TaskEditors` | row editors, the detail form, debounced notes and the add field on one task that others write: its date and its note while these are edited here |
| `EntitySync` | whole-row stores with creates, renames, deletes, the holiday import, events |
| `SomedayPanel` | tabs, lists, forms; deletions that go task by task while others act |
| `QuickAdd` | nothing: a line of text through `parseRecurrence`, `parseDatePhrase`, `parseTags` and back through `formatFrequency` |
| `Habits` | the form, the detail and its statistics, generation, what other windows make |
| `Projects`, `Overview` | the project modal with its hill and lists; what a project's home, milestones and summary gather |
| `Palette` | staged commands, one write at a time, a list that changes under the selection |
| `DayWindow` | the two sentinels, growth and trimming, filters, jumps, the month rail |
| `ImportForm` | file reads, format changes, agreement to a restore, requests, refetches, among them those that another tab's tag operation starts (`OnTagRenamed`) |

In `TaskEditors` a note in the notes modal has three places: the lines its
`LiveMarkdownEditor` holds while the caret is in it (`noteLines`, from `StartNoteEdit`
to `BlurNote`), the modal's draft of it with its timer, and the store's row. While
there are lines, nothing that arrives changes them. The blur fires them whether or not
anything was typed, and `HandleTaskNoteChange` makes a draft of whatever it is given,
so a note that was only clicked into is sent 800 ms later with the text it had then
(section 6). It is assumed that Escape and a click outside blur the textarea before
they close the modal, and that an entry that is taken away with the caret in it fires
no blur.

`MCClient` holds one part at a time in generic variables (`x1`, `x2`, ...), so
that one run checks them all: the parts share no state in these models. `EntitySync`,
`ImportForm`, `DayNotes` and `TaskEditors` have variables by name, in `MCRows`, so that
they can be proved about (`RowsProofs`); `MCClient` extends it. What they
do share in the code (the task store below them) is `TaskSync`'s subject; here each
part has the server's rows, or a store of rows, as its own state.

## 4. Runs and bounds

| Run | Question | Bounds |
|---|---|---|
| `runner` | Do the books of the queue stay right in every interleaving, and does the runner implement `JobLifecycle`? | 2 rows of 2 types, 2 attempts, 2 faults: enough for a job cancelled or retried while the other is in hand, a crash in a retry, a stop in a cycle followed by a failed write |
| `live` | Is every handled job settled, do stops end, does a page find a server that is back? | runner: 1 fault, one type without a handler; server: 2 requests; page: 4 sockets, 2 breaks |
| `daily` | Do switches of preferences, boots and crashes leave one rollover per date and no pile of purges; do the chains go on? | scene 1: one task, midnight rollover; scene 2: no tasks, 4 preferences; 2 days, 1 fault |
| `daily_live` | Is every overdue task moved, never too far, and old trash emptied? | 1 task, 2 days, 1 fault, fair |
| `daily_9am` | Is a rollover always queued? (violated) | trigger 9am, no tasks, no faults |
| `sync` | Is a tab that watches right whatever the other goes through? Do tabs agree when users keep out of each other's way? Do undo and redo keep their promises, and the keys? | 2 tabs, 2 tasks; watch: one task the other's parent, 2 edits, 1 fault (also a lost answer), 1 cut; courteous: 3 edits, 1 tag operation, 1 failed request; undo: one tab, 2 deletions, 1 lost request, a history of 1 entry; keys: 2 pages (one without days), 1 action remapped to any keys, 2 questions |
| `sync_double`, `sync_reconnect` | Each row once; every change in every window? (violated, each for a reason of its own) | smallest instance that shows it |
| `server` | The parts of section 3 "data and life", one at a time | storage 4 calls; snapshots 3 tasks, 1 list, 1 tab, 1 series beside the seeded ones, 4 operations, 7 flaws, 3 foreign files, one with two canceled rows in a level; series 4 days around a month's end, 4 tasks, 5 calls; schedules 13 plans from 3 starts over up to 370 days; formats: own exports with every text of two out of seven symbols as notes, all Todoist files of up to four rows of seven kinds, wall times around a change of the clocks by up to 4 hours; process 2 requests, 1 socket, 2 migrations, 2 tokens |
| `list_move` | Does the SQLite twin keep what an update asked for? (violated) | the storage part of `server` |
| `snapshot_backup` | Is the backup restorable? (violated) | as `server` |
| `client` | The fourteen parts of the client | in `MCClient.cfg` and the INSTANCE statements of `MCClient.tla`; 2 to 4 rows, 2 to 5 acts of the user, 1 act of another tab, 1 lost request |

`MaxTime` and `LastDay` end the clock; `MaxRows` is the size of the jobs table
(never reached: `Insert` would have no fresh row and TLC would stop);
`MaxFaults` counts crashes, stops and failing statements together. With
`LastDay = 1` a job can be missed, caught up and retried after midnight; with
`Retention = 1` trash becomes old enough within the run. Two edits and one row to
start with are enough for a watching tab: its store depends on the order of
messages only, and every pair of events on a row occurs. A part of the client has
as many acts as its shortest counterexample to a slip needs, plus one for another
tab and one for a lost request. The users of `sync`, `server` and `client` stop
when their acts are used up, and a closed server stays closed, hence
`CHECK_DEADLOCK FALSE` there and in `live`.

**The properties**, by what they relate:

* *Queue and table.* `SnapshotAgrees`, `AttemptBudget`, `AttemptAccounting`,
  `SingleWorker`, `SettledIsFinal`, `NoEarlyStart`, `StopDrains`,
  `ImplementsLifecycle`; `EveryJobSettles`, `StopsEnd`.
* *Days.* `JobsDoNotPileUp` (one rollover per date, purges), `ChainsHold`,
  `NeverRolledAhead`, `CompletedMeansRolled`, `OverdueRolls`, `TrashEmptied` (what
  stays in the trash is removed sooner or later; not that no purge comes too early).
* *Tabs and server.* `WatchersAgree` (the store of a tab that only watches, with
  what is on its wire applied, is the table; the contents of parents excepted, whose
  completion by a child is not published), `RowsOnce` and `EditorsAgree` (each row
  once, and all tabs alike once quiet; only where users keep off a row that something
  is under way for, so neither speaks of overlapping edits of one row, of an undo that
  comes after another tab's restore, or of a page that loads while others write),
  `PageHolds` (one socket, whose id the requests carry), `PageReconnects`;
  `HistorySound` (an entry is consumed once, redo never forks, and the tab shows what
  is not in the trash), `KeysSettled` (a two-key action runs only right after its
  first key; a binding in conflict with none fires, after any remapping; j and k end
  on a task on screen; whoever asked a question gets one answer).
* *Data.* `AdaptersAgree`; `RestoreSafe` (a step of a restore leaves the old tables
  or exactly the document's, and never without a backup), `TreesKept` (what is
  exported is accepted until something is deleted for good; an import keeps its
  tree);
  `InstancesFollow` (one instance per date; generation leaves no date out; streaks
  are what the instances say), `SchedulesAreGrids`, `FormatsKept` (an own CSV or
  calendar is read back as it was; a Todoist row hangs under the nearest row of the
  depth above; no to-do of Things loses anything; a wall time that exists becomes an
  instant that shows it; Markdown shows every task once).
* *Process.* `ServesAndDrains` (only a complete schema serves; the drain counter
  never falls behind; unless the deadline passes no request and no job is dropped),
  `RateIsBounded`.
* *Client.* `PartsAgree` (once nothing is under way and nothing has crossed or
  was lost, each part shows the server's rows; a row lies where the drop showed it; a
  phrase is read as it is said back; a command runs once, on the row that is selected),
  `TypingIsKept` (a day's note and the editors of a task: what is typed stays until it
  is saved, the last word is the note, no write carries a field whose editor its user
  did not enter; a note that was entered is written by the blur), `ClientSteps`
  (what no step may do: take a color the user chose, lose or move a line of a note,
  empty a form whose row is not made). Of the rows and the import form the same is
  `RowsAndImports`: a quiet tab shows each row once, imports add nothing twice, an entry
  stays in the form until its row is made; an import has the mapping of its file,
  replaces what was agreed to, and is shown.

The last group are conjunctions over the parts; each conjunct is stated, with the
code it is about, in the part's module, and has a slip of its own. The history
variables `crossed`, `lost`, `gap` and `tangled` limit some of them to what the
code can keep: two writes of one row that overtake each other are not ordered by
anything in this program, and section 6 lists what is seen then.

**Fairness.** `JobRunner!Fairness`: the clock goes on; a dead process is restarted
(`deploy/helm`, `docs/host`: a supervised container); boot registers its handlers
and calls `start()`; the interval timer calls `pollOnce()` only while started; the
promises of a cycle resolve, an attempt at the latest by its timeout. `Start` is
strongly fair because a `kick()` before it may make the runner busy for a moment.
Nobody is obliged to call the queue, late handlers may never end, and faults are
not fair. `DailyJobs!Fairness`: the same, and `Timely` lets the clock pass from
one slot (hours) to the next only when a running server has done what was due, for
it polls every second; a server that is down misses any number of slots.
`HttpServer!Fairness`: a job ends (the runner times it out), `stop()` resolves
(proved of the runner), the drain's deadline timer and its loop run; requests may
hang for ever. `Connection!Fairness`: the browser settles the sockets it opened and
delivers their events, timers fire; the server owes nothing, and `PageReconnects` asks
for a connection only when it stays up.

## 5. What is proved

Eight modules hold proofs, for every value of the constants: seven about components,
and `RecursionLemmas`, which the others cite.

**`RecursionLemmas`.** The library's induction theorems take a predicate as a
parameter, which the provers cannot instantiate. With a set in its place
(`Induction`, `BoundedInduction`) they can, and `RecursionExists` gives from it
that a function defined by recursion on `0 .. N` exists and obeys its equations;
`FixedPoint`, that one does whose values are computed from those at lower ranks, in
whatever order. So what a recursive definition computes row by row, message by
message or date by date is provable, where the modules write it as a recursive
function: `Without` of rows and of entries, `Applied` over a wire, `Ungreeted`, `GenerateInstances`,
`StreakTo`.

**`TaskSyncProofs`**, from `TabsAssumption` and `SyncAssumption` of `TaskSync`
(finitely many tabs, among them the writers; the bounds are naturals), for any
tasks, families of tasks and numbers of edits, failures and cuts:

* `TypesHold == Spec => []TypeOK`, by `TypeInv`: every client id is in use or was
  used up by a cut, so that there are enough of them;
* `WatchersHold == Spec => []WatchersFollow`: each row of a watching tab once,
  none missing, none left over, late only by what is on its wire; and both again
  for the scene of the run (`SceneTypes`, `SceneFollows`);
* `GentleTabs`: where every tab edits, but no row that something is under way for,
  no connection or answer is lost and tasks have no parents (`Gentle`), no tab
  shows a row twice, and one that nothing is under way for shows the table; and
  again for the scene of the run (`SceneRows` of `RowsOnce`, `SceneAgrees` of
  `EditorsAgree`). `Gentle` is what that scene is, and no less will do: without it
  the runs `sync_double` and `sync_reconnect` show the contrary.

`WatchersFollow` is not inductive. `IdsApart` keeps a tab's filter from taking
another's event for its own: the id of a live connection is in no other tab's
hands. `Watching` is the tab's story. Before the first edit (`Loading`) its wire
holds at most the greeting, and what it has or is about to get is the table; from
then on (`Following`), what it shows once the wire is read is the table. A route
appends one message and changes one row, and the lemmas about `Upserted`,
`Replaced`, `Without` and `Read` show that the store follows. The contents of a
parent are excepted (`Agrees`), for what the server writes to it is not published.

Nor is the agreement of the editing tabs inductive: a store differs from the table
while a request is under way. `EditInv` says how. Tabs load (`Refreshing`), when
nothing is asked for, or they edit (`Editing`). While they edit, a row that nothing
is asked for is in each store as the table has it, or one message that brings it is
on the wire (`Current`). For a row that a request is under way for there is one
request only, and `Pending` says what its author shows before the route has written
and after, which is what `Confirmed` and `RolledBack` need to end with the table's
row, and that nothing of it is on the author's wire. That in turn rests on
`Sockets`: where no connection is lost, a tab's id, its header and its connection
are the same, so that no echo of its own passes the filter. The steps under
`Gentle` are those of `GentleNext`, and so are those of the scene; a step per
action keeps the invariant. That task 1 is there at the start makes
`MaxTask` positive (`SyncAssumption`).

Of the undo history `HistoriesSound` (`HistorySound`), for any number of tasks,
deletions and lost requests and any size of the history (`HistoryAssumption`: they are
naturals). It speaks of toasts, entries and quiet moments; what happens between them
is `UndoInv`. A task is in one place at most (`Single`): shown, in a request to delete
it, or in the hands of one toast or entry that may still bring it back. So no button
and key together can undo a deletion twice, and the same invariant gives that no
task is ever shown twice (`SceneTypes`). Whether it is the trash that has it is
`RowAgrees`: a row that no deletion is under way for is shown exactly if the server
has it outside the trash or is about to. That breaks where a restore and a deletion of
one task are under way together and one of them is lost (`tangled`, `lost`), and only
there. A stack that loses its oldest entry, forks or is consumed in the middle stays
one of different numbers of toasts not yet undone (`HistoryInv`).

Of the keys `KeysBehave` (`KeysSettled`), for any pages, any set of remapped actions
and any number of questions (`BoardAssumption`). `KeysInv` has what a two-key action
rests on: a first key that waits is the keystroke right before, on the page itself
(`prefix # "" => prefix = last`). That a binding can fire needs the shape of the
registry after any remapping, for what is captured and accepted is a binding again
(`CapturedBound`): each action has one, on one key, on a "g" and another, or on a
letter with the modifier (`Registry`). So the actions that share keys (`Winner` picks
the last) are in conflict, and a "g" of its own stands in the way of every pair. Where
j and k end needs that the rows of all sections in one list are the rows of the
sections (`VisibleIs`), so that the list is empty only if the page is.

**`ConnectionProofs`**: `OneSocketAtATime` and `PageInvariant` (`PageHolds`), for
any backoff limit (`BoundsAssumption`: naturals). Of `OneSocket` nothing is
inductive alone. `Held` says that every socket but the service's is on its way
out and, while the page is there, has nothing more to say; `Shape`, that a socket
that owes its end is closed and that the close event is its last; `Together`,
that the timer runs only without a socket, in the status `reconnecting`. So an
open event can only be the service's own, and when the timer connects every
socket before is dead.

**`SnapshotsProofs`**, from `SnapshotsAssumption` (the bounds are naturals, the null
reference is no number, a document may be without a flaw, and in a foreign file a
node comes before those under it, as the parsers leave it): `SnapshotTypes`,
`RestoreIsSafe`, `ExportsRestore` and `ImportsKeepTrees`, for any tables, files and
crashes. None of these is inductive. `RestoreInv` says that a restore has the
server to itself and its backup is what is there; `ReferencesInv`, that an accepted
document's references are found, as those of the tables are. Of an import
(`ImportInv`) the rows are different and there (`PlacedInv`); the level at work hangs
under finished nodes, and what hangs under finished nodes is made or at work
(`LevelInv`), so that with no level left a first node without a row cannot be
(`NothingLeftOut`); and the free ids are enough for the nodes still to come
(`RoomInv`), by counting: `BeforeCounts` gives the rows of a level consecutive ids.
`HttpServerProofs` carries the four over to the instance that `MCServer` checks
beside the other parts (`RestoresOfServer`, `TreesOfServer`), action by action.

**`JobRunnerProofs`**, from the assumptions named in `JobRunner` (`JobType` is a
function on the rows, handled types are types, `MaxAttempts` and `RetryBase` are
positive, the delays and bounds are naturals):

* `Inductive == Spec => []IInv` and from it `TypeCorrect`, `OneWorker`,
  `FreshSnapshots`, `Budget`, `Accounting`;
* `Final == Spec => SettledIsFinal` and `NotEarly == Spec => NoEarlyStart`,
  `Drains == Spec => StopDrains`, action properties;
* `Refinement == Spec => ImplementsLifecycle`.

`IInv` is the conjunction of the type invariant, the four safety invariants and
`CycleShape`. None of the four is inductive alone. That a settling write leaves
`attempts <= MaxAttempts` needs the row's count to equal the snapshot's
(`SnapshotAgrees`) and a row that is not dead to have an attempt left
(`AttemptBudget`); `SnapshotAgrees` needs the snapshot to hold one copy of a row,
the row in hand not to be among them, and no recovery while a cycle is in flight
(`CycleShape`), and no running row besides the one in hand (`SingleWorker`). The
proof goes by lemmas about the queue's statements, one lemma per action that
writes the table, and two for the actions that do not. For `Final` and
`Refinement` a step is first reduced to one move of one row or a recovery
(`TableStep`). `NotEarly` needs `DueIsDue` besides: whatever the cycle holds was due
when it was copied, and the clock does not go back.

**`DailyJobsProofs`**: `NeverAhead`, `CompletedRolled`, `DailyTypes`, `PurgesGoOn`,
`RolloversGoOn`, and for the scenes of `MCDaily` `SceneDailyTypes`, `SceneChains` and
`JobsStayFew`. They assume that `NoDate` is no number, that the preferences are ones
the route accepts (`PrefsAssumption`), and that the bounded jobs table has a free row
wherever the code inserts one (`[]RoomLeft`; without the bound there always is one,
and where there were none TLC would stop at the CHOOSE of `Insert`). The invariant
`DailyInv` says besides the types: a queued rollover is for a day not after the one
it is due on (`RowsFit`); a cycle holds copies of different rows, all due, and not
the row in hand (`CycleFits`); while a rollover runs, its to-do list is what is
overdue for its date (`WorkLeft`). `CompletedMeansRolled` is `WorkLeft` at the moment
of the settling write.

For the types, a row that may run again has an attempt left (`RowsBound`), and the
rows a cycle holds wait or are cancelled (`CycleRows`), so that only the settling
write counts one. For the chains, a step is first reduced to what it does to the
table: nothing, the recovery, dropping rollovers, adding one job, beginning or
settling one (`StepKinds`, `SchedulesRows`). A chain goes on (`Goes`) when a job of
its kind waits, or is in hand and will still queue the next one or itself again; at
boot the purge waits before the recovery, but the rollover may be one that the
recovery makes wait (`PurgeInv`, `RollInv`). That the handler of a rollover queues
the next needs two facts more: at midnight the next date is not that of the job in
hand, which is where 9am fails, and no other row is running that would pass for the
next one (`Alone`). So `RolloversGoOn` assumes `[]Nightly`, the preferences of its
scene; the purges go on under any preferences.

`JobsStayFew` assumes besides that the LIMIT of `findRecent` hides no unfinished job
(`[]Seen`): the code itself is right only then, since it inserts what it does not
find. Of the rollovers it is the step that adds one that matters; of the purges, each
row left running by a lost process cost a fault (`Stuck`), and a purge is added only
when none waits.

**`HttpServerProofs`**, of the process with `Limits` on the constants and finitely
many requests: `SafeLife` (`ServesAndDrains`), by `DrainInv`, which ties the counter to the
cardinality of the requests under way; `RateWithinBounds` (`RateIsBounded`), by
`RateInv`, in which the bucket's content bounds what was let through since its last
refill, and a bucket still to be made is one that let nothing through; `RefusedWhenBusy`, that a caller who got nothing for an interval is not
refused. About the storage adapters, for any number of calls: `AdaptersAgreeAlways`
(`AdaptersAgree`), by `AdapterInv`. That two tables fed with the same calls stay the
same is not inductive: the id that SQL takes, one more than the largest, is the one
the counter gives only because the counter knows every id of the table, of a
restored one too; and the upsert of a day note, which SQL does by id and the Map by
date, meets one row only because dates and ids are different and no note is ever in
the trash (`Tidy`), in the snapshot that may be written back as well.

About recurring tasks, for any range of days, any horizon, any numbers of templates,
tasks and calls and whatever the templates ask for (`SeriesAssumption`: numbers, and
day 0 is no day): `SeriesOfServer` (`InstancesFollow`). `SeriesInv` adds to the three
properties that there are never more rows than the bound, that an instance has a day
of the calendar (`Dated`), and that one whose template is gone is heirless
(`Orphans`). The last is what the reuse of ids needs: a template that gets the id of
a deleted one must not find the other's instances under it. Generating is a fold over
dates inside a fold over templates; what comes out is described once (`Grown`,
`GenerationFills`, `GeneratesAll`): the old rows, and new ones of the templates asked,
for dates that had none, so that no date has two and none of the range is left out.
Statistics are harder: the code walks back from each instance (`StreakTo`), the
property speaks of unbroken runs between two dates. The walk obeys its equation since
every step goes to an earlier date (`StreakToExists`); its value at an instance is the
length of the longest run that ends there, by the instance of least date for which it
were not (`StreaksAreLongest`: a run goes back over the one before, `RunGoesBack`, and
on to the next, `RunGoesOn`). The proof takes `Occurrences` as any sets of days, so
that it holds of any calendar; that the sets are the right ones is what
`SchedulesAreGrids` checks.

`TypesOfServer` (`TypesOK`) puts the invariants side by side. A clock and a bucket
kept within `MaxTime` need `RateInv`, for the bucket's time is never ahead of the
clock, and a schema within its files needs `ServesMigrated`.

**`RowsProofs`**: `RowsAndImportsHold` (`RowsAndImports`), for any contents and
notion of duplicates, any feeds, numbers of rows, writes of this tab and of others, and
losses. `RowsAssumption` says that the rows the page starts with have contents and that
a content is neither `None` nor the 0 of an empty name.

That a quiet tab shows the server's rows is about moments when all that was said of a
row has been heard; `RowsInv` says what a row looks like before. `Matches` relates four
things for every row: what the server has, what is shown, the events about it on the
way, and the answers about it. An answer comes alone and before any event but its own,
for otherwise `crossed` holds. If nothing is said, the row is shown. If it is there and
something is said, it is shown already or one of the events makes it, which is what a
change needs, for a change of a row that is not shown is dropped. Two facts about the
queue carry this over the handling of its head: the last event about a row says what
the server has (`LastWord`), and behind an event that a row is gone comes one that makes
it if it is there (`MadeAgain`); both up to a restore, after which the rows are fetched
again. While a fetch or a restore is pending (`Mending`) nothing is promised, and
`Fetched` is what makes its answer good: one that no write has overtaken has the
server's rows, and there is no other answer but older fetches. There is a lemma per
action, and lemmas about what an operator does to requests (`Overtaken`, `Forget`), to
events and to the rows shown.

That an import adds nothing twice (`ByHand`) needs that the ids it takes are free
(`NextIdIsFree`) and what the fold of `FreshEvents` returns (`FreshUnlike`): contents
unlike each other and unlike every row. That an entry stays needs that the requests to
make one are for what is in the form unless something was typed over it (`Entries`).

`MappingsFit`, `RestoresAgreed` and `ImportsSeen` are the import form's part, assuming
that CSV adds to what is there, that the format the form starts with is one of the
formats and that `None` is neither a file nor a number (`ImportAssumption`). `FormInv`
adds to the properties that an open question is about the format shown
(`QuestionHolds`).

`TypingKept` (`TypingIsKept`) is `LastWords` of the notes of days and `FieldsLeftAlone`
of the editors of a task, for any texts (two of them, the blank one among them, and
none that is `None`), fields the others write, edits, requests and losses
(`TextsAssumption`). "Left alone" is a field whose editor was not entered: for the
row's text typed in, for its date and tags opened, for a field of the form changed, for
the note clicked into. Of a note that was entered and not typed in the theorem says
nothing, and rightly: the blur saves it. That the last word is the note is about a quiet day that nothing
crossed; `NotesInv` says what holds on the way there, while nothing has crossed.
`FieldAgrees`: a field in use has the last word and no event is on the way, and a clean
one shows the store's note, also while its timer runs again. `NoteAgrees`: with no save
under way the server has what the tab will show once the events are through, and the
last word unless that is still being typed. `SaveAgrees`: a save under way is alone, so
it is taken, and it has the field's text unless more was typed since; without the last
part the answer could make clean a text that is not saved. `EditorsInv` keeps apart what
was touched: every patch under way, every draft and timer, also those of closed modals,
is of touched fields, and a field of the form, or a row's text, that was not touched
shows what the tab has, so a save of the fields that differ leaves it out
(`OnlyTouched`); the editors and the modals exclude each other, without which the tab's
copy could change under an open form. There are lines in the note's editor only while
its modal is open and its note was entered, which makes the draft of a blur one of a
touched field. That a text to add is not lost needs that all
requests to add one are for the same text as long as it is owed (`AddsKept`).

A proof attempt found that the guards of a `CASE` in `EntitySync` (`Shown`) overlapped:
the semantics then leaves the choice open, while TLC takes the first. It and five more
(in `Calendar`, `DayNotes`, `Formats`, `QuickAdd`, `Snapshots`) are written with
disjoint guards now, in the order of the code.

Only model-checked: all liveness (`EveryJobSettles`, `StopsEnd`, `PageReconnects`,
`OverdueRolls`, `TrashEmptied`) and ENABLED, which are out of the prover's reach;
everything about the modules not named above. What `Calendar`, `Formats`,
`LiveLines`, `QuickAdd` and `DragReorder` compute over dates, texts and rows is
checked against reference definitions over bounded inputs (`SchedulesAreGrids`,
`FormatsKept`, and the properties of the client's run but `RowsAndImports` and
`TypingIsKept`: `ClientTypesOK`, `PartsAgree`, `ClientSteps`).

## 6. Where code and documentation disagree

Shown by a run each (`PROJECT.json`, "findings"):

* With the 9am trigger, a boot before 9am leaves no rollover queued after its
  catch-up run: the running job counts as in flight for today (`daily_9am`).
* `create()` appends its answer blindly; an echo that the filter misses around a
  reconnect makes the row appear twice (`sync_double`).
* Events published while a tab reconnects are lost to it for good
  (`sync_reconnect`), though the README promises that every change reaches every
  connected window.
* `SqliteTaskRepository.update()` (line 237) has no `someday_list_id`: a drag into a
  Someday list, which the e2e test `drag.spec.ts:119-143` expects to stay, is not
  stored, while the in-memory twin stores it (`list_move`).
* A backup taken after a Someday list was deleted names a list that is gone and is
  refused by the restore it was made for (`snapshot_backup`).

Read while modelling. Where a formula is named, it is in the module but in no
passing run; `MCServer`, `MCSync` and `MCClient` have most of them by name, and a .cfg with
it as the INVARIANT shows the counterexample.

*Server.*
* A timed-out handler runs on beside the next job (`OneExecutionAtATime` in
  `JobRunner`), though `JobRunner.ts:4-6` promises concurrency 1.
* Statistics are kept by the id of a series, the id of the last row is used again
  once that row is deleted, and a new series inherits the records of the one before
  (`NoInheritedRecords`).
* A task in a list that is gone is in no view (`NothingInvisible`; `design.md`).
* The completion of a parent by its last child is a second write in the route,
  answered and published for the child only (`TaskService.ts:66-69`).
* Switching the rollover on through the API queues nothing until the next boot.
* A second signal is ignored while the shutdown lasts (`index.ts:72`), although the
  comment above it (line 69) says that it "falls through to the default (immediate)
  termination". A WebSocket upgrade is not refused while draining; the 503 of a
  draining server lacks CORS headers. A health or metrics handler that throws is never
  uncounted, so that the drain counter, and the gauge with it, stays above the requests
  under way and the next `stop()` waits for its deadline (`InFlightCounts`).
* Renaming a tag to one a task already has leaves it there twice; a tag operation
  skips trashed tasks, so that a restored one brings the old tag back.
* A generated date whose instance is in the trash is generated again, and restoring
  the trashed one doubles the date.
* Two projects or notes with one key pass validation and fail in the transaction;
  two projects with one tag fail in SQLite only; an empty patch of a series stamps
  it in memory only; gauges are exported as counters.
* The Todoist import: an overlong text row does not reset the nesting, so that its
  children hang under the task before it; after a section, a second orphan becomes
  the child of the first. Re-importing an own CSV puts the priority among the tags.
  The iCalendar import leaves SUMMARY escaped, so that a
  text near the limit is too long to come back, and splits escaped commas; in notes
  it takes a backslash before an n for a line break; `parseContentLine` looks for the
  first colon, although a quoted parameter "may contain colons" (lines 43-52).

*Stores.*
* `fetchAll()` has no order guard: a late answer replaces newer rows, and an event
  during a refetch is missed; a change between a page's first fetch and the
  registration of its socket is missed.
* `entityStore` shows a created row twice when the echo precedes the answer
  (`EchoShowsOnce`; `entityStore.svelte.ts:119-126`); the habits store has no events.
* Undo brings back a copy taken before the question was answered; a delete refused
  with 404 puts the row back; deleting a list cannot be undone
  (`ListDeleteUndoable`; `SomedayPanel.svelte:378-381`).
* Preferences: a color set before the load replaces the stored map; another tab's
  rename makes this one auto-assign over it; the zone and the locale are not rolled
  back in the provider; `refetchAll` loads preferences and tags at once, against
  `+layout.svelte:54-56`.
* A socket closed and opened again before its close event leaves two.

*Keyboard and overlays.* Escape in a question is not wired to it
(`EscapeDismisses`; `Modal.svelte:46-51`, `ConfirmModal.svelte:10-11`); a second key
in upper case never fires (`BoundKeysFire`; `keyboard.ts:5-6`); leaving the
settings does not end a capture (`design.md:191`); a focused task that was removed
can still be deleted by `d`.

*Editors.* An open editor is seeded again whenever its row is replaced
(`SeedOncePerRequest`; `TaskRow.svelte:104-108`); an untouched date editor's blur
writes back what it showed, and so does the blur of a task's note that was clicked into
and left as it was: about 800 ms later its lines go out over what another tab wrote
meanwhile (`LiveMarkdownEditor.svelte:108-111`, `NotesModal.svelte:95-104`; local lines
win by intention while they are being edited, but here nobody edited); the detail form closes though its save failed, and is
wiped by an event; a late answer of the add field wipes what was typed since. A
jot is lost when its day leaves the screen within the delay; the field stops
following its note once emptied (`FieldFollows`; `DayNoteField.svelte:33-36`). A
paste within a line leaves the caret before it (`LiveMarkdownEditor` 195-213).

*Drag and drop.* With rows hidden or sorted by priority a drop lands elsewhere
(`dragReorder.ts:29`); a failed PUT rolls the row back over another tab's event; a
child of a filtered parent is shown under no one (`EverythingShown`).

*Someday panel.* A task restored into a deleted list is in no section
(`ParkedIsShown`; lines 34-36, 118); an answer closes whatever editor is open
(`TabNameKept`) and wipes what was typed since; deleting a list takes tasks that
another tab moved out after the question; Enter twice creates two.

*Quick add.* "at Noon" with a capital gives "NaN:00" (`CapitalsDoNotMatter`;
`parseRecurrence.ts:84-85`); a line of tags alone is taken for a name
(`TagsAreNoName`; `createFromText.ts:69`); a tag named after a weekday is eaten as a
date (`TagsExtracted`); an invalid date hides a later valid one; 29 February is no
date in other years.

*Habits and projects.* A habit made from a project's home is a task, for the tag is
appended behind the schedule (`InlineAddTask.svelte` handleSubmit); a tag that is the
beginning of another is taken for it; a name without latin letters gives an empty
tag; a tagged sub-task is listed twice (`OnePlaceEach`); the toast says "deleted" when
it was not; an answer shows a habit twice that a fetch has brought; a hill dragged back
before its answer jumps to the abandoned place, and its blur writes an old place over
another tab's; 199 of 200 done is shown as 100% (`SummaryModal.svelte:22`).

*Palette.* `/project`, `/habit`, `/settings`, `/help` close what they open
(`SearchModal.svelte` 292-303, 147; `design.md:140`); `/tag` writes tags from a stale copy
(`TagsKept`).

*Window of days.* A jump out of the window loads no habits (`HabitsEverywhere`;
`DayList.svelte:275-283`); a chunk that adds no row leaves the sentinel in view and the
list stops growing (`EndReached`; `DateMinimap.svelte:154-156` knows this, `DayList` does
not); today is not always rendered (`TodayDrawn`; `DayList.svelte:61-62`).

*Import form.* A file still being read replaces the one chosen after it
(`SourceIsFile`; `SettingsModal.svelte:543-555`); the result is shown under the format
chosen since (`ResultIsShown`); closing the settings allows a second import beside the
first; the restoring tab skips its own broadcast, so that a lost answer leaves it
stale; a refetch may join a fetch begun before the import (`taskStore.svelte.ts:109`).

## 7. Not modelled

* Of the *foreign formats*: explicit column mappings, labels and dates of Todoist,
  quoted parameters of iCalendar, the wording and the cap of the warnings.
* *Wire formats*: validation schemas, the OpenAPI document, error bodies.
* *Presentation*: layout, wording, themes, rendered Markdown, translations, the
  rail and the bars. The filters these set are in `Preferences` and `DragReorder`.
* *Tags on the server*: the JSON surgery of a rename on each row; the event and what
  clients make of it are modelled.
* Metrics, logging, health bodies. Handlers other than the two registered ones do
  not exist.
* Timing inside a browser frame: what Svelte does between an assignment and the next
  render is one step, and so are the effects that follow from it, except where a
  module says otherwise (`DayWindow`: the observers).
