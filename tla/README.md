# A verification project for pegasus-fe

Pegasus-fe (the Recalbox/Pixl flavour) is a graphical frontend that scans a
game collection, shows it in a QML theme, launches external emulators, and
keeps favorites, play times, settings and updates.  This directory holds TLA+
models of the parts whose correctness depends on the order in which things
happen, the TLC configurations that check them on small instances, and proofs,
checked by TLAPS, of what holds for every instance.

All paths below are relative to `src/src/backend/` unless they say otherwise.
The program is C++; the only Python files of the repository are compiled Qt
resources and scripts that come with a vendored library, and no model is about
them.

## 1. The system

One Qt main thread runs the event loop, the QML engine and almost all objects.
Other threads: one scan thread (`QtConcurrent` in `ProviderManager`), workers
of the thread pool (playtime, favorites), the installation script of an
update, the PulseAudio loop.  Other processes: the emulators, the user's hook
scripts, and the system programs that edit `recalbox.conf`.

| component | state | operations | hard behaviour | must hold |
|---|---|---|---|---|
| Game session: `model/Api.cpp`, `ProcessLauncher.cpp`, `FrontendLayer.cpp` | file to launch, engine, QProcess, python command, watched pids, timer | launch request, tear-down, run (blocking, QProcess, background), finish, failure, rebuild | nested slots, deferred destruction, settings reloaded in between, `ps` polling, events dropped during a scan | hooks paired, UI back, one session at a time, every session ends |
| Playtime provider: `providers/pegasus_playtime` | pending and active queue, SQLite rows, counters | game launched/finished, worker, scan | worker against main thread, two workers, failing queries, crash | each play recorded once at most, and lost only by its own failed query or a restart before its commit |
| Favorites provider: `providers/pegasus_favorites` | pending and active snapshot, `favorites.txt` | favorite changed, worker, scan | rewriting in place, notification dropped, crash, unreadable file | newest snapshot stored, one writer |
| Download manager: `DownloadManager.cpp` | three queues, current reply, output file, counters | append, timer, finished, redirect | timer against transfer, stray reply, resume | one transfer at a time, `finished()` once all is done |
| Component updates: `model/internal/updates` | installation step per component, nested event loops | launch, retry, script end | re-entered nested loops, retry during a wait | no script on incomplete files, no wait for ever |
| Settings files: `utils/IniFile.cpp`, `RecalboxConf.cpp` | configuration and pending-writes maps, the file | set, save, reload, destructor | several instances of one file, foreign edits, reads and writes that fail | a setting is stored and read back, foreign lines kept |
| Provider scan: `providers/ProviderManager.cpp`, `SearchContext.cpp` | future, pending downloads, maps of games, files and collections | create, find and list, schedule a download, finalize | providers that share the maps in any order, scan thread, waiting for downloads | the lists agree, nothing found is lost, a scan ends |
| HTTP server: `HttpServer.cpp` | sockets | reload requests, actions | arrive at any time | (they disturb the others) |
| Gamepads: `model/internal/GamepadManager.cpp`, `GamepadManagerSDL2.cpp` | rows of the players, `pegasus.pad*` lines, two maps from and to indexes of SDL, recording | connect, remove, swap, index change, record a mapping | three numberings that shift, events that queue up, uninitialised id | rows, lines, maps and SDL agree; players keep their seats |
| Scripts: `ScriptManager.cpp`, `ScriptRunner.cpp` | list of scripts, `es_state.inf` | notify, run | masks, blocking hooks | each event reaches its scripts |
| Audio: `audio/pulseaudio`, `utils/os/system/Signal.cpp` | cards, sinks, connection, one signal, one lock | list, set volume, set default, callbacks | two threads, one signal for all answers, no time-out, lost connection | an answer belongs to its request, lists are complete, calls return |
| Containers: `utils/storage` | ring buffer | push, pop, removal in the middle | (nothing that is built uses it) | |
| Netplay rooms, RetroAchievements, BIOS, single play, other providers, boards, storage devices, theme memory, tokenizer, QML | | | conversion of data, little control | |

How they meet: `Backend.cpp` wires ApiObject, ProcessLauncher, FrontendLayer
and ProviderManager with direct connections, so that one launch is one chain
of nested calls.  ProviderManager passes launch, finish and favorite events to
the providers, but drops them while its future runs.  ProcessLauncher calls
ScriptRunner (hooks) and ScriptManager (`es_state.inf`).  The HTTP server and
the settings menu change RecalboxConf, which ProcessLauncher and FrontendLayer
read in the middle of a launch.  Updates waits for DownloadManager in a nested
event loop.  GamepadManager polls SDL from a timer of the main thread, which is
blocked while a game runs, and sets the `pegasus.pad` lines of RecalboxConf, in
memory (finding 4), from which the launch takes its controllers.  PulseAudioController blocks the main thread on a
signal that the audio thread fires.

`PROJECT.json` lists the components, and, with their lines, the hazards: what
can go wrong in these parts and a test would hardly reach.

## 2. The modules

| module | models | composed with |
|---|---|---|
| `GameSession` | the four objects a launch runs through | - |
| `GameSessionProofs` | the proofs about it | extends GameSession |
| `PlaytimeStats` | playtime queue, worker, database, scan | - |
| `PlaytimeStatsProofs` | the proofs about it | extends PlaytimeStats |
| `LatestWins` | what a write-behind store of snapshots promises | - |
| `Favorites` | favorites queue, worker, file, scan | implements LatestWins |
| `FavoritesProofs` | the proofs about it | extends Favorites |
| `ComponentUpdate` | DownloadManager and the part of Updates that uses it | - |
| `ComponentUpdateProofs` | the proofs about it | extends ComponentUpdate |
| `ProviderScan` | ProviderManager, SearchContext and what providers do to it | - |
| `ProviderScanProofs` | the proofs about it | extends ProviderScan |
| `Gamepads` | GamepadManager, its SDL2 backend, the `pegasus.pad` lines in memory | - |
| `GamepadsProofs` | the proofs about it | extends Gamepads |
| `PulseAudio` | PulseAudioController, its signal and its lock, libpulse | - |
| `PulseAudioProofs` | the proofs about it | extends PulseAudio |
| `IniFile` | IniFile and its instances for the two settings files | - |
| `IniFileProofs` | the proofs about it | extends IniFile |
| `MC*` | values of the constants for TLC | extend the module of that name |

Definitions whose comment starts with "Mutant:" are variants of the definition
below them, as a plausible bug would make it.  No specification uses them; each
property was tested by putting one of them in the place of the real one.

### GameSession

`pc` is the slot of the main thread that runs next: `loop` (event loop),
`launch` (onLaunchRequested), `launchOk` and `teardown` (the two slots of
processLaunchOk), `start` (onTeardownComplete), `running` (blocked in
`system()` or `waitForFinished`), `report` and `rebuild` (the two slots of
processFinished), `dead`.  Each action is one slot with all the calls it makes:
`PrepareRun` is beforeRun, the RunGame notification and runProcess, `CloseRun`
onProcessFinished and afterRun.  Three ways of running are kept apart because
they end differently: a blocking `system()` or QProcess, a QProcess that fails
to start, and the background mode for python commands with
`pegasus.multiwindows`, watched by a timer that compares listings of `ps`.
Scan, reload of the configuration and foreign python processes interleave.
A session is named by its rank; times are replaced by the session they
belong to.  `session`, `dropped` and `failedStart` are history.

Not in this module: what the hooks do, the arguments of commands, Windows and
Android specifics, and PROVIDER-specific reactions to the events except the
playtime's.  A python program that has not shown up in `ps` yet is one of the
outcomes of `StartBackground`.

### PlaytimeStats

Workers are named by the play that launched them.  A worker stands at `check`
(the loop test and the update of the counters), `open` (SqliteDb), `write` (the
transaction) or `pickup` (the locked end of the loop).  The main thread and the
worker share `pending` and `active`, the second of which is read outside the
lock: `CheckAndCount` and `CheckAndLeave` are the outcomes of that read.  The
body of the transaction is one step with any subset of failing queries.
`raced` records that two threads met on the vector or on the default SQL
connection; what happens then is undefined in the code, and the properties
about data speak of behaviours without it.  A restart drops the queues, which
are in memory: `lost` then holds the plays in them that had no row yet, besides
those whose own query failed.

### Favorites and LatestWins

A snapshot has the rank of the change that made it.  The worker truncates the
file and writes it line by line, and a scan can read it in any of these states,
or fail to open it and load nothing (`ScanCannotRead`).
LatestWins has three variables: the newest version requested, the newest
completely stored, and whether the store broke.  `StoresLatest` states that
Favorites implements it with `requested <- notified`, fairness included.

### ComponentUpdate

A file has size 0, 1 (a part), 2 (complete) or 3 (too large) and is `sane`
when it holds nothing but a prefix of the asset.  `starting` is TRUE while the
recursion of startNextDownload is on the stack, so each of its turns is a step
(`QueueDone`, `OpenFails`, `AlreadyThere`, `StartTransfer`).  The end of a reply
is one of `TransferSucceeds`, `TransferFails`, `TransferRedirected`, and
`StrayFinished` for a reply that is not `currentDownload` any more.  `loops` is
the stack of nested event loops of Updates: only the innermost one can return,
even if an outer one was quit.  Progress, speed and messages are left out.

### IniFile

The lines of different keys do not interact, so the file is a sequence of lines
per key, commented ones included.  A behaviour is about one of the two files,
chosen by `boot`: recalbox.conf with its one instance, or recalbox-boot.conf
with an instance each in Recalbox and ParametersList, which is saved at each
change.  `Set`, `Save`, `Reload`, `ReloadValue`, `Destroy` are the operations,
`ExternalEdit` and `Restart` the environment.  Reading a file may fail and gives
no line then (`LoadFile`), at the start, in a reload and in a Save.  A Save
(`DoSave`) goes through (`SaveWorks`) or not (`SaveFails`): the file cannot be
opened and stays as it was; it could not be read and is left with the pending
writes alone; or it is truncated and not written to its end, because of a full
disk or a kill, and is a beginning of itself per key, the last line perhaps cut
(`Torn`).  In each case Save logs the settings as saved, and keeps them as
pending.  `damaged` holds the keys such a Save may have missed or lost, until a
Save that writes them works.  Bounds are on the initial lines of a key (a second
one comes from another program), on the number of changes and on the number of
Saves that fail.

### ProviderScan

`phase` is where a scan stands: `search` (the providers run, one after the
other), `waiting` (in the event loop for downloads), `found` (finalized,
`finished` queued for the main thread), `idle`.  The maps of the context are
variables of their names; the actions of the search are the operations the
providers call: `ReadCollection`, `ReadGame` and `ReadFile` (metadata files,
where games, files and collections come in any order), `FindGame` (a file, found
or created, in a collection), `FindNewGame` (the providers that skip known
files), `ScheduleDownload`.  Their order is free: the settings choose providers
and the file system the rest.  `Finalized` is what the three clean-up passes make of the
maps.  Paths and URIs have a map each and the same code; one map models both.

### Gamepads

SDL is external: `Plug` and `Unplug` change its list and queue events as it
does (a removal carries an instance id and goes before the queued additions,
which carry indexes and are renumbered by it).  `Poll` takes one event with
everything its handler does, from the two maps of the backend to the model's
rows and the `pegasus.pad` lines: `AddController`, `RefuseController`, and
`RemovePad` with the index changes it reports for the other pads, one turn
(`Reindex`) for each device that `Reached` says the loop gets to.  `SwapRows`,
`StartRecording`, `FinishRecording` and `Restart` are the other actions.  The
handlers call RecalboxConf::Save, which does not write recalbox.conf (finding
4), so the lines are in memory only, and each start reads the `Leftovers` of an
older version or of another program from the file.  An uninitialised
`device_id` is any number.  Outcomes of SDL that cannot open a controller are
followed up to that moment (`refused`), because what comes then depends on an
exception nobody catches.

### PulseAudio

`main` names the answer the main thread waits for, `requests` what the server
has yet to answer, `op` whether the last operation was refused.  Each step of
the main thread goes from the return of `WaitSignal` to the next request; the
callbacks of the audio thread (`Connect`, `CardFound`, `SinkFound`, `Answer`)
come in between in any order.  libpulse is external: it refuses a request on a
connection that is not ready, cancels pending ones of a lost connection without
an answer, and answers in order.  Its calls are taken to be atomic, although
the controller calls them from the main thread without the lock of the
library's loop; a list that ends with an error (`eol < 0`), which its callbacks
do not test for, is not modelled.

## 3. What is checked

| run | bounds | shows |
|---|---|---|
| `game_session` | 2 files, 2 launches | hooks paired (`HooksPaired`), nothing of a session left when it is over (`RestIsClean`: UI, es_state but for a failed start, timer), no program before the engine is gone, plays matched with launches, and every session ends |
| `launch_file_asserted` | 1 launch | finding 1 |
| `playtime` | 3 plays, 1 scan or restart | no play recorded twice, or lost but by its own failed query or a restart before its commit (`RecordedExactlyOnce`), counters follow rows, a batch abandoned only after the database was refused, workers meet only at the loop test, every play is recorded in the end |
| `play_counted_once` | 2 plays | finding 2 |
| `favorites` | 2 games, 3 changes, 1 scan or restart | one writer, choices of the player kept and the settled file the latest (`ChoicesKept`), LatestWins implemented |
| `component_update` | 3 files, 2 launches, 1 redirection | one transfer at a time, counters agree, what is installed is sound, every launch returns (which needs the queue to be served on every path) |
| `install_after_download` | 1 launch, 1 redirection | finding 3 |
| `ini_file` | 2 keys, 2 values, 2 instances, a line per key at first, 3 changes, 2 Saves that fail | own settings read back, the last setting stored, or an earlier one of another instance, again after a Save that failed (`LastSetWins`), foreign lines kept by all Saves that do not fail |
| `save_writes_file` | 1 change | finding 4 |
| `gamepads` | 3 devices, 3 lines, 1 restart, no leftover lines or one for every player | a player's line names the pad of the row (`LinesFollowRows`), row, maps and SDL agree on indexes (`IndexesAgree`), a recording listens to the chosen pad, players keep their seats, every pad that stays plugged gets one |
| `pulse_audio` | 2 cards, 3 sinks, any calls, connection lost at any time | one request at a time and no early wake-up (`OneRequest`), an answer always to come and no lock in its way (`AnswerToCome`), lists read to their end, every call returns |
| `provider_scan` | 3 games, 2 collections, 2 files, 2 scans | the lists shown agree with each other (`ListsAgree`), what was found is listed, with all its files and collections (`FoundIsListed`), a scan ends |

Why the bounds are enough: a second launch meets all leftovers of a first one
(a background program, a start time, a QProcess), a third play is queued while
one worker writes and another was just started, three favorites let a snapshot
replace one that waits behind one that is being written, two launches with
three files let a retry find the queue empty or not, at each stage of the
first launch, and two instances with three changes let an older value come back;
two Saves that fail let the second one meet what the first left.  Instances,
keys and values are symmetric.
Three gamepads fill the last line, make a removal renumber one queued behind it
on each side, and let two players change seats while a third goes.  A card with
two sinks and one with one give every loop of the controller no, one and
several turns.  Of three games one can lose its file to another while a third
has none; two collections hold a game each, both, or none.

Excuses.  A property with a condition like `~raced`, `~broken`, `~missed`,
`~overlapped`, `~moved`, `k \notin damaged`, `Unique(k)` or "`writers[k]` has one element" says what the code
guarantees outside a known defect; the defect is a history variable the actions
set, and the hazards name it.  They are not assumptions about the environment:
the behaviours in which they occur are explored, and the other properties hold
in them too.  Of this kind are

- `overlap` (Gamepads): since the start of the program, a pad was unplugged
  before the removal of another one, or of two (`overlap = 2`), was handled, as
  may happen during a game.  The maps of
  the backend are renumbered against a list that is ahead of them.  With two
  removals queued only the map from indexes to instances can go wrong.  With
  three, two rows can have one index: an index change then finds the wrong row,
  a later one no row at all, and `device_id` is uninitialised
  (`GamepadManager.cpp:312`), so that a line has another index than its row.
  It takes six gamepads, more than the run has: the attempt to prove it for any
  number showed it, and TLC confirmed it on a larger instance.  Players, rows
  and the devices in the lines agree at any depth of the queue.
- `moved`: a recording keeps an index that shifted, and listens to another pad.
- `lost` (PlaytimeStats): the query of a play failed, or a restart found it in
  memory without a row.
- `missed` (Favorites): a scan read favorites.txt too early, or could not open
  it; the screen then shows too few favorites, and the next change stores them.
- `damaged`, and the step of the failing Save itself (IniFile): nobody looks at
  the result of reading or writing the file, so the lines of other keys may be
  lost for good; the settings made are in the file again after the next Save
  that works.
- `refused`: SDL could not open a controller; its index stays without an entry.
- a closed connection (PulseAudio): without a server the constructor never
  returns, and when the server goes away a call waits for ever or ends the
  program in `pa_operation_unref(NULL)`.
- `pending` (ProviderScan): with a scheduled download the scan never ends,
  because nobody emits `downloadCompleted` or counts the answers off.

Fairness.  GameSession: the main thread goes on (the event loop does not stop),
programs end, foreign python scripts end.  PlaytimeStats and Favorites: the
threads of the pool and the scan thread are scheduled.  ComponentUpdate: timers
fire, a transfer ends (it has a 15 s time-out, `DownloadManager.cpp:253`), a
loop that was quit returns.  Gamepads: the timer that polls SDL every 16 ms
goes on, so that a queued event is taken.  PulseAudio: both threads run, and the
server answers or the connection fails.  ProviderScan: sources are finite, and
the main thread handles its events.  None for user actions, plugging, rescans,
restarts, failures or edits.  IniFile has no liveness.

Deadlock is checked for GameSession, IniFile and Gamepads; the others may stop
when their bounded work is done (in PulseAudio: when the connection is closed).

### Findings

1. `ProcessLauncher.cpp:507`.  A QProcess that fails to start emits
   processLaunchError, which forgets the game file, and then processFinished
   all the same.  `Q_ASSERT(m_launch_game_file)` (`model/Api.cpp:155`) fails; in
   a release build the providers get a null file.
2. `PlaytimeStats.cpp:257`.  The loop test is outside the lock: a play that
   arrives between the unlock and the test starts a second worker for a batch
   that the first one sees, too, and is counted twice.  The test
   `test_Playtime.cpp:133`, marked as flaky, expects the right number.
3. `DownloadManager.cpp:134`.  A redirected last file finds the queue empty,
   which arms a second timer; it fires during the transfer and reports the end.
   The installation starts before the download is complete (`Updates.cpp:632`).
4. `IniFile.cpp:145`.  With the remount commands commented out, saving became
   the body of `if (boot)`: recalbox.conf is logged as saved and not written.

## 4. What is proved

All safety properties of the modules with passing runs are theorems, for every
value of the constants the assumptions allow.

`GameSessionProofs`, for every set of game files and any number of launches:
`TypeCorrect`, `HooksArePaired`, `SessionLeavesNothing`, `TornDownFirst` and
`PlaysMatch`.  Assumptions: `NoFile` is not a file, at least one launch is
allowed.  The invariants are not inductive: that the hooks balance at rest
depends on which slot runs next, on whether a file is open and on the timer.
`SessionInv` says for each slot what must hold there (`HooksInv`, `FileInv`,
`EngineInv`, `TimerInv`, `EsStateInv`, `PlayInv`); `InitInv` and `NextInv` show
that it is inductive, one step per action.  The Boolean variables are apart
(`FlagsCorrect`), because no prover handles them well beside arithmetic.

`PlaytimeStatsProofs`, for any number of plays, rescans and restarts:
`TypeCorrect`, `PlaysRecordedExactlyOnce` (from `PlaysAreKept` and
`RowsAreSingle`), `CountersFollow`, `NothingAbandoned` and the action property
`WorkersMeet`.  The inductive invariant `PlaysInv` adds what the properties do
not say: a play has no row before its batch is written and a row or a failed
query when the worker is at `pickup`; the plays of the second queue were never
counted; until threads meet there is one worker, and its batch is not empty
outside the loop test.  `NothingAbandoned` needs no such condition: the worker
that leaves a batch behind leaves it to another one.

`FavoritesProofs`, for any set of games and any number of changes:
`TypeCorrect`, `WriterIsAlone`, `ChoicesAreKept` and `StoresInOrder`, that the
provider implements `LatestWins!SafetySpec`.  The inductive invariant `QueueOK`
orders the versions (stored, then active, then pending, the last of them the
newest notified) and says that a task without a worker is one that broke;
`ChoiceInv` relates the content of the snapshots to the flags of the games, as
long as no scan was too early or failed to read the file.

`ComponentUpdateProofs`, for any assets and any number of launches and
redirections: `TypeCorrect`, `TransfersAreSingle`, `CountersAgree` and the
action property `InstallationsAreSound`.  `OneTransfer` is inductive by itself;
the rest needs `UpdateInv`: the innermost loop has not been quit while anything
is queued or transferred (`WaitInv`), a file without an error page is a prefix
of its asset (`SoundInv`), without an error every file is complete, queued or
in transfer (`FilesInv`), and the counters account for each (`CountInv`).  A
loop that returns without an error therefore finds all files complete.

`ProviderScanProofs`, for any games, collections, files and number of scans:
`TypeCorrect`, `ListsAlwaysAgree`, `NothingIsLost`.  `ScanInv` says that the
maps mirror each other during the search (a file belongs to a game exactly if
it is among its entries, parentless games are those in no list), and two lemmas
say what the passes of finalize make of any such maps.

`PulseAudioProofs`, for any cards and sinks: `TypeCorrect`,
`OneRequestPending`, `AnswersCome` and `ListsAreComplete`.  `Protocol` says,
for each request, what was asked, what was answered, whether the lock is held
and which list is complete; one lemma per callback and per step of the main
thread.

`IniFileProofs`, for any keys, values, instances, and lines of a key:
`TypeCorrect`, `OwnWritesAreRead`, `LastSettingWins` and the action property
`ForeignLinesStay`.  `SettingsInv` says that the pending writes of an instance
are what it was given (`OwnInv`), that each has its writer (`WritersInv`), and
that the pending write of a key's only writer is the last value (`SoleInv`): a
later save of an unrelated key writes it again, and must not bring an older one
back.  `BootInv` is about the file: outside the keys that a failed Save damaged,
a key with one line has the last value or a pending write, and the last value
if it has one writer.  `SavedKey` says what any Save, failing or not, does to a
key that is not damaged after it.  That Load finds a line at all, the last of the active ones, rests on the
well-foundedness of the natural numbers (`Greatest`).

`GamepadsProofs`, for any devices, lines, gamepads plugged at a time (at most
one per line), leftover lines and restarts: `TypeCorrect`, `LinesFollow`, `AgreeOnIndexes`,
`RecordsChosen` and the action property `KeepsSeats`.  None of these is
inductive: what a removal does to the lines depends on what waits in the queues
of SDL.  `IInv` says that the first `Mapped` devices of SDL were added and the
others are the queued additions, in order (`Queues`); that the maps and the rows
hold the added devices and those whose removal is queued (`Seats`); that the
indexes of the added ones may be too high, but increase with their position
(`Order`), from which each turn of the loop in `remove_pad_by_iid` gets a free
index; that row r has number r - 1 and its line its gamepad (`Numbered`); and,
while no removal is queued behind two others, that the second queued one shares
its index with nobody (`Pair`), so that the row with the old index is the right
one, and that rows, lines and map agree and the lines have no gaps (`Tables`).
The loop is a recursive function over its turns; `LoopKeeps` is the induction,
by the least turn at which one of the three statements about it would fail.
Once a controller was refused only the types are claimed.

The other assumptions are that devices are a finite set of natural numbers,
that bounds are natural or positive numbers, that null values are not objects,
that a launch has at least one asset and each asset is in the batch, that
each sink has a card, and that the `pegasus.pad` lines a start finds in
recalbox.conf have no gap (`LeftoversAssumption`): the loops of GamepadManager
that clean them up stop at an empty line, and versions that wrote the file kept
the lines together from the first on, as these handlers do.  No theorem bounds the
number of plays, changes or scans: the constants may be any numbers.

Only model-checked: liveness (`SessionEnds`, `EventuallyRecorded`,
`LaunchReturns`, `PluggedIsSeated`, `CallsReturn`, `ScanEnds`, the liveness of
LatestWins), which TLAPS does not prove.

## 5. Not modelled, and the plan

Left, in the order of their importance:

1. A second component that shares a DownloadManager with the first, which takes
   21 components in one session (`Updates.cpp:563`).
2. More gamepads than the 10 lines; the Qt backend, which is an alternative of
   the build.
3. The version comparison `isNewVersion` of `Updates.cpp`, a pure function.
4. Netplay rooms: list models refreshed from a JSON reply and pings.

Left out for good.  ScriptManager: the masks of user scripts and their
selection by name are data, and the calls are the hooks of GameSession
(`StartGameClip` is two bits instead of one, `ScriptManager.h:48`, so that its
scripts also run for other events; no property is about it).
Containers of `utils/storage`: nothing that is built uses the ring buffer.  The
timed wait of `Signal` is used by SyncTimer only, which is not used either, and
ThreadPool.h has no user.  Providers that only parse files (what they do to the
search context is in ProviderScan), RetroAchievements (a vendored library and
HTTP), BIOS and single-play listings, boards, storage devices, the QML
frontend: their control is sequential and their risk is in the data.
