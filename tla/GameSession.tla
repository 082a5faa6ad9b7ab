---------------------------- MODULE GameSession ----------------------------
(***************************************************************************)
(* The life of one game session: ApiObject remembers the file to launch,   *)
(* ProcessLauncher prepares and runs the external program, FrontendLayer   *)
(* tears the QML engine down and rebuilds it, ProviderManager tells the    *)
(* providers that a game was launched and finished (and drops both events  *)
(* while a scan runs).                                                     *)
(*                                                                         *)
(* All four live in the main thread and are wired by direct Qt connections *)
(* (Backend.cpp), so one launch is a chain of nested slot calls.  "pc" is  *)
(* the slot of that chain that runs next, "loop" when the main thread is   *)
(* back in its event loop.  The scan thread, the external programs and the *)
(* HTTP requests interleave with the chain.                                *)
(***************************************************************************)
EXTENDS Integers

CONSTANTS
  GameFiles,    \* the launchable model::GameFile objects
  NoFile,       \* nullptr
  MaxLaunches   \* bound: launches accepted by ApiObject in a behaviour

ASSUME NoFileAssumption == NoFile \notin GameFiles
ASSUME MaxLaunchesAssumption == MaxLaunches \in Nat \ {0}

VARIABLES
  pc,             \* next slot of the main thread
  launchFile,     \* ApiObject::m_launch_game_file
  engine,         \* FrontendLayer::m_engine: built, deleting (deleteLater), none
  pythonCommand,  \* ProcessLauncher::globalCommand is not empty
  process,        \* ProcessLauncher::m_process is not null
  watched,        \* ProcessLauncher::m_pid: the python processes ps listed
  timer,          \* ProcessLauncher::timer is active
  hooks,          \* game-start hooks run minus game-end hooks run
  esState,        \* session es_state.inf announces as running, 0 for none
  multiwindows,   \* pegasus.multiwindows
  keeploaded,     \* pegasus.theme.keeploaded
  loading,        \* Meta::m_loading, the splash screen hides the UI
  future,         \* ProviderManager::m_future.isRunning()
  finishedQueued, \* ProviderManager::finished waits in the event queue
  lastLaunch,     \* PlaytimeStats::m_last_launch_time: its session, 0 if invalid
  plays,          \* what PlaytimeStats::onGameFinished was told
  alive,          \* sessions whose external program is running
  other,          \* a python process that is not a game
  session,        \* number of launches accepted so far
  dropped,        \* history: sessions whose launch event a scan swallowed
  failedStart     \* history: sessions whose program could not be started

launcher == <<pythonCommand, process, watched, timer>>
scan     == <<loading, future, finishedQueued>>
config   == <<multiwindows, keeploaded>>
playtime == <<lastLaunch, plays>>
scripts  == <<hooks, esState>>
world    == <<alive, other>>
history  == <<session, dropped, failedStart>>
vars == <<pc, launchFile, engine, launcher, scripts, config, scan, playtime,
          world, history>>

Sessions == 1 .. MaxLaunches

(* The python processes `ps -e | grep` can list; 0 stands for `other'.  A  *)
(* program run by QProcess or by a blocking system() is never alive when   *)
(* ps is called.                                                           *)
Pythons == alive \union (IF other = "alive" THEN {0} ELSE {})

-----------------------------------------------------------------------------
Init ==
  /\ pc = "loop"
  /\ launchFile = NoFile
  /\ engine = "built"
  /\ pythonCommand = FALSE /\ process = FALSE
  /\ watched = {} /\ timer = FALSE
  /\ hooks = 0 /\ esState = 0
  /\ multiwindows \in BOOLEAN /\ keeploaded \in BOOLEAN
  /\ loading = TRUE /\ future = TRUE /\ finishedQueued = FALSE
  /\ lastLaunch = 0 /\ plays = {}
  /\ alive = {} /\ other = "unborn"
  /\ session = 0 /\ dropped = {} /\ failedStart = {}

-----------------------------------------------------------------------------
(* Launching.                                                              *)

(* GameFile::launchRequested reaches ApiObject.  The UI can send it only   *)
(* while the engine exists and the splash screen does not cover it.        *)
LaunchRequested(f) ==
  /\ pc = "loop" /\ engine = "built" /\ ~loading
  /\ session < MaxLaunches
  /\ launchFile = NoFile
  /\ launchFile' = f
  /\ session' = session + 1
  /\ pc' = "launch"
  /\ UNCHANGED <<engine, launcher, scripts, config, scan, playtime, world,
                 dropped, failedStart>>

(* Mutant: the command is tested after beforeRun.                          *)
RejectAfterHook ==
  /\ pc = "launch"
  /\ launchFile' = NoFile
  /\ hooks' = hooks + 1
  /\ pc' = "loop"
  /\ UNCHANGED <<engine, launcher, esState, config, scan, playtime, world,
                 history>>

(* No launch command: processLaunchError before anything else.             *)
RejectEmptyCommand ==
  /\ pc = "launch"
  /\ launchFile' = NoFile
  /\ pc' = "loop"
  /\ UNCHANGED <<engine, launcher, scripts, config, scan, playtime, world,
                 history>>

(* beforeRun, the RunGame notification and runProcess.  A python command   *)
(* is kept in globalCommand, any other one in a QProcess.                  *)
PrepareRun(python) ==
  /\ pc = "launch"
  /\ hooks' = hooks + 1
  /\ esState' = session
  /\ pythonCommand' = python
  /\ process' = (process \/ ~python)
  /\ pc' = "launchOk"
  /\ UNCHANGED <<launchFile, engine, watched, timer, config, scan, playtime,
                 world, history>>

(* Mutant: the launch time is set once and never renewed.                  *)
GameLaunchOkFirstOnly ==
  /\ pc = "launchOk"
  /\ lastLaunch' = IF future \/ lastLaunch # 0 THEN lastLaunch ELSE session
  /\ dropped' = IF future THEN dropped \union {session} ELSE dropped
  /\ pc' = "teardown"
  /\ UNCHANGED <<launchFile, engine, launcher, scripts, config, scan, plays,
                 world, session, failedStart>>

(* processLaunchOk, first slot: the providers hear of the launch unless a  *)
(* scan is running.                                                        *)
GameLaunchOk ==
  /\ pc = "launchOk"
  /\ lastLaunch' = IF future THEN lastLaunch ELSE session
  /\ dropped' = IF future THEN dropped \union {session} ELSE dropped
  /\ pc' = "teardown"
  /\ UNCHANGED <<launchFile, engine, launcher, scripts, config, scan, plays,
                 world, session, failedStart>>

(* processLaunchOk, second slot.  The engine is destroyed later, from the  *)
(* event loop, unless a setting keeps it loaded.                           *)
KeepsEngine == multiwindows \/ keeploaded

(* Mutant: teardownComplete is emitted without waiting for the engine.     *)
TeardownAtOnce ==
  /\ pc = "teardown"
  /\ engine' = IF KeepsEngine THEN engine ELSE "deleting"
  /\ pc' = "start"
  /\ UNCHANGED <<launchFile, launcher, scripts, config, scan, playtime, world,
                 history>>

Teardown ==
  /\ pc = "teardown"
  /\ engine' = IF KeepsEngine THEN engine ELSE "deleting"
  /\ pc' = IF KeepsEngine THEN "start" ELSE "loop"
  /\ UNCHANGED <<launchFile, launcher, scripts, config, scan, playtime, world,
                 history>>

EngineDestroyed ==
  /\ pc = "loop" /\ engine = "deleting"
  /\ engine' = "none"
  /\ pc' = "start"
  /\ UNCHANGED <<launchFile, launcher, scripts, config, scan, playtime, world,
                 history>>

-----------------------------------------------------------------------------
(* ProcessLauncher::onTeardownComplete: running the program.               *)

(* Mutant: Notification::EndGame is forgotten.                             *)
CloseRunSilently ==
  /\ UNCHANGED esState
  /\ hooks' = hooks - 1
  /\ process' = FALSE

(* onProcessFinished and afterRun.                                         *)
CloseRun ==
  /\ esState' = 0
  /\ hooks' = hooks - 1
  /\ process' = FALSE

(* system() or QProcess::waitForFinished(-1): the main thread is blocked.  *)
StartBlocking ==
  /\ pc = "start"
  /\ process \/ pythonCommand
  /\ ~(pythonCommand /\ multiwindows)
  /\ alive' = alive \union {session}
  /\ pc' = "running"
  /\ UNCHANGED <<launchFile, engine, launcher, scripts, config, scan, playtime,
                 other, history>>

(* Mutant: finished() is handled as well as errorOccurred().               *)
StartFailsTwice ==
  /\ pc = "start"
  /\ ~pythonCommand /\ process
  /\ launchFile' = NoFile
  /\ hooks' = hooks - 2
  /\ process' = FALSE
  /\ failedStart' = failedStart \union {session}
  /\ pc' = "report"
  /\ UNCHANGED <<engine, pythonCommand, watched, timer, esState, config, scan,
                 playtime, world, session, dropped>>

(* QProcess::FailedToStart: processLaunchError, then afterRun; finished()  *)
(* is not emitted, but onTeardownComplete emits processFinished anyway.    *)
StartFails ==
  /\ pc = "start"
  /\ ~pythonCommand /\ process
  /\ launchFile' = NoFile
  /\ hooks' = hooks - 1
  /\ process' = FALSE
  /\ failedStart' = failedStart \union {session}
  /\ pc' = "report"
  /\ UNCHANGED <<engine, pythonCommand, watched, timer, esState, config, scan,
                 playtime, world, session, dropped>>

(* Mutant: the timer is created but never started again.                   *)
StartBackgroundUnwatched ==
  /\ pc = "start"
  /\ pythonCommand /\ multiwindows
  /\ alive' = alive \union {session}
  /\ watched' = Pythons \union {session}
  /\ pc' = "loop"
  /\ UNCHANGED <<launchFile, engine, pythonCommand, process, timer, scripts,
                 config, scan, playtime, other, history>>

(* system("... &") followed by ps, which may run before the new process    *)
(* has become a python one, or after it has died.                          *)
StartBackground ==
  /\ pc = "start"
  /\ pythonCommand /\ multiwindows
  /\ \/ alive' = alive /\ watched' = Pythons
     \/ alive' = alive \union {session} /\ watched' \in {Pythons, Pythons \union {session}}
  /\ IF watched' = {}
     THEN /\ CloseRun
          /\ pc' = "report"
          /\ UNCHANGED timer
     ELSE /\ timer' = TRUE
          /\ pc' = "loop"
          /\ UNCHANGED <<scripts, process>>
  /\ UNCHANGED <<launchFile, engine, pythonCommand, config, scan, playtime,
                 other, history>>

(* The blocking call returns, cleanly or after a crash.                    *)
RunReturns ==
  /\ pc = "running" /\ session \notin alive
  /\ CloseRun
  /\ pc' = "report"
  /\ UNCHANGED <<launchFile, engine, pythonCommand, watched, timer, config,
                 scan, playtime, world, history>>

(* The 250 ms timer of the multiwindows mode: the listing of ps does not   *)
(* contain the remembered one any more.                                    *)
CheckPidStatus ==
  /\ pc = "loop" /\ timer
  /\ ~(watched \subseteq Pythons)
  /\ CloseRun
  /\ timer' = FALSE
  /\ pc' = "report"
  /\ UNCHANGED <<launchFile, engine, pythonCommand, watched, config, scan,
                 playtime, world, history>>

(* processFinished, first slot: ApiObject::onGameFinished.  Asserts are    *)
(* compiled out of a release build, so a null file goes to the providers.  *)
GameFinished ==
  /\ pc = "report"
  /\ plays' = IF future THEN plays
              ELSE plays \union {[start |-> lastLaunch, end |-> session,
                                  file |-> launchFile]}
  /\ launchFile' = NoFile
  /\ pc' = "rebuild"
  /\ UNCHANGED <<engine, launcher, scripts, config, scan, lastLaunch, world,
                 history>>

(* processFinished, second slot.                                           *)
Rebuild ==
  /\ pc = "rebuild"
  /\ engine' = "built"
  /\ pc' = "loop"
  /\ UNCHANGED <<launchFile, launcher, scripts, config, scan, playtime, world,
                 history>>

(* The playtime worker dereferences the null file it was given.            *)
WorkerCrash ==
  /\ pc # "dead"
  /\ \E p \in plays : p.file = NoFile
  /\ pc' = "dead"
  /\ UNCHANGED <<launchFile, engine, launcher, scripts, config, scan, playtime,
                 world, history>>

-----------------------------------------------------------------------------
(* The scan, as far as it decides what the providers hear.                 *)

(* Settings::reloadProviders, from a settings screen.  It asserts that the *)
(* previous scan has ended, which the time to reach that screen ensures.   *)
StartScanning ==
  /\ pc = "loop" /\ engine = "built" /\ ~loading /\ ~future
  /\ loading' = TRUE
  /\ future' = TRUE
  /\ UNCHANGED <<pc, launchFile, engine, launcher, scripts, config,
                 finishedQueued, playtime, world, history>>

(* The scan thread emits finished(), a queued signal, at its very end ...  *)
ScanEmitsFinished ==
  /\ pc # "dead"
  /\ future /\ loading /\ ~finishedQueued
  /\ finishedQueued' = TRUE
  /\ UNCHANGED <<pc, launchFile, engine, launcher, scripts, config, loading,
                 future, playtime, world, history>>

(* ... but the future runs until the thread function has returned.         *)
ScanReturns ==
  /\ pc # "dead"
  /\ future /\ (finishedQueued \/ ~loading)
  /\ future' = FALSE
  /\ UNCHANGED <<pc, launchFile, engine, launcher, scripts, config, loading,
                 finishedQueued, playtime, world, history>>

SearchFinished ==
  /\ pc = "loop" /\ finishedQueued
  /\ finishedQueued' = FALSE
  /\ loading' = FALSE
  /\ UNCHANGED <<pc, launchFile, engine, launcher, scripts, config, future,
                 playtime, world, history>>

-----------------------------------------------------------------------------
(* The environment.                                                        *)

(* GET /api?conf=reload, or a switch of the settings menu.                 *)
ConfReloaded ==
  /\ pc = "loop"
  /\ multiwindows' \in BOOLEAN /\ keeploaded' \in BOOLEAN
  /\ config' # config
  /\ UNCHANGED <<pc, launchFile, engine, launcher, scripts, scan, playtime,
                 world, history>>

ProgramExits(s) ==
  /\ s \in alive
  /\ alive' = alive \ {s}
  /\ UNCHANGED <<pc, launchFile, engine, launcher, scripts, config, scan,
                 playtime, other, history>>

OtherPythonStarts ==
  /\ other = "unborn"
  /\ other' = "alive"
  /\ UNCHANGED <<pc, launchFile, engine, launcher, scripts, config, scan,
                 playtime, alive, history>>

OtherPythonExits ==
  /\ other = "alive"
  /\ other' = "gone"
  /\ UNCHANGED <<pc, launchFile, engine, launcher, scripts, config, scan,
                 playtime, alive, history>>

(* The application has crashed and stays so.                               *)
Dead == pc = "dead" /\ UNCHANGED vars

-----------------------------------------------------------------------------
MainThread ==
  \/ RejectEmptyCommand
  \/ \E python \in BOOLEAN : PrepareRun(python)
  \/ GameLaunchOk
  \/ Teardown
  \/ EngineDestroyed
  \/ StartBlocking
  \/ StartFails
  \/ StartBackground
  \/ RunReturns
  \/ CheckPidStatus
  \/ GameFinished
  \/ Rebuild

Scan == ScanEmitsFinished \/ ScanReturns

Environment ==
  \/ \E f \in GameFiles : LaunchRequested(f)
  \/ StartScanning
  \/ ConfReloaded
  \/ OtherPythonStarts
  \/ WorkerCrash
  \/ Dead

Next ==
  \/ MainThread
  \/ Scan
  \/ SearchFinished
  \/ Environment
  \/ \E s \in Sessions : ProgramExits(s)
  \/ OtherPythonExits

(* The event loop runs, the player quits the game sooner or later, and the *)
(* python scripts that are not games are short-lived.                      *)
Fairness ==
  /\ WF_vars(MainThread)
  /\ WF_vars(\E s \in Sessions : ProgramExits(s))
  /\ WF_vars(OtherPythonExits)

Spec == Init /\ [][Next]_vars /\ Fairness

-----------------------------------------------------------------------------
FlagsOK ==
  /\ pythonCommand \in BOOLEAN /\ process \in BOOLEAN /\ timer \in BOOLEAN
  /\ multiwindows \in BOOLEAN /\ keeploaded \in BOOLEAN
  /\ loading \in BOOLEAN /\ future \in BOOLEAN /\ finishedQueued \in BOOLEAN

ValuesOK ==
  /\ pc \in {"loop", "launch", "launchOk", "teardown", "start", "running",
             "report", "rebuild", "dead"}
  /\ launchFile \in GameFiles \union {NoFile}
  /\ engine \in {"built", "deleting", "none"}
  /\ watched \subseteq Sessions \union {0}
  /\ hooks \in Nat
  /\ esState \in 0 .. MaxLaunches
  /\ lastLaunch \in 0 .. MaxLaunches
  /\ plays \subseteq [start : 0 .. MaxLaunches, end : Sessions,
                      file : GameFiles \union {NoFile}]
  /\ alive \subseteq Sessions
  /\ other \in {"unborn", "alive", "gone"}
  /\ session \in 0 .. MaxLaunches
  /\ dropped \subseteq Sessions
  /\ failedStart \subseteq Sessions

(* Every variable has its type; "hooks" stays a natural number, so no      *)
(* game-end hook runs without its game-start.                              *)
TypeOK == FlagsOK /\ ValuesOK

(* The main thread is in its event loop and no session is open.            *)
AtRest == pc = "loop" /\ launchFile = NoFile

(* The game-start and game-end hooks of the user alternate: at most one    *)
(* game-start is unanswered, and none once the session is over.            *)
HooksPaired ==
  /\ hooks \in {0, 1}
  /\ AtRest => hooks = 0
  /\ launchFile # NoFile /\ pc = "loop" => hooks = 1

(* Whatever path a session takes, it leaves nothing behind: the user has a *)
(* UI when it is over, the timer does not keep looking for a program in    *)
(* the list of ps, and es_state.inf does not keep announcing a running     *)
(* game, unless the program could not be started.                          *)
RestIsClean ==
  AtRest => /\ engine = "built"
            /\ ~timer
            /\ esState # 0 => esState \in failedStart

(* No program is started, and none blocks the main thread, while the       *)
(* engine is still waiting for its destruction: "the Launcher ... asks the *)
(* Frontend to tear down the UI" first.                                    *)
TornDownBeforeRun == pc \in {"start", "running", "report"} => engine # "deleting"

(* A play reported to the providers starts with the launch of the same     *)
(* session, unless a scan swallowed the launch event.                      *)
PlaysMatchLaunch ==
  \A p \in plays : p.start = p.end \/ p.end \in dropped

(* Every session ends, with a UI on the screen, unless the application     *)
(* crashed.                                                                *)
SessionEnds == launchFile # NoFile ~> (AtRest /\ engine = "built") \/ pc = "dead"

(* Q_ASSERT(m_launch_game_file) of ApiObject::onGameFinished.              *)
LaunchFileAsserted == pc = "report" => launchFile # NoFile
=============================================================================
