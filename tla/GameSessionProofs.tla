-------------------------- MODULE GameSessionProofs --------------------------
(***************************************************************************)
(* Safety of GameSession for every set of files and every number of        *)
(* launches.  No invariant of GameSession is inductive by itself: each     *)
(* says what holds when the main thread is back in its event loop, and     *)
(* SessionInv says what holds in every slot of the chain before that.      *)
(***************************************************************************)
EXTENDS GameSession, TLAPS

(* A game-start hook waits for its game-end: from beforeRun until afterRun,*)
(* a stretch that crosses the event loop while the engine is destroyed and *)
(* while a background program is watched.                                  *)
RunOpen ==
  \/ pc \in {"launchOk", "teardown", "start", "running"}
  \/ pc = "loop" /\ launchFile # NoFile

HooksInv ==
  /\ hooks \in {0, 1}
  /\ pc # "dead" => (hooks = 1 <=> RunOpen)

FileInv ==
  /\ pc \in {"launch", "launchOk", "teardown", "start", "running"} => launchFile # NoFile
  /\ pc = "rebuild" => launchFile = NoFile
  /\ pc \in {"launch", "report"} \/ RunOpen => session \in Sessions

EngineInv ==
  /\ pc \in {"launch", "launchOk", "teardown"} => engine = "built"
  /\ pc \in {"start", "running", "report", "rebuild"} => engine # "deleting"
  /\ AtRest => engine = "built"

(* The timer runs only while the event loop waits for a background program.*)
TimerInv ==
  timer /\ pc # "dead" => pc = "loop" /\ launchFile # NoFile /\ engine # "deleting"

EsStateInv ==
  pc # "dead" /\ esState # 0 => esState \in failedStart \/ (hooks = 1 /\ esState = session)

PlayInv ==
  /\ pc \in {"teardown", "start", "running", "report"}
        \/ (pc = "loop" /\ launchFile # NoFile)
       => lastLaunch = session \/ session \in dropped
  /\ PlaysMatchLaunch

SessionInv ==
  /\ ValuesOK
  /\ HooksInv
  /\ FileInv
  /\ EngineInv
  /\ TimerInv
  /\ EsStateInv
  /\ PlayInv

-----------------------------------------------------------------------------
(* The Boolean variables, apart from the others: no action computes with   *)
(* numbers and flags at once.                                              *)
LEMMA FlagsCorrect == Spec => []FlagsOK
<1>1. Init => FlagsOK
  BY DEF Init, FlagsOK
<1>2. FlagsOK /\ [Next]_vars => FlagsOK'
  <2> SUFFICES ASSUME FlagsOK, [Next]_vars
               PROVE  FlagsOK'
    OBVIOUS
  <2> USE DEF FlagsOK, launcher, scan, config, playtime, scripts, world, history
  <2>1. CASE RejectEmptyCommand
    BY <2>1 DEF RejectEmptyCommand
  <2>2. CASE GameLaunchOk
    BY <2>2 DEF GameLaunchOk
  <2>3. CASE Teardown
    BY <2>3 DEF Teardown
  <2>4. CASE EngineDestroyed
    BY <2>4 DEF EngineDestroyed
  <2>5. CASE StartBlocking
    BY <2>5 DEF StartBlocking
  <2>6. CASE StartFails
    BY <2>6 DEF StartFails
  <2>7. CASE StartBackground
    BY <2>7 DEF StartBackground, CloseRun
  <2>8. CASE RunReturns
    BY <2>8 DEF RunReturns, CloseRun
  <2>9. CASE CheckPidStatus
    BY <2>9 DEF CheckPidStatus, CloseRun
  <2>10. CASE GameFinished
    BY <2>10 DEF GameFinished
  <2>11. CASE Rebuild
    BY <2>11 DEF Rebuild
  <2>12. CASE ScanEmitsFinished
    BY <2>12 DEF ScanEmitsFinished
  <2>13. CASE ScanReturns
    BY <2>13 DEF ScanReturns
  <2>14. CASE SearchFinished
    BY <2>14 DEF SearchFinished
  <2>15. CASE StartScanning
    BY <2>15 DEF StartScanning
  <2>16. CASE ConfReloaded
    BY <2>16 DEF ConfReloaded
  <2>17. CASE OtherPythonStarts
    BY <2>17 DEF OtherPythonStarts
  <2>18. CASE OtherPythonExits
    BY <2>18 DEF OtherPythonExits
  <2>19. CASE WorkerCrash
    BY <2>19 DEF WorkerCrash
  <2>20. ASSUME NEW python \in BOOLEAN, PrepareRun(python)
        PROVE  FlagsOK'
    BY <2>20 DEF PrepareRun
  <2>21. ASSUME NEW f \in GameFiles, LaunchRequested(f)
        PROVE  FlagsOK'
    BY <2>21 DEF LaunchRequested
  <2>22. ASSUME NEW s \in Sessions, ProgramExits(s)
        PROVE  FlagsOK'
    BY <2>22 DEF ProgramExits
  <2>23. CASE UNCHANGED vars
    BY <2>23 DEF vars
  <2>24. QED
    BY <2>1, <2>2, <2>3, <2>4, <2>5, <2>6, <2>7, <2>8, <2>9, <2>10, <2>11,
       <2>12, <2>13, <2>14, <2>15, <2>16, <2>17, <2>18, <2>19, <2>20, <2>21,
       <2>22, <2>23
       DEF Next, MainThread, Environment, Scan, Dead
<1>3. QED
  BY <1>1, <1>2, PTL DEF Spec

(* The initial states satisfy the inductive invariant.                     *)
LEMMA InitInv == Init => SessionInv
  BY NoFileAssumption, MaxLaunchesAssumption
     DEF Init, SessionInv, ValuesOK, HooksInv, RunOpen, FileInv, EngineInv,
         AtRest, TimerInv, EsStateInv, PlayInv, PlaysMatchLaunch

(* Every slot, event and step of another thread preserves it.              *)
LEMMA NextInv == SessionInv /\ [Next]_vars => SessionInv'
<1> SUFFICES ASSUME SessionInv, [Next]_vars
             PROVE  SessionInv'
  OBVIOUS
<1> USE NoFileAssumption, MaxLaunchesAssumption
    DEF SessionInv, ValuesOK, HooksInv, RunOpen, FileInv, EngineInv, AtRest,
        TimerInv, EsStateInv, PlayInv, PlaysMatchLaunch, Sessions, launcher,
        scan, config, playtime, scripts, world, history
<1>1. CASE RejectEmptyCommand
  BY <1>1 DEF RejectEmptyCommand
<1>2. ASSUME NEW python \in BOOLEAN, PrepareRun(python)
      PROVE  SessionInv'
  BY <1>2 DEF PrepareRun
<1>3. CASE GameLaunchOk
  BY <1>3 DEF GameLaunchOk
<1>4. CASE Teardown
  BY <1>4 DEF Teardown, KeepsEngine
<1>5. CASE EngineDestroyed
  BY <1>5 DEF EngineDestroyed
<1>6. CASE StartBlocking
  BY <1>6 DEF StartBlocking
<1>7. CASE StartFails
  BY <1>7 DEF StartFails
<1>8. CASE StartBackground
  <2>1. Pythons \subseteq Sessions \union {0}
    BY DEF Pythons
  <2>2. session \in Sessions
    BY <1>8 DEF StartBackground
  <2>3. alive' \subseteq Sessions /\ watched' \subseteq Sessions \union {0}
    BY <1>8, <2>1, <2>2 DEF StartBackground
  <2>4. CASE watched' = {}
    BY <1>8, <2>3, <2>4 DEF StartBackground, CloseRun
  <2>5. CASE watched' # {}
    BY <1>8, <2>3, <2>5 DEF StartBackground
  <2>6. QED
    BY <2>4, <2>5
<1>9. CASE RunReturns
  BY <1>9 DEF RunReturns, CloseRun
<1>10. CASE CheckPidStatus
  BY <1>10 DEF CheckPidStatus, CloseRun
<1>11. CASE GameFinished
  BY <1>11 DEF GameFinished
<1>12. CASE Rebuild
  BY <1>12 DEF Rebuild
<1>13. CASE ScanEmitsFinished
  BY <1>13 DEF ScanEmitsFinished
<1>14. CASE ScanReturns
  BY <1>14 DEF ScanReturns
<1>15. CASE SearchFinished
  BY <1>15 DEF SearchFinished
<1>16. CASE StartScanning
  BY <1>16 DEF StartScanning
<1>17. ASSUME NEW f \in GameFiles, LaunchRequested(f)
       PROVE  SessionInv'
  BY <1>17 DEF LaunchRequested
<1>18. CASE ConfReloaded
  BY <1>18 DEF ConfReloaded
<1>19. CASE OtherPythonStarts
  BY <1>19 DEF OtherPythonStarts
<1>20. CASE OtherPythonExits
  BY <1>20 DEF OtherPythonExits
<1>21. CASE WorkerCrash
  BY <1>21 DEF WorkerCrash
<1>22. ASSUME NEW s \in Sessions, ProgramExits(s)
       PROVE  SessionInv'
  BY <1>22 DEF ProgramExits
<1>23. CASE UNCHANGED vars
  BY <1>23 DEF vars
<1>24. QED
  BY <1>1, <1>2, <1>3, <1>4, <1>5, <1>6, <1>7, <1>8, <1>9, <1>10, <1>11,
     <1>12, <1>13, <1>14, <1>15, <1>16, <1>17, <1>18, <1>19, <1>20, <1>21,
     <1>22, <1>23
     DEF Next, MainThread, Environment, Scan, Dead

(* The inductive invariant of a session holds in every state: hooks, file, *)
(* engine, timer, es_state and plays fit the slot that runs next.          *)
THEOREM SessionInvariant == Spec => []SessionInv
  BY InitInv, NextInv, PTL DEF Spec

-----------------------------------------------------------------------------
(* Every variable keeps its type; for `hooks' that is already the claim    *)
(* that afterRun never runs without its beforeRun.                         *)
THEOREM TypeCorrect == Spec => []TypeOK
<1>1. SessionInv => ValuesOK
  BY DEF SessionInv
<1>2. QED
  BY <1>1, FlagsCorrect, SessionInvariant, PTL DEF TypeOK

(* The game-start and game-end hooks alternate and are balanced at rest.   *)
THEOREM HooksArePaired == Spec => []HooksPaired
<1>1. SessionInv => HooksPaired
  BY DEF SessionInv, HooksInv, HooksPaired, RunOpen, AtRest
<1>2. QED
  BY <1>1, SessionInvariant, PTL

(* After a session the UI is there again, no program is looked for any     *)
(* more, and es_state.inf announces a running game only for a failed       *)
(* start.                                                                  *)
THEOREM SessionLeavesNothing == Spec => []RestIsClean
<1>1. SessionInv => (AtRest => engine = "built")
  BY DEF SessionInv, EngineInv
<1>2. SessionInv => (AtRest /\ esState # 0 => esState \in failedStart)
  BY DEF SessionInv, EsStateInv, HooksInv, RunOpen, AtRest
<1>3. SessionInv => (AtRest => ~timer)
  BY DEF SessionInv, TimerInv, AtRest
<1>4. SessionInv => RestIsClean
  BY <1>1, <1>2, <1>3 DEF RestIsClean
<1>5. QED
  BY <1>4, SessionInvariant, PTL

(* A program runs only once the engine is destroyed or kept on purpose.    *)
THEOREM TornDownFirst == Spec => []TornDownBeforeRun
<1>1. SessionInv => TornDownBeforeRun
  BY DEF SessionInv, EngineInv, TornDownBeforeRun
<1>2. QED
  BY <1>1, SessionInvariant, PTL

(* A reported play starts with the launch of its own session, unless a     *)
(* scan swallowed that launch.                                             *)
THEOREM PlaysMatch == Spec => []PlaysMatchLaunch
<1>1. SessionInv => PlaysMatchLaunch
  BY DEF SessionInv, PlayInv
<1>2. QED
  BY <1>1, SessionInvariant, PTL

=============================================================================
