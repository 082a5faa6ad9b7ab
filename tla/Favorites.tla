----------------------------- MODULE Favorites -----------------------------
(***************************************************************************)
(* The favorites provider.  Each change of a favorite hands a snapshot of  *)
(* the whole list to the provider; a thread of the pool writes the newest  *)
(* snapshot to favorites.txt, line by line into the truncated file.  A     *)
(* scan, at start or on request, reads the file back into a new game model.*)
(*                                                                         *)
(* Snapshots carry the rank of the change that made them, and so does the  *)
(* worker start_processing launches for it.                                *)
(***************************************************************************)
EXTENDS Integers, FiniteSets

CONSTANTS
  Games,       \* the games of the model
  NoTask,      \* an empty QStringList
  MaxChanges,  \* bound: changes of a favorite in a behaviour
  MaxScans     \* bound: rescans and restarts in a behaviour

ASSUME BoundsAssumption == MaxChanges \in Nat \ {0} /\ MaxScans \in Nat

Changes   == 1 .. MaxChanges
Snapshots == [ver : Changes, favs : SUBSET Games]

ASSUME NoTaskAssumption == NoTask \notin Snapshots

VARIABLES
  fav,       \* Game::isFavorite of the game model on the screen
  wanted,    \* history: the favorites as the player last set them
  changes,   \* number of changes so far
  notified,  \* the last change the provider was told
  pending,   \* m_pending_task
  active,    \* m_active_task
  worker,    \* where each worker stands, "none" when it does not exist
  file,      \* the lines of favorites.txt, below the comment
  stored,    \* history: the last snapshot that was completely written
  scan,      \* idle, running, ending: UI ready, the future still running
  scans,     \* rescans and restarts so far
  unsaved,   \* a change the provider was not told, since the last one it was
  missed,    \* history: a scan could not read the file, or read one that
             \* lacked a change
  broken     \* history: a snapshot could not be written, or a crash lost it

queue == <<pending, active>>
player == <<fav, wanted, changes, notified, unsaved>>
disk == <<file, stored, broken>>
scanVars == <<scan, scans, missed>>
vars == <<player, queue, worker, disk, scanVars>>

Running == {w \in Changes : worker[w] # "none"}

Init ==
  /\ fav = {} /\ wanted = {} /\ changes = 0 /\ notified = 0 /\ unsaved = FALSE
  /\ pending = NoTask /\ active = NoTask
  /\ worker = [w \in Changes |-> "none"]
  /\ file = {} /\ stored = 0 /\ broken = FALSE
  /\ scan = "idle" /\ scans = 0 /\ missed = FALSE

-----------------------------------------------------------------------------
(* The main thread.                                                        *)

(* Game::setFavorite from the UI, which the splash screen hides during a   *)
(* scan.                                                                   *)
Flip(g) ==
  /\ changes < MaxChanges
  /\ changes' = changes + 1
  /\ fav' = IF g \in fav THEN fav \ {g} ELSE fav \union {g}
  /\ wanted' = IF g \in fav THEN wanted \ {g} ELSE wanted \union {g}

(* Mutant: every notification starts a worker.                             *)
FavoriteChangedAlwaysStarts(g) ==
  /\ scan = "idle" /\ Flip(g)
  /\ notified' = changes' /\ unsaved' = FALSE
  /\ active' = [ver |-> changes', favs |-> fav']
  /\ pending' = NoTask
  /\ worker' = [worker EXCEPT ![changes'] = "open"]
  /\ UNCHANGED <<disk, scanVars>>

(* Mutant: the first waiting snapshot is kept, not the last.               *)
FavoriteChangedKeepsFirst(g) ==
  LET snapshot == [ver |-> changes', favs |-> fav'] IN
  /\ scan = "idle" /\ Flip(g)
  /\ notified' = changes' /\ unsaved' = FALSE
  /\ IF active = NoTask
     THEN /\ active' = snapshot /\ pending' = NoTask
          /\ worker' = [worker EXCEPT ![changes'] = "open"]
     ELSE /\ pending' = IF pending = NoTask THEN snapshot ELSE pending
          /\ UNCHANGED <<active, worker>>
  /\ UNCHANGED <<disk, scanVars>>

(* onGameFavoriteChanged and the swap of start_processing, under           *)
(* m_task_guard: a snapshot replaces the one that was waiting.             *)
FavoriteChanged(g) ==
  LET snapshot == [ver |-> changes', favs |-> fav'] IN
  /\ scan = "idle" /\ Flip(g)
  /\ notified' = changes' /\ unsaved' = FALSE
  /\ IF active = NoTask
     THEN /\ active' = snapshot /\ pending' = NoTask
          /\ worker' = [worker EXCEPT ![changes'] = "open"]
     ELSE /\ pending' = snapshot
          /\ UNCHANGED <<active, worker>>
  /\ UNCHANGED <<disk, scanVars>>

(* The future of the scan still runs when the UI is back: ProviderManager  *)
(* drops the notification.                                                 *)
FavoriteChangeDropped(g) ==
  /\ scan = "ending" /\ Flip(g)
  /\ unsaved' = TRUE
  /\ UNCHANGED <<notified, queue, worker, disk, scanVars>>

-----------------------------------------------------------------------------
(* The worker of start_processing.                                         *)

(* Mutant: the file is opened for appending.                               *)
OpenFileAppending(w) ==
  /\ worker[w] = "open"
  /\ worker' = [worker EXCEPT ![w] = "write"]
  /\ UNCHANGED <<player, queue, disk, scanVars>>

(* QIODevice::WriteOnly truncates the file.                                *)
OpenFile(w) ==
  /\ worker[w] = "open"
  /\ file' = {}
  /\ worker' = [worker EXCEPT ![w] = "write"]
  /\ UNCHANGED <<player, queue, stored, broken, scanVars>>

(* The worker leaves without touching m_active_task.                       *)
OpenFails(w) ==
  /\ worker[w] = "open"
  /\ broken' = TRUE
  /\ worker' = [worker EXCEPT ![w] = "none"]
  /\ UNCHANGED <<player, queue, file, stored, scanVars>>

(* Qt::endl flushes every line to the file.                                *)
WriteLine(w, g) ==
  /\ worker[w] = "write"
  /\ g \in active.favs \ file
  /\ file' = file \union {g}
  /\ UNCHANGED <<player, queue, worker, stored, broken, scanVars>>

(* Under m_task_guard: the task is done, on to the next one or out of the  *)
(* loop.  The state of the stream is not read, a full disk goes unnoticed. *)
Finish(w) ==
  /\ worker[w] = "write"
  /\ IF active.favs \subseteq file
     THEN stored' = active.ver /\ UNCHANGED broken
     ELSE broken' = TRUE /\ UNCHANGED stored
  /\ active' = pending /\ pending' = NoTask
  /\ worker' = [worker EXCEPT ![w] = IF pending = NoTask THEN "none" ELSE "open"]
  /\ UNCHANGED <<player, file, scanVars>>

-----------------------------------------------------------------------------
(* The scan.                                                               *)

ScanStarts ==
  /\ scan = "idle" /\ scans < MaxScans
  /\ scan' = "running" /\ scans' = scans + 1
  /\ fav' = {}
  /\ UNCHANGED <<wanted, changes, notified, unsaved, queue, worker, disk, missed>>

(* Mutant: the comment line is taken for a game.                           *)
ScanReadsComment ==
  /\ scan = "running"
  /\ scan' = "ending"
  /\ fav' = file \union {NoTask}
  /\ missed' = (missed \/ unsaved \/ Running # {})
  /\ UNCHANGED <<wanted, changes, notified, unsaved, queue, worker, disk, scans>>

(* Favorites::run: line by line, so a file that is being written may show  *)
(* any of its old and new lines.                                           *)
ScanReads ==
  /\ scan = "running"
  /\ scan' = "ending"
  /\ IF Running = {} THEN fav' = file
                     ELSE fav' \in SUBSET (file \union active.favs)
  /\ missed' = (missed \/ unsaved \/ Running # {})
  /\ UNCHANGED <<wanted, changes, notified, unsaved, queue, worker, disk, scans>>

(* The same when the file cannot be opened: no favorite is loaded, and the *)
(* next change of one hands on a list without the ones in the file.        *)
ScanCannotRead ==
  /\ scan = "running"
  /\ scan' = "ending"
  /\ fav' = {}
  /\ missed' = TRUE
  /\ UNCHANGED <<wanted, changes, notified, unsaved, queue, worker, disk, scans>>

ScanReturns ==
  /\ scan = "ending"
  /\ scan' = "idle"
  /\ UNCHANGED <<player, queue, worker, disk, scans, missed>>

(* A crash or a power failure, and the first scan of the next start.       *)
Restart ==
  /\ scans < MaxScans
  /\ scan' = "running" /\ scans' = scans + 1
  /\ fav' = {}
  /\ pending' = NoTask /\ active' = NoTask
  /\ worker' = [w \in Changes |-> "none"]
  /\ broken' = (broken \/ active # NoTask)
  /\ UNCHANGED <<wanted, changes, notified, unsaved, file, stored, missed>>

-----------------------------------------------------------------------------
Worker(w) ==
  \/ OpenFile(w)
  \/ OpenFails(w)
  \/ \E g \in Games : WriteLine(w, g)
  \/ Finish(w)

Scan == ScanReads \/ ScanCannotRead \/ ScanReturns

Next ==
  \/ \E g \in Games : FavoriteChanged(g) \/ FavoriteChangeDropped(g)
  \/ \E w \in Changes : Worker(w)
  \/ ScanStarts
  \/ Scan
  \/ Restart

(* The threads of the pool are scheduled.                                  *)
Spec ==
  /\ Init /\ [][Next]_vars
  /\ \A w \in Changes : WF_vars(Worker(w))
  /\ WF_vars(Scan)

-----------------------------------------------------------------------------
FlagsOK ==
  unsaved \in BOOLEAN /\ missed \in BOOLEAN /\ broken \in BOOLEAN

ValuesOK ==
  /\ fav \subseteq Games /\ wanted \subseteq Games /\ file \subseteq Games
  /\ changes \in 0 .. MaxChanges
  /\ notified \in 0 .. changes /\ stored \in 0 .. notified
  /\ pending \in Snapshots \union {NoTask}
  /\ active \in Snapshots \union {NoTask}
  /\ worker \in [Changes -> {"none", "open", "write"}]
  /\ scan \in {"idle", "running", "ending"} /\ scans \in 0 .. MaxScans

(* Every variable has its type.                                            *)
TypeOK == FlagsOK /\ ValuesOK

(* Two workers never write the file at the same time, and a snapshot waits *)
(* only behind one that is newer than the last stored one.                 *)
SingleWriter ==
  /\ \A v, w \in Running : v = w
  /\ Running # {} => active # NoTask /\ active.ver > stored
  /\ pending # NoTask => active # NoTask /\ active.ver < pending.ver

(* When the worker has left, the last snapshot that was notified is the    *)
(* one in the file, not an older one and not a part of one, unless the     *)
(* file could not be written.  At rest the screen, the file and the        *)
(* choices of the player then agree, unless, besides, a scan read the file *)
(* too early or could not read it, or the last change came too early after *)
(* a scan.                                                                 *)
ChoicesKept ==
  Running = {} /\ ~broken =>
    /\ stored = notified
    /\ scan = "idle" /\ ~missed /\ ~unsaved => fav = wanted /\ file = wanted

(* The provider implements LatestWins, its liveness included: a snapshot   *)
(* is never stored after a newer one, and the newest one is stored in the  *)
(* end, unless the store broke.                                            *)
Promise == INSTANCE LatestWins WITH requested <- notified

StoresLatest == Promise!Spec
=============================================================================
