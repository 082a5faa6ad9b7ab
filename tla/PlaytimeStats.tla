--------------------------- MODULE PlaytimeStats ---------------------------
(***************************************************************************)
(* The write-behind queue of the playtime provider.  The main thread       *)
(* queues a play when a game finishes; a thread of the pool moves batches  *)
(* of plays into the SQLite database and into the play counters of the     *)
(* game model; a scan rebuilds the game model from the database.           *)
(*                                                                         *)
(* A play is named by its rank, and so is the worker start_processing      *)
(* launches for it: a play launches at most one worker.                    *)
(***************************************************************************)
EXTENDS Integers, FiniteSets

CONSTANT MaxPlays   \* bound: plays finished in a behaviour
CONSTANT MaxScans   \* bound: rescans and restarts in a behaviour

ASSUME BoundsAssumption == MaxPlays \in Nat \ {0} /\ MaxScans \in Nat

Plays == 1 .. MaxPlays

VARIABLES
  finished,  \* plays handed to onGameFinished so far
  pending,   \* m_pending_tasks: a batch, the order inside it is irrelevant
  active,    \* m_active_tasks, written under the lock, read without it
  worker,    \* where each worker stands, "none" when it does not exist
  rows,      \* rows of the table "plays", per play
  counts,    \* contribution of each play to GameFile's play_count
  stale,     \* plays of game files that a rescan has replaced
  scan,      \* the scan thread: idle, running, reading the database
  scans,     \* number of rescans and restarts so far
  refused,   \* history: the database could not be opened or set up
  lost,      \* history: plays whose query failed, or in memory at a restart
  raced      \* history: two threads used m_active_tasks, or the default
             \* connection of QSqlDatabase, at the same time

queue == <<pending, active>>
store == <<rows, counts>>
scanVars == <<stale, scan, scans>>
history  == <<refused, lost, raced>>
vars == <<finished, queue, worker, store, scanVars, history>>

-----------------------------------------------------------------------------
(* A worker that exists, and one that holds the SQL connection.            *)
Running == {w \in Plays : worker[w] # "none"}
Writing == {w \in Plays : worker[w] = "write"}

Init ==
  /\ finished = 0 /\ pending = {} /\ active = {}
  /\ worker = [w \in Plays |-> "none"]
  /\ rows = [p \in Plays |-> 0] /\ counts = [p \in Plays |-> 0]
  /\ stale = {} /\ scan = "idle" /\ scans = 0
  /\ refused = FALSE /\ lost = {} /\ raced = FALSE

-----------------------------------------------------------------------------
(* The main thread.                                                        *)

(* Mutant: a batch being written does not prevent start_processing.        *)
GameFinishedAlwaysStarts ==
  LET play == finished + 1 IN
  /\ finished < MaxPlays /\ scan = "idle"
  /\ finished' = play
  /\ active' = pending \union {play} /\ pending' = {}
  /\ worker' = [worker EXCEPT ![play] = "check"]
  /\ raced' = (raced \/ Running # {})
  /\ UNCHANGED <<store, scanVars, refused, lost>>

(* Mutant: start_processing is called before the play is queued.           *)
GameFinishedStartsTooSoon ==
  LET play == finished + 1 IN
  /\ finished < MaxPlays /\ scan = "idle"
  /\ finished' = play
  /\ pending' = {play}
  /\ active' = IF active = {} THEN pending ELSE active
  /\ worker' = [worker EXCEPT ![play] = IF active = {} THEN "check" ELSE "none"]
  /\ raced' = (raced \/ (active = {} /\ Running # {}))
  /\ UNCHANGED <<store, scanVars, refused, lost>>

(* onGameFinished and the swap of start_processing, under m_queue_guard.   *)
(* ProviderManager does not call it while a scan runs.                     *)
GameFinished ==
  LET play == finished + 1 IN
  /\ finished < MaxPlays /\ scan = "idle"
  /\ finished' = play
  /\ IF active = {}
     THEN /\ active' = pending \union {play} /\ pending' = {}
          /\ worker' = [worker EXCEPT ![play] = "check"]
          /\ raced' = (raced \/ Running # {})
     ELSE /\ pending' = pending \union {play}
          /\ UNCHANGED <<active, worker, raced>>
  /\ UNCHANGED <<store, scanVars, refused, lost>>

-----------------------------------------------------------------------------
(* The worker of start_processing.                                         *)

(* while (!m_active_tasks.empty()), read without the lock, and             *)
(* update_modelgame for the whole batch.  A play of an earlier game model  *)
(* changes an object nobody shows any more.                                *)
CheckAndCount(w) ==
  /\ worker[w] = "check" /\ active # {}
  /\ counts' = [p \in Plays |-> IF p \in active \ stale THEN counts[p] + 1
                                                        ELSE counts[p]]
  /\ worker' = [worker EXCEPT ![w] = "open"]
  /\ UNCHANGED <<finished, queue, rows, scanVars, history>>

(* The unlocked read may miss a batch that was swapped in for a younger    *)
(* worker meanwhile.                                                       *)
CheckAndLeave(w) ==
  /\ worker[w] = "check"
  /\ active = {} \/ \E v \in Running : v > w
  /\ worker' = [worker EXCEPT ![w] = "none"]
  /\ UNCHANGED <<finished, queue, store, scanVars, history>>

(* SqliteDb takes over the default connection of QSqlDatabase: the one     *)
(* another thread is using is closed under its feet.                       *)
OpenDb(w) ==
  /\ worker[w] = "open"
  /\ worker' = [worker EXCEPT ![w] = "write"]
  /\ raced' = (raced \/ Writing # {} \/ scan = "reading")
  /\ UNCHANGED <<finished, queue, store, scanVars, refused, lost>>

(* The database cannot be opened, or its tables created: the worker leaves *)
(* the loop, and leaves its batch in m_active_tasks.                       *)
GiveUp(w) ==
  /\ worker[w] \in {"open", "write"}
  /\ worker' = [worker EXCEPT ![w] = "none"]
  /\ refused' = TRUE
  /\ UNCHANGED <<finished, queue, store, scanVars, lost, raced>>

(* Mutant: a play that could not be saved is taken back from the counter.  *)
WriteRowsAndTakeBack(w, saved) ==
  /\ worker[w] = "write" /\ saved \subseteq active
  /\ rows' = [p \in Plays |-> IF p \in saved THEN rows[p] + 1 ELSE rows[p]]
  /\ counts' = [p \in Plays |-> IF p \in active \ saved THEN counts[p] - 1
                                                       ELSE counts[p]]
  /\ lost' = lost \union (active \ saved)
  /\ worker' = [worker EXCEPT ![w] = "pickup"]
  /\ UNCHANGED <<finished, queue, scanVars, refused, raced>>

(* One transaction for the batch.  A failed query is only logged, and the  *)
(* result of commit is not read: the play it is about is lost.             *)
WriteRows(w, saved) ==
  /\ worker[w] = "write" /\ saved \subseteq active
  /\ rows' = [p \in Plays |-> IF p \in saved THEN rows[p] + 1 ELSE rows[p]]
  /\ lost' = lost \union (active \ saved)
  /\ worker' = [worker EXCEPT ![w] = "pickup"]
  /\ UNCHANGED <<finished, queue, counts, scanVars, refused, raced>>

(* Mutant: the batch is not cleared before the next one is added.          *)
PickUpWithoutClear(w) ==
  /\ worker[w] = "pickup"
  /\ active' = (IF pending = {} THEN {} ELSE active \union pending)
  /\ pending' = {}
  /\ worker' = [worker EXCEPT ![w] = "check"]
  /\ UNCHANGED <<finished, store, scanVars, history>>

(* Mutant: the worker handles one batch only.                              *)
PickUpAndLeave(w) ==
  /\ worker[w] = "pickup"
  /\ active' = pending /\ pending' = {}
  /\ worker' = [worker EXCEPT ![w] = "none"]
  /\ UNCHANGED <<finished, store, scanVars, history>>

(* Under m_queue_guard: the next batch.                                    *)
PickUp(w) ==
  /\ worker[w] = "pickup"
  /\ active' = pending /\ pending' = {}
  /\ worker' = [worker EXCEPT ![w] = "check"]
  /\ UNCHANGED <<finished, store, scanVars, history>>

-----------------------------------------------------------------------------
(* PlaytimeStats::run, in the scan thread.                                 *)

(* Mutant: the game model survives the rescan.                             *)
ScanStartsOnOldModel ==
  /\ scan = "idle" /\ scans < MaxScans
  /\ scan' = "running" /\ scans' = scans + 1
  /\ UNCHANGED <<finished, queue, worker, store, stale, history>>

(* ApiObject::startScanning: the game model is emptied, ProviderManager    *)
(* stops telling the providers what happens.                               *)
ScanStarts ==
  /\ scan = "idle" /\ scans < MaxScans
  /\ scan' = "running" /\ scans' = scans + 1
  /\ stale' = 1 .. finished
  /\ counts' = [p \in Plays |-> 0]
  /\ UNCHANGED <<finished, queue, worker, rows, history>>

ScanOpens ==
  /\ scan = "running"
  /\ scan' = "reading"
  /\ raced' = (raced \/ Writing # {})
  /\ UNCHANGED <<finished, queue, worker, store, stale, scans, refused, lost>>

(* The rows committed so far are added to the new game files, or none is   *)
(* when the database cannot be read.                                       *)
ScanReads ==
  /\ scan = "reading"
  /\ scan' = "idle"
  /\ \/ counts' = [p \in Plays |-> counts[p] + rows[p]]
     \/ UNCHANGED counts
  /\ UNCHANGED <<finished, queue, worker, rows, stale, scans, history>>

(* A crash or a power failure, and the first scan of the next start.  A    *)
(* transaction that was open is rolled back.  Two threads that use the     *)
(* same vector or the same connection may crash the program, too.          *)
Restart ==
  /\ scans < MaxScans
  /\ scan' = "running" /\ scans' = scans + 1
  /\ lost' = lost \union {p \in pending \union active : rows[p] = 0}
  /\ pending' = {} /\ active' = {}
  /\ worker' = [w \in Plays |-> "none"]
  /\ stale' = 1 .. finished
  /\ counts' = [p \in Plays |-> 0]
  /\ UNCHANGED <<finished, rows, refused, raced>>

-----------------------------------------------------------------------------
Worker(w) ==
  \/ CheckAndCount(w)
  \/ CheckAndLeave(w)
  \/ OpenDb(w)
  \/ GiveUp(w)
  \/ \E saved \in SUBSET Plays : WriteRows(w, saved)
  \/ PickUp(w)

Scan == ScanOpens \/ ScanReads

Next ==
  \/ GameFinished
  \/ \E w \in Plays : Worker(w)
  \/ ScanStarts
  \/ Scan
  \/ Restart

(* The threads of the pool are scheduled.                                  *)
Spec ==
  /\ Init /\ [][Next]_vars
  /\ \A w \in Plays : WF_vars(Worker(w))
  /\ WF_vars(Scan)

-----------------------------------------------------------------------------
FlagsOK == refused \in BOOLEAN /\ raced \in BOOLEAN

ValuesOK ==
  /\ finished \in 0 .. MaxPlays
  /\ pending \subseteq 1 .. finished /\ active \subseteq 1 .. finished
  /\ worker \in [Plays -> {"none", "check", "open", "write", "pickup"}]
  /\ rows \in [Plays -> Nat] /\ counts \in [Plays -> Nat]
  /\ stale \subseteq 1 .. finished
  /\ scan \in {"idle", "running", "reading"} /\ scans \in 0 .. MaxScans
  /\ lost \subseteq 1 .. finished

(* Every variable has its type; the two queues hold plays that finished.   *)
TypeOK == FlagsOK /\ ValuesOK

(* A play waits in at most one of the two queues; as long as no two        *)
(* threads met, it waits there until its row is written, whatever happens  *)
(* to the other plays of its batch.  It goes without a row only when its   *)
(* own query failed, or when the program ended before its row was          *)
(* committed: the queues are in memory alone.                              *)
NoPlayLost ==
  /\ pending \intersect active = {}
  /\ ~raced => \A p \in 1 .. finished :
                 p \in pending \union active \union lost \/ rows[p] >= 1

(* Without a meeting of two threads, a play has at most one row, also      *)
(* across restarts.                                                        *)
RecordedOnce == ~raced => \A p \in Plays : rows[p] <= 1

(* No play goes without a row but by its own failed query or by an end of  *)
(* the program before the commit, and none gets two: a failure is not at   *)
(* the cost of the rest of the batch, and an end of the program after the  *)
(* commit neither loses the batch nor has it written again.                *)
RecordedExactlyOnce == NoPlayLost /\ RecordedOnce

(* Once a play has left the queues, its counter does not exceed its rows.  *)
(* It may fall short: a play committed after a rescan has read the         *)
(* database is credited to a game file of the old model.                   *)
CountsFollowRows ==
  ~raced /\ scan = "idle" =>
    \A p \in Plays \ (pending \union active \union lost) : counts[p] <= rows[p]

(* A batch is left to nobody only after the database was refused: every    *)
(* other way out of the loop leaves an empty queue behind.                 *)
AbandonedOnlyOnFailure ==
  (active # {} \/ pending # {}) /\ Running = {} => refused

(* A second worker starts only in the window between the unlock of the     *)
(* first one and its next look at m_active_tasks.                          *)
WorkersMeetAtCheck ==
  [][\A v, w \in Plays :
       /\ worker[v] = "none" /\ worker'[v] # "none"
       /\ w \in Running /\ ~raced
       => worker[w] = "check"]_vars

(* Every play reaches the database, unless a query failed, the database    *)
(* was refused once, or two threads met.                                   *)
EventuallyRecorded ==
  \A p \in Plays :
    finished >= p ~> rows[p] >= 1 \/ p \in lost \/ refused \/ raced

(* test_Playtime.cpp, write_queue: "playCount" is 3 after three plays.     *)
CountedOnce == \A p \in Plays : counts[p] <= 1
=============================================================================
