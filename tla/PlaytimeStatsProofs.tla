------------------------ MODULE PlaytimeStatsProofs ------------------------
(***************************************************************************)
(* The playtime queue, for any number of plays, rescans and restarts: no   *)
(* play is stored twice, or lost but by a failed query or by a restart     *)
(* that finds it in memory, and the counters follow the rows, as long as   *)
(* no two threads met.                                                     *)
(***************************************************************************)
EXTENDS PlaytimeStats, TLAPS

(* A play waits in one queue; the second queue is used only behind the     *)
(* first; a batch without a worker was refused by the database.            *)
QueuesInv ==
  /\ pending \intersect active = {}
  /\ active = {} => pending = {}
  /\ active # {} /\ (\A w \in Plays : worker[w] = "none") => refused

(* Until two threads meet there is one worker, and it works on a batch.    *)
AloneInv ==
  ~raced =>
    /\ \A v, w \in Plays : worker[v] # "none" /\ worker[w] # "none" => v = w
    /\ \A w \in Plays : worker[w] \in {"open", "write", "pickup"} => active # {}

(* A play has no row before the worker has written its batch, and one row, *)
(* or a failed query, when it has.                                         *)
RowsInv ==
  /\ \A p \in Plays : p > finished => rows[p] = 0
  /\ ~raced =>
       /\ \A p \in Plays : rows[p] <= 1
       /\ \A p \in 1 .. finished :
            p \in pending \union active \union lost \/ rows[p] >= 1
       /\ \A p \in pending : rows[p] = 0
       /\ \A p \in active :
            IF \E w \in Plays : worker[w] = "pickup"
            THEN p \in lost \/ rows[p] >= 1
            ELSE rows[p] = 0

(* A scan counts from zero, and a replaced game file only what was stored. *)
(* A play of the present game model is counted once, at the loop test.     *)
CountsInv ==
  /\ scan # "idle" => /\ stale = 1 .. finished
                      /\ \A p \in Plays : counts[p] = 0
  /\ \A p \in stale : counts[p] <= rows[p]
  /\ \A p \in Plays : p > finished => counts[p] = 0
  /\ ~raced =>
       /\ \A p \in Plays \ stale : counts[p] <= 1
       /\ \A p \in pending \ stale : counts[p] = 0
       /\ \A p \in active \ stale :
            (\E w \in Plays : worker[w] = "check") => counts[p] = 0

PlaysInv == ValuesOK /\ QueuesInv /\ AloneInv /\ RowsInv /\ CountsInv

-----------------------------------------------------------------------------
(* The Boolean variables, apart from the others.                           *)
LEMMA FlagsCorrect == Spec => []FlagsOK
<1>1. Init => FlagsOK
  BY DEF Init, FlagsOK
<1>2. FlagsOK /\ [Next]_vars => FlagsOK'
  <2> SUFFICES ASSUME FlagsOK, [Next]_vars PROVE FlagsOK'
    OBVIOUS
  <2> USE DEF FlagsOK, history
  <2>1. CASE GameFinished
    BY <2>1 DEF GameFinished
  <2>2. ASSUME NEW w \in Plays, Worker(w) PROVE FlagsOK'
    BY <2>2 DEF Worker, CheckAndCount, CheckAndLeave, OpenDb, GiveUp, WriteRows, PickUp
  <2>3. CASE ScanStarts \/ Scan \/ Restart \/ UNCHANGED vars
    BY <2>3 DEF ScanStarts, Scan, ScanOpens, ScanReads, Restart, vars
  <2>4. QED
    BY <2>1, <2>2, <2>3 DEF Next
<1>3. QED
  BY <1>1, <1>2, PTL DEF Spec

(* The plays the state speaks of are plays.                                *)
LEMMA PlaysBelow ==
  ASSUME ValuesOK
  PROVE  /\ 1 .. finished \subseteq Plays
         /\ pending \subseteq Plays /\ active \subseteq Plays /\ stale \subseteq Plays
         /\ \A p \in Plays : p \in Nat /\ (p > finished \/ p \in 1 .. finished)
  BY BoundsAssumption DEF ValuesOK, Plays

(* The initial states satisfy the inductive invariant.                     *)
LEMMA InitInv == Init => PlaysInv
  BY BoundsAssumption
     DEF Init, PlaysInv, ValuesOK, QueuesInv, AloneInv, RowsInv, CountsInv, Plays

(* A play goes to the idle queue with a worker of its own, or waits.       *)
LEMMA GameFinishedInv ==
  ASSUME PlaysInv, GameFinished
  PROVE  PlaysInv'
<1> USE DEF PlaysInv
<1> DEFINE play == finished + 1
<1>1. /\ play \in Plays /\ finished' = play /\ play \in 1 .. MaxPlays
      /\ play \notin pending /\ play \notin active
      /\ finished \in Nat /\ scan = "idle"
      /\ UNCHANGED <<rows, counts, stale, scan, scans, refused, lost>>
  BY BoundsAssumption DEF GameFinished, ValuesOK, Plays, store, scanVars
<1>2. rows[play] = 0 /\ counts[play] = 0
  BY <1>1 DEF RowsInv, CountsInv
<1>3. CASE active = {}
  <2>1. /\ active' = {play} /\ pending' = {} /\ pending = {}
        /\ worker' = [worker EXCEPT ![play] = "check"]
    BY <1>3 DEF GameFinished, QueuesInv
  <2>2. ~raced' => ~raced /\ \A w \in Plays : worker[w] = "none"
    BY <1>3 DEF GameFinished, Running
  <2>3. worker'[play] = "check"
    BY <1>1, <2>1 DEF ValuesOK
  <2>4. ~raced' => \A w \in Plays : w # play => worker'[w] = "none"
    BY <1>1, <2>1, <2>2 DEF ValuesOK
  <2>5. ValuesOK'
    BY <1>1, <2>1 DEF ValuesOK
  <2>6. QueuesInv'
    BY <1>1, <2>1, <2>3 DEF QueuesInv
  <2>7. AloneInv'
    BY <2>1, <2>3, <2>4 DEF AloneInv
  <2>8. RowsInv'
    BY <1>1, <1>2, <1>3, <2>1, <2>2, <2>3, <2>4 DEF RowsInv, ValuesOK, Plays
  <2>9. CountsInv'
    BY <1>1, <1>2, <1>3, <2>1, <2>2 DEF CountsInv, ValuesOK, Plays
  <2>10. QED
    BY <2>5, <2>6, <2>7, <2>8, <2>9
<1>4. CASE active # {}
  <2>1. /\ active' = active /\ pending' = pending \union {play}
        /\ worker' = worker /\ raced' = raced
    BY <1>4 DEF GameFinished
  <2>2. ValuesOK'
    BY <1>1, <2>1 DEF ValuesOK
  <2>3. QueuesInv' /\ AloneInv'
    BY <1>1, <1>4, <2>1 DEF QueuesInv, AloneInv
  <2>4. RowsInv'
    BY <1>1, <1>2, <2>1 DEF RowsInv, ValuesOK, Plays
  <2>5. CountsInv'
    BY <1>1, <1>2, <2>1 DEF CountsInv, ValuesOK, Plays
  <2>6. QED
    BY <2>2, <2>3, <2>4, <2>5
<1>5. QED
  BY <1>3, <1>4

(* The loop test: the batch is counted.                                    *)
LEMMA CountInv ==
  ASSUME PlaysInv, NEW w \in Plays, CheckAndCount(w)
  PROVE  PlaysInv'
<1> USE DEF PlaysInv
<1>1. /\ UNCHANGED <<finished, pending, active, rows, stale, scan, scans, refused, lost, raced>>
      /\ counts' = [p \in Plays |-> IF p \in active \ stale THEN counts[p] + 1
                                                            ELSE counts[p]]
      /\ worker' = [worker EXCEPT ![w] = "open"]
      /\ worker[w] = "check" /\ active # {}
  BY DEF CheckAndCount, queue, scanVars, history
<1>2. \A v \in Plays : worker'[v] = IF v = w THEN "open" ELSE worker[v]
  BY <1>1 DEF ValuesOK
<1>3. ValuesOK'
  BY <1>1 DEF ValuesOK, Plays
<1>4. QueuesInv' /\ AloneInv'
  BY <1>1, <1>2 DEF QueuesInv, AloneInv
<1>5. RowsInv'
  BY <1>1, <1>2 DEF RowsInv
<1>6. CountsInv'
  <2>1. scan # "idle" => active \ stale = {}
    BY DEF ValuesOK, CountsInv
  <2>2. \A p \in stale : p \in Plays /\ counts'[p] = counts[p]
    BY <1>1, PlaysBelow
  <2>3. \A p \in Plays : p > finished => counts'[p] = counts[p]
    BY <1>1 DEF ValuesOK, Plays
  <2>4. \A p \in pending : p \in Plays /\ counts'[p] = counts[p]
    BY <1>1, PlaysBelow DEF QueuesInv
  <2>5. ~raced => \A p \in Plays \ stale : counts'[p] <= 1
    <3>1. ~raced => \A p \in active \ stale : counts[p] = 0
      BY <1>1 DEF CountsInv
    <3>2. QED
      BY <1>1, <3>1 DEF CountsInv
  <2>6. ~raced => \A v \in Plays : worker'[v] # "check"
    BY <1>1, <1>2 DEF AloneInv
  <2>7. QED
    BY <1>1, <2>1, <2>2, <2>3, <2>4, <2>5, <2>6 DEF CountsInv
<1>7. QED
  BY <1>3, <1>4, <1>5, <1>6

(* A worker leaves an empty queue, or one that has another worker.         *)
LEMMA LeaveInv ==
  ASSUME PlaysInv, NEW w \in Plays, CheckAndLeave(w)
  PROVE  PlaysInv'
<1> USE DEF PlaysInv
<1>1. /\ UNCHANGED <<finished, pending, active, rows, counts, stale, scan, scans, refused, lost, raced>>
      /\ worker' = [worker EXCEPT ![w] = "none"] /\ worker[w] = "check"
      /\ active = {} \/ \E v \in Plays : v > w /\ worker[v] # "none"
  BY DEF CheckAndLeave, queue, store, scanVars, history, Running
<1>2. \A v \in Plays : worker'[v] = IF v = w THEN "none" ELSE worker[v]
  BY <1>1 DEF ValuesOK
<1>3. ValuesOK'
  BY <1>1 DEF ValuesOK
<1>4. QueuesInv'
  <2>1. ASSUME NEW v \in Plays, v > w PROVE v # w
    BY <2>1 DEF Plays
  <2>2. QED
    BY <1>1, <1>2, <2>1 DEF QueuesInv
<1>5. AloneInv' /\ RowsInv' /\ CountsInv'
  BY <1>1, <1>2 DEF AloneInv, RowsInv, CountsInv
<1>6. QED
  BY <1>3, <1>4, <1>5

(* The database: opened, or refused.                                       *)
LEMMA OpenInv ==
  ASSUME PlaysInv, NEW w \in Plays, OpenDb(w) \/ GiveUp(w)
  PROVE  PlaysInv'
<1> USE DEF PlaysInv
<1>1. /\ UNCHANGED <<finished, pending, active, rows, counts, stale, scan, scans, lost>>
      /\ worker[w] \in {"open", "write"}
  BY DEF OpenDb, GiveUp, queue, store, scanVars
<1>2. /\ ~raced' => ~raced
      /\ refused => refused'
      /\ \/ worker' = [worker EXCEPT ![w] = "write"]
         \/ worker' = [worker EXCEPT ![w] = "none"] /\ refused'
  <2>1. CASE OpenDb(w)
    BY <2>1 DEF OpenDb
  <2>2. CASE GiveUp(w)
    BY <2>2 DEF GiveUp
  <2>3. QED
    BY <2>1, <2>2
<1>3. \A v \in Plays : v # w => worker'[v] = worker[v]
  BY <1>2 DEF ValuesOK
<1>4. worker'[w] = "write" \/ (worker'[w] = "none" /\ refused')
  BY <1>2 DEF ValuesOK
<1>5. ValuesOK'
  BY <1>1, <1>2 DEF ValuesOK
<1>6. QueuesInv' /\ AloneInv'
  BY <1>1, <1>2, <1>3, <1>4 DEF QueuesInv, AloneInv
<1>7. RowsInv' /\ CountsInv'
  BY <1>1, <1>2, <1>3, <1>4 DEF RowsInv, CountsInv
<1>8. QED
  BY <1>5, <1>6, <1>7

(* The transaction: of each play of the batch a row, or a failed query.    *)
LEMMA WriteRowsInv ==
  ASSUME PlaysInv, NEW w \in Plays, NEW saved \in SUBSET Plays, WriteRows(w, saved)
  PROVE  PlaysInv'
<1> USE DEF PlaysInv
<1>1. /\ UNCHANGED <<finished, pending, active, counts, stale, scan, scans, refused, raced>>
      /\ worker[w] = "write" /\ saved \subseteq active
      /\ rows' = [p \in Plays |-> IF p \in saved THEN rows[p] + 1 ELSE rows[p]]
      /\ lost' = lost \union (active \ saved)
      /\ worker' = [worker EXCEPT ![w] = "pickup"]
  BY DEF WriteRows, queue, scanVars
<1>2. \A v \in Plays : worker'[v] = IF v = w THEN "pickup" ELSE worker[v]
  BY <1>1 DEF ValuesOK
<1>3. ValuesOK'
  BY <1>1 DEF ValuesOK, Plays
<1>4. QueuesInv' /\ AloneInv'
  BY <1>1, <1>2 DEF QueuesInv, AloneInv
<1>5. \A p \in Plays : rows'[p] >= rows[p]
  BY <1>1 DEF ValuesOK
<1>6. RowsInv'
  <2>1. \A p \in Plays : p > finished => rows'[p] = 0
    BY <1>1 DEF RowsInv, ValuesOK, Plays
  <2>2. ASSUME ~raced
        PROVE  /\ \A p \in Plays : rows'[p] <= 1
               /\ \A p \in 1 .. finished :
                    p \in pending \union active \union lost' \/ rows'[p] >= 1
               /\ \A p \in pending : rows'[p] = 0
               /\ \A p \in active : p \in lost' \/ rows'[p] >= 1
    <3>1. \A v \in Plays : worker[v] # "pickup"
      BY <1>1, <2>2 DEF AloneInv
    <3>2. \A p \in active : rows[p] = 0
      BY <2>2, <3>1 DEF RowsInv
    <3>3. active \subseteq Plays /\ pending \subseteq Plays /\ 1 .. finished \subseteq Plays
      BY PlaysBelow
    <3>4. \A p \in Plays : rows'[p] = IF p \in saved THEN 1 ELSE rows[p]
      BY <1>1, <3>2, <3>3
    <3>5. \A p \in pending : p \notin saved
      BY <1>1 DEF QueuesInv
    <3>6. QED
      BY <1>1, <2>2, <3>3, <3>4, <3>5 DEF RowsInv
  <2>3. worker'[w] = "pickup"
    BY <1>2
  <2>4. QED
    BY <1>1, <2>1, <2>2, <2>3 DEF RowsInv
<1>7. CountsInv'
  <2>1. \A p \in stale : counts[p] <= rows'[p]
    <3>1. \A p \in stale : /\ counts[p] \in Nat /\ rows[p] \in Nat /\ rows'[p] \in Nat
                          /\ rows'[p] >= rows[p]
      BY <1>3, <1>5, PlaysBelow DEF ValuesOK
    <3>2. QED
      BY <3>1 DEF CountsInv
  <2>2. QED
    BY <1>1, <1>2, <2>1 DEF CountsInv
<1>8. QED
  BY <1>3, <1>4, <1>6, <1>7

(* The next batch: it has no rows yet, and was not counted.                *)
LEMMA PickUpInv ==
  ASSUME PlaysInv, NEW w \in Plays, PickUp(w)
  PROVE  PlaysInv'
<1> USE DEF PlaysInv
<1>1. /\ UNCHANGED <<finished, rows, counts, stale, scan, scans, refused, lost, raced>>
      /\ worker[w] = "pickup"
      /\ active' = pending /\ pending' = {}
      /\ worker' = [worker EXCEPT ![w] = "check"]
  BY DEF PickUp, store, scanVars, history
<1>2. \A v \in Plays : worker'[v] = IF v = w THEN "check" ELSE worker[v]
  BY <1>1 DEF ValuesOK
<1>3. ValuesOK'
  BY <1>1 DEF ValuesOK
<1>4. QueuesInv'
  BY <1>1, <1>2 DEF QueuesInv
<1>5. ~raced => \A v \in Plays : v # w => worker[v] = "none"
  BY <1>1 DEF AloneInv
<1>6. AloneInv'
  BY <1>1, <1>2, <1>5 DEF AloneInv
<1>7. RowsInv'
  BY <1>1, <1>2, <1>5 DEF RowsInv
<1>8. CountsInv'
  BY <1>1 DEF CountsInv
<1>9. QED
  BY <1>3, <1>4, <1>6, <1>7, <1>8

(* A scan, from its start to the counters of the new game model.           *)
LEMMA ScanInv ==
  ASSUME PlaysInv, ScanStarts \/ Scan
  PROVE  PlaysInv'
<1> USE DEF PlaysInv
<1>1. /\ UNCHANGED <<finished, pending, active, worker, rows, refused, lost>>
      /\ ~raced' => ~raced
      /\ scan' \in {"idle", "running", "reading"} /\ scans' \in 0 .. MaxScans
  <2>1. CASE ScanStarts
    BY <2>1, BoundsAssumption DEF ScanStarts, queue, history, ValuesOK
  <2>2. CASE ScanOpens
    BY <2>2 DEF ScanOpens, queue, store, ValuesOK
  <2>3. CASE ScanReads
    BY <2>3 DEF ScanReads, queue, history, ValuesOK
  <2>4. QED
    BY <2>1, <2>2, <2>3 DEF Scan
<1>2. QueuesInv' /\ AloneInv' /\ RowsInv'
  BY <1>1 DEF QueuesInv, AloneInv, RowsInv
<1>3. CASE ScanStarts
  <2>1. scan' # "idle" /\ stale' = 1 .. finished /\ counts' = [p \in Plays |-> 0]
    BY <1>3 DEF ScanStarts
  <2>2. ValuesOK'
    BY <1>1, <2>1 DEF ValuesOK
  <2>3. CountsInv'
    BY <1>1, <2>1, PlaysBelow DEF CountsInv, ValuesOK
  <2>4. QED
    BY <1>2, <2>2, <2>3
<1>4. CASE ScanOpens
  <2>1. scan # "idle" /\ UNCHANGED <<counts, stale>>
    BY <1>4 DEF ScanOpens, store
  <2>2. ValuesOK' /\ CountsInv'
    BY <1>1, <2>1 DEF ValuesOK, CountsInv
  <2>3. QED
    BY <1>2, <2>2
<1>5. CASE ScanReads
  <2>1. /\ stale = 1 .. finished /\ \A p \in Plays : counts[p] = 0
        /\ stale' = stale /\ scan' = "idle"
    BY <1>5 DEF ScanReads, CountsInv
  <2>2. /\ counts' \in [Plays -> Nat]
        /\ \A p \in Plays : counts'[p] = rows[p] \/ counts'[p] = 0
    BY <1>5, <2>1 DEF ScanReads, ValuesOK
  <2>3. ValuesOK'
    BY <1>1, <2>1, <2>2 DEF ValuesOK
  <2>4. \A p \in stale : p \in Plays
    BY PlaysBelow
  <2>5. \A p \in Plays : p \notin stale => p > finished
    BY <2>1 DEF ValuesOK, Plays
  <2>6. \A p \in Plays : p > finished => counts'[p] = 0
    BY <2>2 DEF RowsInv
  <2>7. \A p \in stale : counts'[p] <= rows[p]
    BY <2>2, <2>4 DEF ValuesOK
  <2>8. pending \subseteq stale /\ active \subseteq stale
    BY <2>1 DEF ValuesOK
  <2>9. CountsInv'
    BY <1>1, <2>1, <2>5, <2>6, <2>7, <2>8 DEF CountsInv
  <2>10. QED
    BY <1>2, <2>3, <2>9
<1>6. QED
  BY <1>3, <1>4, <1>5 DEF Scan

(* A restart loses what was in memory, and has it in its account.          *)
LEMMA RestartInv ==
  ASSUME PlaysInv, Restart
  PROVE  PlaysInv'
<1> USE DEF PlaysInv
<1>1. /\ UNCHANGED <<finished, rows, refused, raced>>
      /\ pending' = {} /\ active' = {}
      /\ worker' = [w \in Plays |-> "none"]
      /\ scan' = "running" /\ scans' \in 0 .. MaxScans
      /\ stale' = 1 .. finished /\ counts' = [p \in Plays |-> 0]
      /\ lost' = lost \union {p \in pending \union active : rows[p] = 0}
  BY BoundsAssumption DEF Restart, ValuesOK
<1>2. ValuesOK'
  BY <1>1 DEF ValuesOK
<1>3. QueuesInv' /\ AloneInv'
  BY <1>1 DEF QueuesInv, AloneInv
<1>4. RowsInv'
  <2>1. \A p \in 1 .. finished : p \in Plays /\ (rows[p] = 0 \/ rows[p] >= 1)
    BY PlaysBelow DEF ValuesOK
  <2>2. QED
    BY <1>1, <2>1 DEF RowsInv
<1>5. CountsInv'
  BY <1>1, PlaysBelow DEF CountsInv, ValuesOK
<1>6. QED
  BY <1>2, <1>3, <1>4, <1>5

(* Every step keeps the inductive invariant.                               *)
LEMMA NextInv == PlaysInv /\ [Next]_vars => PlaysInv'
<1> SUFFICES ASSUME PlaysInv, [Next]_vars PROVE PlaysInv'
  OBVIOUS
<1>1. CASE GameFinished
  BY <1>1, GameFinishedInv
<1>2. ASSUME NEW w \in Plays, Worker(w) PROVE PlaysInv'
  BY <1>2, CountInv, LeaveInv, OpenInv, WriteRowsInv, PickUpInv DEF Worker
<1>3. CASE ScanStarts \/ Scan
  BY <1>3, ScanInv
<1>4. CASE Restart
  BY <1>4, RestartInv
<1>5. CASE UNCHANGED vars
  BY <1>5 DEF vars, queue, store, scanVars, history,
              PlaysInv, ValuesOK, QueuesInv, AloneInv, RowsInv, CountsInv
<1>6. QED
  BY <1>1, <1>2, <1>3, <1>4, <1>5 DEF Next

-----------------------------------------------------------------------------
(* The queues, the rows and the counters of the provider agree.            *)
THEOREM PlaysInvariant == Spec => []PlaysInv
  BY InitInv, NextInv, PTL DEF Spec

(* Every variable of the provider keeps its type.                          *)
THEOREM TypeCorrect == Spec => []TypeOK
<1>1. PlaysInv /\ FlagsOK => TypeOK
  BY DEF PlaysInv, TypeOK
<1>2. QED
  BY <1>1, PlaysInvariant, FlagsCorrect, PTL

(* A play waits in one of m_pending_tasks and m_active_tasks until its row *)
(* is written or its query failed.                                         *)
THEOREM PlaysAreKept == Spec => []NoPlayLost
<1>1. PlaysInv => NoPlayLost
  BY DEF PlaysInv, QueuesInv, RowsInv, NoPlayLost
<1>2. QED
  BY <1>1, PlaysInvariant, PTL

(* No batch is written twice, also when the program was restarted.         *)
THEOREM RowsAreSingle == Spec => []RecordedOnce
<1>1. PlaysInv => RecordedOnce
  BY DEF PlaysInv, RowsInv, RecordedOnce
<1>2. QED
  BY <1>1, PlaysInvariant, PTL

(* A play has a row, and one row, or still waits, unless its query failed  *)
(* or a restart found it in memory without a row.                          *)
THEOREM PlaysRecordedExactlyOnce == Spec => []RecordedExactlyOnce
<1>1. NoPlayLost /\ RecordedOnce => RecordedExactlyOnce
  BY DEF RecordedExactlyOnce
<1>2. QED
  BY <1>1, PlaysAreKept, RowsAreSingle, PTL

(* The counters of the game model never run ahead of the database.         *)
THEOREM CountersFollow == Spec => []CountsFollowRows
<1>1. PlaysInv => CountsFollowRows
  <2> SUFFICES ASSUME PlaysInv, ~raced, NEW p \in Plays,
                      p \notin pending \union active \union lost
               PROVE  counts[p] <= rows[p]
    BY DEF CountsFollowRows
  <2> USE DEF PlaysInv
  <2>1. CASE p \in stale
    BY <2>1 DEF CountsInv
  <2>2. CASE p \notin stale /\ p \in 1 .. finished
    BY <2>2 DEF CountsInv, RowsInv, ValuesOK
  <2>3. CASE p \notin 1 .. finished
    BY <2>3 DEF CountsInv, RowsInv, ValuesOK, Plays
  <2>4. QED
    BY <2>1, <2>2, <2>3
<1>2. QED
  BY <1>1, PlaysInvariant, PTL

(* Only a refused database leaves a batch without a worker.                *)
THEOREM NothingAbandoned == Spec => []AbandonedOnlyOnFailure
<1>1. PlaysInv => AbandonedOnlyOnFailure
  BY DEF PlaysInv, QueuesInv, AbandonedOnlyOnFailure, Running
<1>2. QED
  BY <1>1, PlaysInvariant, PTL

(* A second worker starts only while the first is at its loop test, the    *)
(* one place where it has emptied the batch and still looks at it.         *)
THEOREM WorkersMeet == Spec => WorkersMeetAtCheck
<1>1. ASSUME PlaysInv, Next, NEW v \in Plays, NEW w \in Plays, ~raced,
             worker[v] = "none", worker'[v] # "none", worker[w] # "none"
      PROVE  worker[w] = "check"
  <2> USE DEF PlaysInv
  <2>1. GameFinished
    <3>1. ASSUME NEW x \in Plays, Worker(x) PROVE FALSE
      BY <1>1, <3>1 DEF Worker, CheckAndCount, CheckAndLeave, OpenDb, GiveUp,
                        WriteRows, PickUp, ValuesOK
    <3>2. CASE ScanStarts \/ Scan \/ Restart
      BY <1>1, <3>2 DEF ScanStarts, Scan, ScanOpens, ScanReads, Restart
    <3>3. QED
      BY <1>1, <3>1, <3>2 DEF Next
  <2>2. active = {}
    BY <1>1, <2>1 DEF GameFinished
  <2>3. QED
    BY <1>1, <2>2 DEF AloneInv, ValuesOK
<1>2. PlaysInv /\ [Next]_vars =>
        [\A v, w \in Plays :
           /\ worker[v] = "none" /\ worker'[v] # "none"
           /\ w \in Running /\ ~raced
           => worker[w] = "check"]_vars
  BY <1>1 DEF Running
<1>3. QED
  BY <1>2, PlaysInvariant, PTL DEF Spec, WorkersMeetAtCheck
=============================================================================
