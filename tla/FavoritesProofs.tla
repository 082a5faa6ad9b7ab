-------------------------- MODULE FavoritesProofs --------------------------
(***************************************************************************)
(* The favorites provider, for any games and any number of changes, scans  *)
(* and restarts: its queue never has two writers, what it leaves is the    *)
(* newest snapshot, and it implements the safety part of LatestWins.       *)
(***************************************************************************)
EXTENDS Favorites, TLAPS

(* At most one worker exists, and it has a task.                           *)
WorkerInv ==
  /\ \A v, w \in Changes : worker[v] # "none" /\ worker[w] # "none" => v = w
  /\ \A w \in Changes : worker[w] # "none" => active # NoTask

(* The active snapshot is newer than the stored one, a waiting one newer   *)
(* still; the newer of them is the last that was notified.                 *)
QueueInv ==
  /\ active # NoTask => active.ver > stored /\ active.ver <= notified
  /\ active # NoTask /\ pending = NoTask => active.ver = notified
  /\ pending # NoTask => /\ active # NoTask
                         /\ active.ver < pending.ver
                         /\ pending.ver = notified

(* An empty queue has stored all it was told, unless something broke; a    *)
(* task without a worker is one the worker gave up.                        *)
SettledInv ==
  /\ active = NoTask /\ ~broken => stored = notified
  /\ active # NoTask /\ (\A w \in Changes : worker[w] = "none") => broken

QueueOK == ValuesOK /\ WorkerInv /\ QueueInv /\ SettledInv

-----------------------------------------------------------------------------
(* The Boolean variables, apart from the others.                           *)
LEMMA FlagsCorrect == Spec => []FlagsOK
<1>1. Init => FlagsOK
  BY DEF Init, FlagsOK
<1>2. FlagsOK /\ [Next]_vars => FlagsOK'
  <2> SUFFICES ASSUME FlagsOK, [Next]_vars PROVE FlagsOK'
    OBVIOUS
  <2> USE DEF FlagsOK
  <2>1. ASSUME NEW g \in Games, FavoriteChanged(g) PROVE FlagsOK'
    BY <2>1 DEF FavoriteChanged, disk, scanVars
  <2>2. ASSUME NEW g \in Games, FavoriteChangeDropped(g) PROVE FlagsOK'
    BY <2>2 DEF FavoriteChangeDropped, disk, scanVars
  <2>3. ASSUME NEW w \in Changes, Worker(w) PROVE FlagsOK'
    BY <2>3 DEF Worker, OpenFile, OpenFails, WriteLine, Finish, player, scanVars
  <2>4. CASE ScanStarts
    BY <2>4 DEF ScanStarts, disk
  <2>5. CASE Scan
    BY <2>5 DEF Scan, ScanReads, ScanCannotRead, ScanReturns, player, disk
  <2>6. CASE Restart
    BY <2>6 DEF Restart
  <2>7. CASE UNCHANGED vars
    BY <2>7 DEF vars, player, disk, scanVars
  <2>8. QED
    BY <2>1, <2>2, <2>3, <2>4, <2>5, <2>6, <2>7 DEF Next
<1>3. QED
  BY <1>1, <1>2, PTL DEF Spec

(* The initial states satisfy the inductive invariant.                     *)
LEMMA InitInv == Init => QueueOK
  BY BoundsAssumption, NoTaskAssumption
     DEF Init, QueueOK, ValuesOK, WorkerInv, QueueInv, SettledInv, Changes

(* A player's change gives a snapshot of its own rank, newer than any.     *)
LEMMA FlipSnapshot ==
  ASSUME ValuesOK, NEW g \in Games, Flip(g)
  PROVE  /\ fav' \subseteq Games /\ wanted' \subseteq Games
         /\ changes' \in Changes /\ changes' \in 0 .. MaxChanges
         /\ notified < changes' /\ stored < changes'
         /\ [ver |-> changes', favs |-> fav'] \in Snapshots
         /\ [ver |-> changes', favs |-> fav'] # NoTask
<1>1. fav' \subseteq Games /\ wanted' \subseteq Games
  BY DEF Flip, ValuesOK
<1>2. changes' \in Changes /\ notified < changes' /\ stored < changes'
  BY BoundsAssumption DEF Flip, ValuesOK, Changes
<1>3. [ver |-> changes', favs |-> fav'] \in Snapshots
  BY <1>1, <1>2 DEF Snapshots
<1>4. QED
  BY <1>1, <1>2, <1>3, NoTaskAssumption, BoundsAssumption DEF Changes

(* A change starts the worker of an idle queue, or waits.                  *)
LEMMA FavoriteChangedInv ==
  ASSUME QueueOK, NEW g \in Games, FavoriteChanged(g)
  PROVE  QueueOK'
<1> USE DEF QueueOK
<1> DEFINE snapshot == [ver |-> changes', favs |-> fav']
<1>1. /\ fav' \subseteq Games /\ wanted' \subseteq Games
      /\ changes' \in Changes /\ changes' \in 0 .. MaxChanges
      /\ notified < changes' /\ stored < changes'
      /\ snapshot \in Snapshots /\ snapshot # NoTask
  BY FlipSnapshot DEF FavoriteChanged
<1>2. snapshot.ver = changes'
  OBVIOUS
<1>3. /\ notified' = changes'
      /\ UNCHANGED <<file, stored, broken, scan, scans>>
  BY DEF FavoriteChanged, disk, scanVars
<1>4. CASE active = NoTask
  <2>1. /\ active' = snapshot /\ pending' = NoTask
        /\ worker' = [worker EXCEPT ![changes'] = "open"]
    BY <1>4 DEF FavoriteChanged
  <2>2. \A w \in Changes : worker[w] = "none"
    BY <1>4 DEF WorkerInv
  <2>3. \A w \in Changes : worker'[w] # "none" <=> w = changes'
    BY <1>1, <2>1, <2>2 DEF ValuesOK
  <2>4. ValuesOK'
    BY <1>1, <1>3, <2>1, BoundsAssumption DEF ValuesOK, Changes
  <2>5. WorkerInv'
    BY <1>1, <2>1, <2>3 DEF WorkerInv
  <2>6. QueueInv' /\ SettledInv'
    BY <1>1, <1>2, <1>3, <2>1, <2>3, BoundsAssumption
       DEF QueueInv, SettledInv, ValuesOK, Changes
  <2>7. QED
    BY <2>4, <2>5, <2>6
<1>5. CASE active # NoTask
  <2>1. active' = active /\ pending' = snapshot /\ worker' = worker
    BY <1>5 DEF FavoriteChanged
  <2>2. active.ver \in Nat /\ active.ver <= notified
    BY <1>5 DEF ValuesOK, Snapshots, Changes, QueueInv
  <2>3. ValuesOK'
    BY <1>1, <1>3, <2>1, BoundsAssumption DEF ValuesOK, Changes
  <2>4. WorkerInv'
    BY <2>1 DEF WorkerInv
  <2>5. QueueInv'
    BY <1>1, <1>2, <1>3, <1>5, <2>1, <2>2, BoundsAssumption
       DEF QueueInv, ValuesOK, Changes
  <2>6. SettledInv'
    BY <1>3, <1>5, <2>1 DEF SettledInv
  <2>7. QED
    BY <2>3, <2>4, <2>5, <2>6
<1>6. QED
  BY <1>4, <1>5

(* A dropped change touches no part of the queue.                          *)
LEMMA ChangeDroppedInv ==
  ASSUME QueueOK, NEW g \in Games, FavoriteChangeDropped(g)
  PROVE  QueueOK'
<1> USE DEF QueueOK
<1>1. /\ fav' \subseteq Games /\ wanted' \subseteq Games
      /\ changes' \in 0 .. MaxChanges /\ changes' >= changes
  BY FlipSnapshot, BoundsAssumption DEF FavoriteChangeDropped, Flip, ValuesOK
<1>2. UNCHANGED <<notified, pending, active, worker, file, stored, broken, scan, scans>>
  BY DEF FavoriteChangeDropped, queue, disk, scanVars
<1>3. ValuesOK'
  BY <1>1, <1>2, BoundsAssumption DEF ValuesOK
<1>4. QED
  BY <1>2, <1>3 DEF WorkerInv, QueueInv, SettledInv

(* A step of a worker that keeps the queue and does not leave.             *)
LEMMA WritingInv ==
  ASSUME QueueOK, NEW w \in Changes,
         OpenFile(w) \/ OpenFails(w) \/ \E g \in Games : WriteLine(w, g)
  PROVE  QueueOK'
<1> USE DEF QueueOK
<1>1. UNCHANGED <<fav, wanted, changes, notified, pending, active, stored, scan, scans>>
  BY DEF OpenFile, OpenFails, WriteLine, player, queue, scanVars
<1>2. file' \subseteq Games
  BY DEF OpenFile, OpenFails, WriteLine, ValuesOK
<1>3. worker[w] # "none"
  BY DEF OpenFile, OpenFails, WriteLine
<1>4. /\ worker' \in [Changes -> {"none", "open", "write"}]
      /\ \A v \in Changes : worker'[v] # "none" => worker[v] # "none"
      /\ broken' = TRUE \/ (broken' = broken /\ worker'[w] # "none")
  BY DEF OpenFile, OpenFails, WriteLine, ValuesOK, disk
<1>5. ValuesOK'
  BY <1>1, <1>2, <1>4 DEF ValuesOK
<1>6. WorkerInv'
  BY <1>1, <1>4 DEF WorkerInv
<1>7. QueueInv'
  BY <1>1 DEF QueueInv
<1>8. SettledInv'
  BY <1>1, <1>3, <1>4 DEF SettledInv, WorkerInv
<1>9. QED
  BY <1>5, <1>6, <1>7, <1>8

(* The end of a task: the worker takes the next one, or leaves.            *)
LEMMA FinishInv ==
  ASSUME QueueOK, NEW w \in Changes, Finish(w)
  PROVE  QueueOK'
<1> USE DEF QueueOK
<1>1. /\ UNCHANGED <<fav, wanted, changes, notified, file, scan, scans>>
      /\ active' = pending /\ pending' = NoTask
      /\ worker' = [worker EXCEPT ![w] = IF pending = NoTask THEN "none" ELSE "open"]
  BY DEF Finish, player, scanVars
<1>2. active # NoTask /\ active.ver \in Nat /\ active.ver > stored /\ active.ver <= notified
  BY DEF Finish, ValuesOK, Snapshots, Changes, WorkerInv, QueueInv
<1>3. \/ stored' = active.ver /\ broken' = broken
      \/ stored' = stored /\ broken' = TRUE
  BY DEF Finish
<1>4. stored' \in 0 .. notified /\ stored' <= active.ver
  BY <1>2, <1>3 DEF ValuesOK
<1>5. \A v \in Changes : v # w => worker[v] = "none" /\ worker'[v] = "none"
  BY <1>1 DEF Finish, ValuesOK, WorkerInv
<1>6. worker'[w] # "none" <=> pending # NoTask
  BY <1>1 DEF ValuesOK
<1>7. ValuesOK'
  BY <1>1, <1>4 DEF ValuesOK
<1>8. WorkerInv'
  BY <1>1, <1>5, <1>6 DEF WorkerInv
<1>9. pending # NoTask => pending.ver \in Nat /\ pending.ver > stored'
  BY <1>2, <1>4 DEF ValuesOK, Snapshots, Changes, QueueInv
<1>10. QueueInv'
  BY <1>1, <1>9 DEF QueueInv, ValuesOK
<1>11. SettledInv'
  BY <1>1, <1>2, <1>3, <1>6 DEF SettledInv, QueueInv
<1>12. QED
  BY <1>7, <1>8, <1>10, <1>11

(* The scans leave the queue alone.                                        *)
LEMMA ScanInv ==
  ASSUME QueueOK, ScanStarts \/ Scan
  PROVE  QueueOK'
<1> USE DEF QueueOK
<1>1. UNCHANGED <<wanted, changes, notified, pending, active, worker, file, stored, broken>>
  BY DEF ScanStarts, Scan, ScanReads, ScanCannotRead, ScanReturns, player, queue, disk
<1>2. fav' \subseteq Games
  <2>1. active # NoTask => active.favs \subseteq Games
    BY DEF ValuesOK, Snapshots
  <2>2. Running # {} => active # NoTask
    BY DEF Running, WorkerInv
  <2>3. QED
    BY <2>1, <2>2 DEF ScanStarts, Scan, ScanReads, ScanCannotRead, ScanReturns, player, ValuesOK
<1>3. scan' \in {"idle", "running", "ending"} /\ scans' \in 0 .. MaxScans
  BY BoundsAssumption DEF ScanStarts, Scan, ScanReads, ScanCannotRead, ScanReturns, ValuesOK
<1>4. ValuesOK'
  BY <1>1, <1>2, <1>3 DEF ValuesOK
<1>5. QED
  BY <1>1, <1>4 DEF WorkerInv, QueueInv, SettledInv

(* A restart empties the queue; what was in it is lost.                    *)
LEMMA RestartInv ==
  ASSUME QueueOK, Restart
  PROVE  QueueOK'
<1> USE DEF QueueOK
<1>1. /\ UNCHANGED <<wanted, changes, notified, file, stored>>
      /\ fav' = {} /\ pending' = NoTask /\ active' = NoTask
      /\ worker' = [w \in Changes |-> "none"]
      /\ scan' = "running" /\ scans' \in 0 .. MaxScans
  BY BoundsAssumption DEF Restart, ValuesOK
<1>2. ValuesOK'
  BY <1>1 DEF ValuesOK
<1>3. SettledInv'
  BY <1>1 DEF Restart, SettledInv
<1>4. QED
  BY <1>1, <1>2, <1>3 DEF WorkerInv, QueueInv

(* Every step keeps the inductive invariant.                               *)
LEMMA NextInv == QueueOK /\ [Next]_vars => QueueOK'
<1> SUFFICES ASSUME QueueOK, [Next]_vars PROVE QueueOK'
  OBVIOUS
<1>1. ASSUME NEW g \in Games, FavoriteChanged(g) PROVE QueueOK'
  BY <1>1, FavoriteChangedInv
<1>2. ASSUME NEW g \in Games, FavoriteChangeDropped(g) PROVE QueueOK'
  BY <1>2, ChangeDroppedInv
<1>3. ASSUME NEW w \in Changes, Worker(w) PROVE QueueOK'
  BY <1>3, WritingInv, FinishInv DEF Worker
<1>4. CASE ScanStarts \/ Scan
  BY <1>4, ScanInv
<1>5. CASE Restart
  BY <1>5, RestartInv
<1>6. CASE UNCHANGED vars
  BY <1>6 DEF vars, player, queue, disk, scanVars,
              QueueOK, ValuesOK, WorkerInv, QueueInv, SettledInv
<1>7. QED
  BY <1>1, <1>2, <1>3, <1>4, <1>5, <1>6 DEF Next

-----------------------------------------------------------------------------
(* What the file will hold when the queue is empty.                        *)
Newest ==
  IF pending # NoTask THEN pending.favs
  ELSE IF active # NoTask THEN active.favs
  ELSE file

(* A worker that writes has written a part of its snapshot; the newest     *)
(* snapshot is the choice of the player, unless a change was dropped; so   *)
(* is what the screen shows, unless a scan has yet to read the file.       *)
ChoiceInv ==
  /\ \A w \in Changes : worker[w] = "write" => file \subseteq active.favs
  /\ ~broken /\ ~missed =>
       /\ ~unsaved => Newest = wanted
       /\ scan # "running" => fav = wanted

(* A change of a favorite.                                                 *)
LEMMA ChangeChoice ==
  ASSUME QueueOK, ChoiceInv, NEW g \in Games,
         FavoriteChanged(g) \/ FavoriteChangeDropped(g)
  PROVE  ChoiceInv'
<1> USE DEF QueueOK
<1>1. scan # "running" /\ UNCHANGED <<file, broken, missed, scan>> /\ Flip(g)
  BY DEF FavoriteChanged, FavoriteChangeDropped, disk, scanVars
<1>2. ~broken' /\ ~missed' => fav' = wanted'
  BY <1>1 DEF Flip, ChoiceInv
<1>3. CASE FavoriteChanged(g)
  <2> DEFINE snapshot == [ver |-> changes', favs |-> fav']
  <2>1. snapshot # NoTask /\ snapshot.favs = fav' /\ changes' \in Changes
    BY <1>1, FlipSnapshot
  <2>2. CASE active = NoTask
    <3>1. /\ active' = snapshot /\ pending' = NoTask
          /\ worker' = [worker EXCEPT ![changes'] = "open"]
      BY <1>3, <2>2 DEF FavoriteChanged
    <3>2. \A w \in Changes : worker'[w] # "write"
      BY <2>1, <2>2, <3>1 DEF WorkerInv, ValuesOK
    <3>3. Newest' = fav'
      BY <2>1, <3>1 DEF Newest
    <3>4. QED
      BY <1>1, <1>2, <3>2, <3>3 DEF ChoiceInv
  <2>3. CASE active # NoTask
    <3>1. active' = active /\ pending' = snapshot /\ worker' = worker
      BY <1>3, <2>3 DEF FavoriteChanged
    <3>2. Newest' = fav'
      BY <2>1, <3>1 DEF Newest
    <3>3. QED
      BY <1>1, <1>2, <3>1, <3>2 DEF ChoiceInv
  <2>4. QED
    BY <2>2, <2>3
<1>4. CASE FavoriteChangeDropped(g)
  BY <1>1, <1>2, <1>4 DEF FavoriteChangeDropped, queue, ChoiceInv
<1>5. QED
  BY <1>3, <1>4

(* A step of a worker that goes on, or gives up.                           *)
LEMMA WritingChoice ==
  ASSUME QueueOK, ChoiceInv, NEW w \in Changes,
         OpenFile(w) \/ OpenFails(w) \/ \E g \in Games : WriteLine(w, g)
  PROVE  ChoiceInv'
<1> USE DEF QueueOK
<1>1. UNCHANGED <<fav, wanted, unsaved, pending, active, scan, missed>>
  BY DEF OpenFile, OpenFails, WriteLine, player, queue, scanVars
<1>2. active # NoTask
  BY DEF OpenFile, OpenFails, WriteLine, WorkerInv
<1>3. Newest' = Newest
  BY <1>1, <1>2 DEF Newest
<1>4. broken' = TRUE \/ broken' = broken
  BY DEF OpenFile, OpenFails, WriteLine, disk
<1>5. \A v \in Changes : worker'[v] = "write" => file' \subseteq active'.favs
  BY <1>1 DEF OpenFile, OpenFails, WriteLine, ChoiceInv, ValuesOK, WorkerInv
<1>6. QED
  BY <1>1, <1>3, <1>4, <1>5 DEF ChoiceInv

(* The end of a task: the file is the snapshot, or something broke.        *)
LEMMA FinishChoice ==
  ASSUME QueueOK, ChoiceInv, NEW w \in Changes, Finish(w)
  PROVE  ChoiceInv'
<1> USE DEF QueueOK
<1>1. /\ UNCHANGED <<fav, wanted, unsaved, file, scan, missed>>
      /\ active' = pending /\ pending' = NoTask
      /\ worker' = [worker EXCEPT ![w] = IF pending = NoTask THEN "none" ELSE "open"]
      /\ worker[w] = "write"
  BY DEF Finish, player, scanVars
<1>2. active # NoTask /\ file \subseteq active.favs
  BY <1>1 DEF WorkerInv, ChoiceInv
<1>3. broken' = TRUE \/ (broken' = broken /\ file = active.favs)
  BY <1>2 DEF Finish
<1>4. \A v \in Changes : worker'[v] # "write"
  BY <1>1 DEF ValuesOK, WorkerInv
<1>5. file = active.favs => Newest' = Newest
  BY <1>1, <1>2 DEF Newest
<1>6. QED
  BY <1>1, <1>3, <1>4, <1>5 DEF ChoiceInv

(* A scan that found no worker and no dropped change, and could read the   *)
(* file, read the choices.                                                 *)
LEMMA ScanChoice ==
  ASSUME QueueOK, ChoiceInv, ScanStarts \/ Scan
  PROVE  ChoiceInv'
<1> USE DEF QueueOK
<1>1. UNCHANGED <<wanted, unsaved, pending, active, worker, file, broken>>
  BY DEF ScanStarts, Scan, ScanReads, ScanCannotRead, ScanReturns, player, queue, disk
<1>2. Newest' = Newest
  BY <1>1 DEF Newest
<1>3. CASE ScanReads
  <2>1. ~missed' => ~missed /\ ~unsaved /\ Running = {} /\ fav' = file
    BY <1>3 DEF ScanReads
  <2>2. ~broken /\ Running = {} => active = NoTask /\ pending = NoTask
    BY DEF SettledInv, QueueInv, Running
  <2>3. ~broken /\ ~missed' => fav' = wanted
    BY <2>1, <2>2 DEF ChoiceInv, Newest
  <2>4. QED
    BY <1>1, <1>2, <2>1, <2>3 DEF ChoiceInv
<1>4. CASE ScanCannotRead
  BY <1>1, <1>4 DEF ScanCannotRead, ChoiceInv
<1>5. CASE ScanStarts \/ ScanReturns
  BY <1>1, <1>2, <1>5 DEF ScanStarts, ScanReturns, player, ChoiceInv
<1>6. QED
  BY <1>3, <1>4, <1>5 DEF Scan

(* A restart with an empty queue loses nothing.                            *)
LEMMA RestartChoice ==
  ASSUME QueueOK, ChoiceInv, Restart
  PROVE  ChoiceInv'
<1> USE DEF QueueOK
<1>1. /\ UNCHANGED <<wanted, unsaved, file, missed>>
      /\ pending' = NoTask /\ active' = NoTask
      /\ worker' = [w \in Changes |-> "none"] /\ scan' = "running"
  BY DEF Restart
<1>2. ~broken' => ~broken /\ active = NoTask /\ pending = NoTask
  BY DEF Restart, QueueInv
<1>3. ~broken' => Newest' = Newest
  BY <1>1, <1>2 DEF Newest
<1>4. QED
  BY <1>1, <1>2, <1>3 DEF ChoiceInv

-----------------------------------------------------------------------------
(* The queue of start_processing is sound in every reachable state.        *)
THEOREM QueueInvariant == Spec => []QueueOK
  BY InitInv, NextInv, PTL DEF Spec

(* The newest snapshot, the screen and the choices of the player.          *)
LEMMA ChoiceInvariant == Spec => []ChoiceInv
<1>1. Init => ChoiceInv
  BY DEF Init, ChoiceInv, Newest
<1>2. QueueOK /\ ChoiceInv /\ [Next]_vars => ChoiceInv'
  <2> SUFFICES ASSUME QueueOK, ChoiceInv, [Next]_vars PROVE ChoiceInv'
    OBVIOUS
  <2>1. ASSUME NEW g \in Games, FavoriteChanged(g) \/ FavoriteChangeDropped(g)
        PROVE  ChoiceInv'
    BY <2>1, ChangeChoice
  <2>2. ASSUME NEW w \in Changes, Worker(w) PROVE ChoiceInv'
    BY <2>2, WritingChoice, FinishChoice DEF Worker
  <2>3. CASE ScanStarts \/ Scan
    BY <2>3, ScanChoice
  <2>4. CASE Restart
    BY <2>4, RestartChoice
  <2>5. CASE UNCHANGED vars
    BY <2>5 DEF vars, player, queue, disk, scanVars, ChoiceInv, Newest
  <2>6. QED
    BY <2>1, <2>2, <2>3, <2>4, <2>5 DEF Next
<1>3. QED
  BY <1>1, <1>2, QueueInvariant, PTL DEF Spec

(* Every variable of the provider keeps its type.                          *)
THEOREM TypeCorrect == Spec => []TypeOK
<1>1. QueueOK /\ FlagsOK => TypeOK
  BY DEF QueueOK, TypeOK
<1>2. QED
  BY <1>1, QueueInvariant, FlagsCorrect, PTL

(* Two workers never write favorites.txt at the same time, and snapshots   *)
(* are written in the order of their changes.                              *)
THEOREM WriterIsAlone == Spec => []SingleWriter
<1>1. QueueOK => SingleWriter
  BY DEF QueueOK, WorkerInv, QueueInv, SingleWriter, Running
<1>2. QED
  BY <1>1, QueueInvariant, PTL

(* At rest the file holds the last snapshot, and what the player chose.    *)
THEOREM ChoicesAreKept == Spec => []ChoicesKept
<1>1. QueueOK /\ ChoiceInv => ChoicesKept
  BY DEF QueueOK, WorkerInv, QueueInv, SettledInv, ChoiceInv, Newest, ChoicesKept, Running
<1>2. QED
  BY <1>1, QueueInvariant, ChoiceInvariant, PTL

(* The provider implements the safety part of LatestWins: each step is a   *)
(* request, a store of a newer version, a break, or no step of the store.  *)
THEOREM StoresInOrder == Spec => Promise!SafetySpec
<1> USE DEF Promise!vars
<1>1. Init => Promise!Init
  BY DEF Init, Promise!Init
<1>2. QueueOK /\ FlagsOK /\ [Next]_vars => [Promise!Next]_<<notified, stored, broken>>
  <2> SUFFICES ASSUME QueueOK, FlagsOK, [Next]_vars
               PROVE  [Promise!Next]_<<notified, stored, broken>>
    OBVIOUS
  <2> USE DEF QueueOK
  <2>1. ASSUME NEW g \in Games, FavoriteChanged(g) PROVE Promise!Request
    <3>1. notified' = changes' /\ notified < changes' /\ changes' \in Nat
      BY <2>1, FlipSnapshot, BoundsAssumption DEF FavoriteChanged, Changes
    <3>2. QED
      BY <2>1, <3>1 DEF FavoriteChanged, disk, Promise!Request, ValuesOK
  <2>2. ASSUME NEW w \in Changes, Finish(w) PROVE Promise!Store \/ Promise!Break
    <3>1. /\ active # NoTask /\ active.ver \in Nat
          /\ active.ver > stored /\ active.ver <= notified
      BY <2>2 DEF Finish, ValuesOK, Snapshots, Changes, WorkerInv, QueueInv
    <3>2. active.ver \in stored + 1 .. notified
      BY <3>1 DEF ValuesOK
    <3>3. QED
      BY <2>2, <3>2 DEF Finish, player, Promise!Store, Promise!Break
  <2>3. ASSUME NEW w \in Changes, OpenFails(w) PROVE Promise!Break
    BY <2>3 DEF OpenFails, player, Promise!Break
  <2>4. CASE Restart
    BY <2>4 DEF Restart, Promise!Next, Promise!Break, FlagsOK
  <2>5. ASSUME NEW w \in Changes, OpenFile(w) \/ \E g \in Games : WriteLine(w, g)
        PROVE  UNCHANGED <<notified, stored, broken>>
    BY <2>5 DEF OpenFile, WriteLine, player
  <2>6. ASSUME NEW g \in Games, FavoriteChangeDropped(g)
        PROVE  UNCHANGED <<notified, stored, broken>>
    BY <2>6 DEF FavoriteChangeDropped, disk
  <2>7. CASE ScanStarts \/ Scan \/ UNCHANGED vars
    BY <2>7 DEF ScanStarts, Scan, ScanReads, ScanCannotRead, ScanReturns, vars, player, disk
  <2>8. QED
    BY <2>1, <2>2, <2>3, <2>4, <2>5, <2>6, <2>7 DEF Next, Worker, Promise!Next
<1>3. QED
  BY <1>1, <1>2, QueueInvariant, FlagsCorrect, PTL DEF Spec, Promise!SafetySpec
=============================================================================
