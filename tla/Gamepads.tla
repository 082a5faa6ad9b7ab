------------------------------ MODULE Gamepads ------------------------------
(***************************************************************************)
(* The players' seats: GamepadManager, its SDL2 backend and the            *)
(* pegasus.pad<i> lines of RecalboxConf, from which a game launch takes    *)
(* the controllers.                                                        *)
(*                                                                         *)
(* A gamepad has three numbers: the instance id SDL gives it once (a       *)
(* member of Devices), its index in the list of SDL (which shifts when an  *)
(* earlier device is unplugged) and the id of its player, the number of    *)
(* its line.  They are kept in five places (two maps of the backend, the   *)
(* rows of the QML model, the lines and SDL itself) and brought together   *)
(* by the handlers below, which run in the main thread when its timer      *)
(* polls SDL.  That thread waits while a game runs, so that any number of  *)
(* devices may come and go between two polls.                              *)
(*                                                                         *)
(* SDL is external: a removal is reported for devices that were opened, by *)
(* instance id, and an addition by index; a removal renumbers the queued   *)
(* additions and goes before them.                                         *)
(***************************************************************************)
EXTENDS Integers, Sequences, FiniteSets, SequencesExt

CONSTANTS
  Devices,       \* instance ids: SDL counts them up, the bound reuses free ones
  MaxPads,       \* iMaxInputDevices, the lines a launch reads
  MaxPlugged,    \* bound: devices plugged at a time, at most one for each line
  MaxRestarts,   \* bound: restarts of the program
  Leftovers      \* the pegasus.pad lines recalbox.conf may hold

ASSUME DevicesAssumption == Devices \subseteq Nat /\ IsFiniteSet(Devices)
ASSUME BoundsAssumption ==
  /\ MaxPads \in Nat \ {0} /\ MaxRestarts \in Nat
  /\ MaxPlugged \in 1 .. MaxPads

NoDevice == -1      \* no instance id, an empty name
Indexes == 0 .. MaxPlugged - 1
Slots == 0 .. MaxPads

(* A row of m_devices: player id, instance id and index of SDL.            *)
Rows == [id : Slots, iid : Devices \cup {NoDevice}, idx : Slots]

(* A line pegasus.pad<i>: "guid|name|path|index", or none.                 *)
NoLine == [dev |-> NoDevice, idx |-> -1]
Lines == {NoLine} \cup [dev : Devices \cup {NoDevice}, idx : Slots]

(* RecalboxConf::Save does not write recalbox.conf (see IniFile): the      *)
(* handlers change the lines in memory only, and each start reads the ones *)
(* an older version left there, none or several from the first on.  The    *)
(* loops that clean them up stop at an empty line, too.                    *)
NoGaps(ls) ==
  \A i, j \in 0 .. MaxPads - 1 : i < j /\ ls[i] = NoLine => ls[j] = NoLine

ASSUME LeftoversAssumption ==
  \A ls \in Leftovers : ls \in [Slots -> Lines] /\ NoGaps(ls)

VARIABLES
  sdl,          \* the devices SDL lists, in the order of their indexes
  removals,     \* queued SDL_CONTROLLERDEVICEREMOVED: instance ids
  additions,    \* queued SDL_JOYDEVICEADDED: indexes
  iid_to_idx,   \* the two maps of the backend
  idx_to_iid,
  devices,      \* m_devices, the rows of the QML model
  lines,        \* the pegasus.pad lines in memory, which a launch reads
  recording,    \* m_recording.device: an index, -1 when not recording
  chosen,       \* history: the pad the user is configuring
  moved,        \* history: its index changed since
  refused,      \* history: SDL could not open a controller
  overlap,      \* history: a removal was queued behind one, or more (2),
                \* since the start of the program
  restarts

vars == <<sdl, removals, additions, iid_to_idx, idx_to_iid, devices, lines,
          recording, chosen, moved, refused, overlap, restarts>>
sdlVars == <<sdl, removals, additions>>
maps == <<iid_to_idx, idx_to_iid>>
recVars == <<recording, chosen, moved>>
history == <<refused, overlap>>

NoMap == [x \in {} |-> x]

Init ==
  /\ sdl = <<>> /\ removals = <<>> /\ additions = <<>>
  /\ iid_to_idx = NoMap /\ idx_to_iid = NoMap
  /\ devices = <<>>
  /\ lines \in Leftovers
  /\ recording = -1 /\ chosen = NoDevice /\ moved = FALSE
  /\ refused = FALSE /\ overlap = 0 /\ restarts = 0

-----------------------------------------------------------------------------
(* std::unordered_map: emplace keeps a value that is there.                *)
Emplace(f, k, v) ==
  [x \in DOMAIN f \cup {k} |-> IF x \in DOMAIN f THEN f[x] ELSE v]
Erase(f, k) == [x \in DOMAIN f \ {k} |-> f[x]]

(* find_by_deviceid, find_by_deviceidx, find_by_deviceiid: the first row,  *)
(* 0 for none.                                                             *)
FindById(rows, id) == SelectInSeq(rows, LAMBDA p : p.id = id)
FindByIdx(rows, idx) == SelectInSeq(rows, LAMBDA p : p.idx = idx)
FindByIid(rows, iid) == SelectInSeq(rows, LAMBDA p : p.iid = iid)

(* The lines a loop "from first while not empty and below the maximum"     *)
(* visits.                                                                 *)
LinesFrom(ls, first) ==
  {i \in Slots : /\ first <= i /\ i < MaxPads
                 /\ \A k \in first .. i : ls[k] # NoLine}

Seated == {devices[r].iid : r \in DOMAIN devices}

-----------------------------------------------------------------------------
(* SDL: a device is plugged.                                               *)
Plug(d) ==
  /\ Len(sdl) < MaxPlugged
  /\ LET free == Devices \ (ToSet(sdl) \cup ToSet(removals)
                            \cup DOMAIN iid_to_idx \cup Seated)
     IN free # {} /\ d = Min(free)
  /\ sdl' = Append(sdl, d)
  /\ additions' = Append(additions, Len(sdl))
  /\ UNCHANGED <<removals, maps, devices, lines, recVars, history, restarts>>

(* SDL: a device is unplugged, the ones behind it move up.                 *)
Unplug(p) ==
  LET d == sdl[p]
      opened == d \in DOMAIN iid_to_idx
      k == SelectInSeq(additions, LAMBDA i : i = p - 1)
      others == IF k = 0 THEN additions ELSE RemoveAt(additions, k)
      queue == Len(removals)
  IN /\ sdl' = RemoveAt(sdl, p)
     /\ removals' = IF opened THEN Append(removals, d) ELSE removals
     /\ additions' = [i \in DOMAIN others |->
                        IF others[i] > p - 1 THEN others[i] - 1 ELSE others[i]]
     /\ overlap' = IF opened /\ queue > overlap THEN (IF queue > 2 THEN 2 ELSE queue)
                   ELSE overlap
     /\ UNCHANGED <<maps, devices, lines, recVars, refused, restarts>>

-----------------------------------------------------------------------------
(* Mutant: a row is added only below the last number.                      *)
ConnectFewer(idx, d) ==
  /\ lines' = [i \in Slots |->
                 CASE i = idx -> [dev |-> d, idx |-> idx]
                   [] i \in LinesFrom(lines, idx + 1) -> NoLine
                   [] OTHER -> lines[i]]
  /\ devices' = IF d \in Seated \/ idx = MaxPads - 1 THEN devices
                ELSE Append(devices, [id |-> idx, iid |-> d, idx |-> idx])

(* bkOnConnected: the line is written, the ones after it are leftovers of  *)
(* an earlier run; the row is appended unless the instance has one.        *)
Connect(idx, d) ==
  /\ lines' = [i \in Slots |->
                 CASE i = idx -> [dev |-> d, idx |-> idx]
                   [] i \in LinesFrom(lines, idx + 1) -> NoLine
                   [] OTHER -> lines[i]]
  /\ devices' = IF d \in Seated THEN devices
                ELSE Append(devices, [id |-> idx, iid |-> d, idx |-> idx])

(* add_controller_by_idx for the oldest queued addition.                   *)
AddController ==
  /\ removals = <<>> /\ additions # <<>>
  /\ LET idx == Head(additions)
         d == sdl[idx + 1]
     IN /\ iid_to_idx' = Emplace(iid_to_idx, d, idx)
        /\ idx_to_iid' = Emplace(idx_to_iid, idx, d)
        /\ Connect(idx, d)
  /\ additions' = Tail(additions)
  /\ UNCHANGED <<sdl, removals, recVars, history, restarts>>

(* The same when SDL_GameControllerOpen fails.                             *)
RefuseController ==
  /\ removals = <<>> /\ additions # <<>>
  /\ additions' = Tail(additions)
  /\ refused' = TRUE
  /\ UNCHANGED <<sdl, removals, maps, devices, lines, recVars, overlap, restarts>>

-----------------------------------------------------------------------------
(* Mutant: every other player moves up, also the ones before the row.      *)
MoveUpAll(r) ==
  LET rest == RemoveAt(devices, r)
  IN [q \in DOMAIN rest |-> [rest[q] EXCEPT !.id = @ - 1]]

(* bkOnRemoved: the row leaves, the players behind it move up one line.    *)
RowsAfterRemoval(r) ==
  LET id == devices[r].id
      rest == RemoveAt(devices, r)
      moves(q) == /\ rest[q].id - 1 \in LinesFrom(lines, id)
                  /\ rest[q].id < MaxPads
                  /\ FindById(rest, rest[q].id) = q
  IN [q \in DOMAIN rest |->
        IF moves(q) THEN [rest[q] EXCEPT !.id = @ - 1] ELSE rest[q]]

(* Mutant: the loop stops at the last player and leaves its line.          *)
LeaveLastLine(r) ==
  LET id == devices[r].id
      rest == RemoveAt(devices, r)
  IN [i \in Slots |->
        IF i \in LinesFrom(lines, id) /\ FindById(rest, i + 1) # 0
        THEN lines[i + 1] ELSE lines[i]]

LinesAfterRemoval(r) ==
  LET id == devices[r].id
      rest == RemoveAt(devices, r)
  IN [i \in Slots |->
        IF i \notin LinesFrom(lines, id) THEN lines[i]
        ELSE IF i # MaxPads - 1 /\ FindById(rest, i + 1) # 0 THEN lines[i + 1]
        ELSE NoLine]

(* Mutant: the last device is not looked at.                               *)
ReachedButLast(map) ==
  CHOOSE n \in 0 .. Len(sdl) :
    /\ \A k \in 1 .. n : sdl[k] \in DOMAIN map
    /\ n + 1 < Len(sdl) => sdl[n + 1] \notin DOMAIN map

(* The number of devices the loop of remove_pad_by_iid reaches:            *)
(* iid_to_idx.at throws for the first one that is not mapped, and ends it. *)
Reached(map) ==
  CHOOSE n \in 0 .. Len(sdl) :
    /\ \A k \in 1 .. n : sdl[k] \in DOMAIN map
    /\ n < Len(sdl) => sdl[n + 1] \notin DOMAIN map

(* One turn of that loop, then bkOnIndexChanged.  When no row has the old  *)
(* index, device_id is uninitialised ("junk").                             *)
Reindex(s, p, junk) ==
  LET d == sdl[p]
      old == s.byIid[d]
      r == FindByIdx(s.rows, old)
      id == IF r = 0 THEN junk ELSE s.rows[r].id
  IN IF old = p - 1 THEN s
     ELSE [byIid |-> [s.byIid EXCEPT ![d] = p - 1],
           byIdx |-> Emplace(Erase(s.byIdx, old), p - 1, d),
           rows  |-> [q \in DOMAIN s.rows |->
                        IF q = r THEN [s.rows[q] EXCEPT !.idx = p - 1] ELSE s.rows[q]],
           lines |-> [s.lines EXCEPT ![id].idx = p - 1]]

(* What the first n turns make of it.                                      *)
Renumbered(start, n, junk) ==
  LET turns[k \in 0 .. n] ==
        IF k = 0 THEN start ELSE Reindex(turns[k - 1], k, junk)
  IN turns[n]

(* Mutant: the instance id is compared where the index is meant.           *)
CancelsByInstance(d) == d \in DOMAIN iid_to_idx /\ recording = d

(* cancel_recording, when the recorded pad is removed.                     *)
Cancels(d) == d \in DOMAIN iid_to_idx /\ recording = iid_to_idx[d]

(* Mutant: the row is looked up by the index of its instance.              *)
RowOfIndex(d) ==
  IF d \in DOMAIN iid_to_idx THEN FindByIdx(devices, iid_to_idx[d]) ELSE 0

(* bkOnDisconnected: the row of the instance.                              *)
RowOf(d) == FindByIid(devices, d)

(* remove_pad_by_iid for the oldest queued removal: disconnected is        *)
(* handled first, then the maps, the recording and all the indexes.        *)
RemovePad ==
  /\ removals # <<>>
  /\ \E junk \in Slots :
       LET d == Head(removals)
           r == RowOf(d)
           known == d \in DOMAIN iid_to_idx
           byIid == Erase(iid_to_idx, d)
           reached == Reached(byIid)
           start == [byIid |-> byIid,
                     byIdx |-> IF known THEN Erase(idx_to_iid, iid_to_idx[d]) ELSE idx_to_iid,
                     rows  |-> IF r = 0 THEN devices ELSE RowsAfterRemoval(r),
                     lines |-> IF r = 0 THEN lines ELSE LinesAfterRemoval(r)]
           end == Renumbered(start, reached, junk)
           cancelled == Cancels(d)
       IN /\ iid_to_idx' = end.byIid
          /\ idx_to_iid' = end.byIdx
          /\ devices' = end.rows
          /\ lines' = end.lines
          /\ recording' = IF cancelled THEN -1 ELSE recording
          /\ chosen' = IF cancelled THEN NoDevice ELSE chosen
          /\ moved' = IF cancelled THEN FALSE
                      ELSE moved \/ (chosen \in DOMAIN byIid
                                     /\ end.byIid[chosen] # byIid[chosen])
  /\ removals' = Tail(removals)
  /\ UNCHANGED <<sdl, additions, history, restarts>>

-----------------------------------------------------------------------------
(* swap: a page moves the gamepad of a row up or down; it passes the rows  *)
(* where ids are expected.  A missing row leaves its values uninitialised. *)
Swap(id1, id2) ==
  LET r1 == FindById(devices, id1)
      r2 == FindById(devices, id2)
      Given(rows, r, iid, idx) ==
        IF r = 0 THEN rows ELSE [rows EXCEPT ![r].iid = iid, ![r].idx = idx]
  IN /\ lines' = [lines EXCEPT ![id1] = lines[id2], ![id2] = lines[id1]]
     /\ \E iid \in (IF 0 \in {r1, r2} THEN Devices \cup {NoDevice} ELSE {NoDevice}),
           idx \in (IF 0 \in {r1, r2} THEN Slots ELSE {0}) :
          LET of1 == IF r1 = 0 THEN [iid |-> iid, idx |-> idx] ELSE devices[r1]
              of2 == IF r2 = 0 THEN [iid |-> iid, idx |-> idx] ELSE devices[r2]
          IN devices' = Given(Given(devices, r1, of2.iid, of2.idx), r2, of1.iid, of1.idx)
     /\ UNCHANGED <<sdlVars, maps, recVars, history, restarts>>

(* Down and Up on the row of a list of Len(devices) rows.                  *)
SwapRows ==
  \E row \in 1 .. Len(devices) - 1 : Swap(row, row - 1) \/ Swap(row - 1, row)

(* configureButton, configureAxis: the page passes the index of the row.   *)
StartRecording(r) ==
  /\ recording' = devices[r].idx /\ chosen' = devices[r].iid /\ moved' = FALSE
  /\ UNCHANGED <<sdlVars, maps, devices, lines, history, restarts>>

(* record_joy_button_maybe and its likes, then finish_recording, which     *)
(* needs the pad of the recorded index.                                    *)
FinishRecording(d) ==
  /\ recording # -1
  /\ d \in DOMAIN iid_to_idx /\ iid_to_idx[d] = recording
  /\ recording \in DOMAIN idx_to_iid
  /\ recording' = -1 /\ chosen' = NoDevice /\ moved' = FALSE
  /\ UNCHANGED <<sdlVars, maps, devices, lines, history, restarts>>

(* The program ends, or crashes, and is started again: SDL reports what is *)
(* plugged, and recalbox.conf holds lines of another time, not the last.   *)
Restart ==
  /\ restarts < MaxRestarts
  /\ restarts' = restarts + 1
  /\ removals' = <<>> /\ additions' = [p \in DOMAIN sdl |-> p - 1]
  /\ iid_to_idx' = NoMap /\ idx_to_iid' = NoMap
  /\ devices' = <<>> /\ lines' \in Leftovers
  /\ recording' = -1 /\ chosen' = NoDevice /\ moved' = FALSE
  /\ overlap' = 0
  /\ UNCHANGED <<sdl, refused>>

-----------------------------------------------------------------------------
(* The timer of the backend handles the events of SDL.                     *)
Poll == AddController \/ RefuseController \/ RemovePad

Others ==
  \/ \E d \in Devices : Plug(d) \/ FinishRecording(d)
  \/ \E p \in DOMAIN sdl : Unplug(p)
  \/ SwapRows
  \/ \E r \in DOMAIN devices : StartRecording(r)
  \/ Restart

(* Bound: a behaviour is followed until a controller is refused; what the  *)
(* handlers do with the numbers after that is left open.                   *)
Next ==
  \/ ~ refused /\ (Poll \/ Others)
  \/ refused /\ UNCHANGED vars

(* Fairness: the timer fires every 16 ms and takes the queued events, one  *)
(* after the other; only a step of Poll does that.                         *)
TakeEvent ==
  /\ ~ refused /\ sdl' = sdl
  /\ IF removals # <<>>
     THEN removals' = Tail(removals) /\ additions' = additions
     ELSE additions # <<>> /\ additions' = Tail(additions) /\ removals' = removals

Spec == Init /\ [][Next]_vars /\ WF_sdlVars(TakeEvent)

-----------------------------------------------------------------------------
TypeOK ==
  /\ sdl \in Seq(Devices) /\ removals \in Seq(Devices) /\ additions \in Seq(Indexes)
  /\ DOMAIN iid_to_idx \subseteq Devices /\ ToSet(iid_to_idx) \subseteq Indexes
  /\ DOMAIN idx_to_iid \subseteq Indexes /\ ToSet(idx_to_iid) \subseteq Devices
  /\ devices \in Seq(Rows)
  /\ lines \in [Slots -> Lines]
  /\ recording \in {-1} \cup Slots /\ chosen \in Devices \cup {NoDevice}
  /\ moved \in BOOLEAN /\ refused \in BOOLEAN /\ overlap \in 0 .. 2
  /\ restarts \in 0 .. MaxRestarts

(* The player of row r has the number r: the page that moves players       *)
(* passes rows where ids are expected, and the next launch reads the       *)
(* lines.  Each line names the gamepad of its player, through any order of *)
(* additions, removals, swaps and restarts, as long as every               *)
(* controller could be opened.  As long as no removal is queued behind two *)
(* others, it also has the index its row shows, and a line without a       *)
(* player, left in recalbox.conf by an older version, is out of the way    *)
(* once a gamepad is connected, also after a restart that read it again.   *)
LinesFollowRows ==
  ~ refused =>
    /\ \A r \in DOMAIN devices :
         devices[r].id = r - 1 /\ lines[r - 1].dev = devices[r].iid
    /\ overlap < 2 =>
         /\ \A r \in DOMAIN devices : lines[r - 1].idx = devices[r].idx
         /\ devices # <<>> => \A i \in Len(devices) .. MaxPads - 1 : lines[i] = NoLine

(* When no removal is queued, the rows are the gamepads the backend knows, *)
(* and the row, the map of the backend and SDL agree on the index of each, *)
(* through which a recording finds its pad and an emulator its controller, *)
(* as long as no removal is queued behind two others.  The other map,      *)
(* through which buttons reach the row, agrees as long as none is queued   *)
(* behind another one.                                                     *)
IndexesAgree ==
  ~ refused /\ removals = <<>> =>
    /\ Seated = DOMAIN iid_to_idx
    /\ Cardinality(Seated) = Len(devices)
    /\ \A r \in DOMAIN devices :
         LET d == devices[r].iid
             i == devices[r].idx
         IN /\ overlap < 2 => /\ iid_to_idx[d] = i
                             /\ i + 1 \in DOMAIN sdl /\ sdl[i + 1] = d
            /\ overlap = 0 => i \in DOMAIN idx_to_iid /\ idx_to_iid[i] = d

(* A recording waits for the pad whose page asked for it, and ends when    *)
(* that pad is removed, unless a removal gave the pad another index: the   *)
(* recording keeps the old one, and then listens to whoever gets it.       *)
RecordsChosenPad ==
  ~ refused /\ overlap < 2 /\ recording # -1 /\ ~ moved =>
    chosen \in DOMAIN iid_to_idx /\ iid_to_idx[chosen] = recording

(* A gamepad keeps its seat: it leaves the rows only when its removal is   *)
(* handled or the program restarts, and two players change order only by   *)
(* a swap, whatever other gamepads come and go.                            *)
Seat(rows, d) == FindByIid(rows, d)
KeepSeats ==
  ~ refused /\ restarts' = restarts =>
    /\ \A d \in Seated \ Seated' : removals # <<>> /\ Head(removals) = d
    /\ \A d, e \in Seated \cap Seated' :
         sdlVars' # sdlVars /\ Seat(devices, d) < Seat(devices, e)
           => Seat(devices', d) < Seat(devices', e)
SeatsKept == [][KeepSeats]_vars

(* Every gamepad that stays plugged gets a row, unless it was refused, and *)
(* the row of one that was unplugged goes, unless the handlers were led    *)
(* astray: events that queued up while the main thread was busy, at any    *)
(* number, are all served.                                                 *)
PluggedIsSeated ==
  \A d \in Devices :
    /\ d \in ToSet(sdl) ~> d \in Seated \/ d \notin ToSet(sdl) \/ refused
    /\ d \in Seated \ ToSet(sdl) ~> d \notin Seated \/ d \in ToSet(sdl) \/ refused

=============================================================================
