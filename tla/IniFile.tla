------------------------------- MODULE IniFile -------------------------------
(***************************************************************************)
(* Settings files.  An IniFile reads key=value lines into a map, keeps     *)
(* what is set in a second map that shadows the first, and rewrites the    *)
(* lines of the keys it set.  RecalboxConf is the one instance for         *)
(* recalbox.conf; Recalbox and ParametersList each have an instance for    *)
(* the same /boot/recalbox-boot.conf.  Other programs edit both files.     *)
(*                                                                         *)
(* The two files do not interact, so a behaviour is about one of them,     *)
(* chosen by "boot".  Lines of different keys do not interact either, and  *)
(* the file is kept per key: the lines that mention it, in order, "off"    *)
(* for a commented one.                                                    *)
(*                                                                         *)
(* Reading a file may fail, and then gives no line; so may writing it,     *)
(* which empties it first.  Nobody looks at the result.                    *)
(***************************************************************************)
EXTENDS Integers, Sequences

CONSTANTS
  BootInstances,  \* the IniFile objects of recalbox-boot.conf
  Conf,           \* RecalboxConf
  Keys,
  Values,
  Nothing,        \* no value: not in a map, or no active line
  MaxLines,       \* bound: lines of a key in the initial file
  MaxSets,        \* bound: settings changed, here or by another program
  MaxFailures     \* bound: Saves that fail

ASSUME NothingAssumption == Nothing \notin Values
ASSUME InstancesAssumption == Conf \notin BootInstances
ASSUME BoundsAssumption == MaxLines \in Nat /\ MaxSets \in Nat
                           /\ MaxFailures \in Nat

VARIABLES
  boot,      \* is the file under /boot/?
  file,      \* the lines of each key
  config,    \* mConfiguration of each instance
  pending,   \* mPendingWrites of each instance
  alive,     \* instances not destroyed yet
  last,      \* history: the value last given to a key since the start
  own,       \* history: the value each instance last gave to a key
  stored,    \* history: the value a Save last reported as stored
  writers,   \* history: the instances that gave a key a value
  edited,    \* history: the keys another program gave a value
  damaged,   \* history: the keys whose lines a Save that failed may have
             \* missed or lost since the start, and none restored
  sets,      \* number of changes so far
  failures   \* number of Saves that failed so far

vars == <<boot, file, config, pending, alive, last, own, stored, writers,
          edited, damaged, sets, failures>>
history == <<last, own, stored, writers, edited, damaged>>

All       == BootInstances \union {Conf}
Instances == IF boot THEN BootInstances ELSE {Conf}
Line      == [val : Values, off : BOOLEAN]
Lookup    == [Keys -> Values \union {Nothing}]
Empty     == [k \in Keys |-> Nothing]

-----------------------------------------------------------------------------
(* Load: each valid line overwrites the previous one of its key.           *)
Active(lines) == {n \in DOMAIN lines : ~lines[n].off}
LastActive(lines) == CHOOSE n \in Active(lines) : \A m \in Active(lines) : m <= n
Read(lines) == IF Active(lines) = {} THEN Nothing
                                     ELSE lines[LastActive(lines)].val

Loaded(content, old) ==
  [k \in Keys |-> IF Read(content[k]) = Nothing THEN old[k] ELSE Read(content[k])]

(* Files::LoadFile: the lines, or none when the file cannot be read.       *)
NoLines == [k \in Keys |-> <<>>]
LoadFile == {file, NoLines}

(* Mutant: a commented line is left alone, and no line is added.           *)
WrittenIfActive(lines, v) ==
  IF lines = <<>> THEN <<[val |-> v, off |-> FALSE]>>
  ELSE IF lines[1].off THEN lines
  ELSE [lines EXCEPT ![1] = [val |-> v, off |-> FALSE]]

(* Save for one key: the first line of the key, commented or not, becomes  *)
(* the new one.  "key" has been appended to by then, so it matches no      *)
(* further line.                                                           *)
Written(lines, v) ==
  IF lines = <<>> THEN <<[val |-> v, off |-> FALSE]>>
  ELSE [lines EXCEPT ![1] = [val |-> v, off |-> FALSE]]

(* ExtractValue.                                                           *)
Extract(i, k) == IF pending[i][k] # Nothing THEN pending[i][k] ELSE config[i][k]

(* Mutant: the file is written anew from the settings that changed.        *)
OnlyPendingSaved(content, p) ==
  [k \in Keys |-> IF p[k] = Nothing THEN <<>> ELSE Written(content[k], p[k])]

(* Mutant: a key that was not set is written too, with no value.           *)
EveryKeySaved(content, p) == [k \in Keys |-> Written(content[k], p[k])]

(* The lines Save makes of the ones it loaded and the pending writes p.    *)
SavedLines(content, p) ==
  [k \in Keys |-> IF p[k] = Nothing THEN content[k] ELSE Written(content[k], p[k])]

(* What is left of a file when the program is killed in Files::SaveFile or *)
(* the disk is full: its beginning, the last line perhaps cut in its value.*)
Beginnings(lines) ==
  {<<>>} \union {[SubSeq(lines, 1, n) EXCEPT ![n].val = v] :
                   n \in DOMAIN lines, v \in Values}
Torn(f) == {g \in [Keys -> UNION {Beginnings(f[k]) : k \in Keys}] :
              \A k \in Keys : g[k] \in Beginnings(f[k])}

Given(p) == {k \in Keys : p[k] # Nothing}

(* Save writes the file only under /boot/: the call is the body of         *)
(* "if (boot)", the remount that stood there being commented out.          *)
SaveWorks(p) ==
  /\ file' = IF boot THEN SavedLines(file, p) ELSE file
  /\ damaged' = damaged \ Given(p)
  /\ failures' = failures

(* Save fails: the file cannot be opened for writing; or could not be      *)
(* read, and is left with the pending writes alone; or is not written to   *)
(* its end.                                                                *)
SaveFails(p) ==
  /\ boot /\ Given(p) # {}
  /\ failures < MaxFailures /\ failures' = failures + 1
  /\ \/ file' = file /\ damaged' = damaged \union Given(p)
     \/ file' = SavedLines(NoLines, p) /\ damaged' = Keys \ Given(p)
     \/ \E content \in LoadFile : file' \in Torn(SavedLines(content, p))
        /\ damaged' = Keys

(* What a Save of the writes p changes: the file, and what it logs as      *)
(* "saved", whatever became of it.                                         *)
DoSave(p) ==
  /\ SaveWorks(p) \/ SaveFails(p)
  /\ stored' = [k \in Keys |-> IF p[k] = Nothing THEN stored[k] ELSE p[k]]

-----------------------------------------------------------------------------
(* What the instances have when the program starts: each has read f, or    *)
(* failed to.                                                              *)
Fresh(f) ==
  {[i \in All |-> IF i \in able THEN [k \in Keys |-> Read(f[k])] ELSE Empty] :
     able \in SUBSET Instances}

Init ==
  /\ boot \in BOOLEAN
  /\ file \in [Keys -> UNION {[1 .. n -> Line] : n \in 0 .. MaxLines}]
  /\ config \in Fresh(file)
  /\ pending = [i \in All |-> Empty] /\ own = [i \in All |-> Empty]
  /\ alive = Instances
  /\ last = [k \in Keys |-> Read(file[k])] /\ stored = Empty
  /\ writers = [k \in Keys |-> {}] /\ edited = {} /\ damaged = {}
  /\ sets = 0 /\ failures = 0

(* A parameter is set: SetString and, for a boot parameter, Save at once.  *)
Set(i, k, v) ==
  LET writes == [pending[i] EXCEPT ![k] = v] IN
  /\ alive = Instances /\ i \in alive
  /\ sets < MaxSets /\ sets' = sets + 1
  /\ pending' = [pending EXCEPT ![i] = writes]
  /\ IF boot THEN DoSave(writes)
             ELSE UNCHANGED <<file, stored, damaged, failures>>
  /\ last' = [last EXCEPT ![k] = v] /\ own' = [own EXCEPT ![i][k] = v]
  /\ writers' = [writers EXCEPT ![k] = @ \union {i}]
  /\ UNCHANGED <<boot, config, alive, edited>>

(* saveParameters, of recalbox.conf.  The pending writes stay: erase is    *)
(* called with "key=value", the key it was appended to, and so is the      *)
(* update of mConfiguration.                                               *)
Save ==
  /\ ~boot /\ Conf \in alive /\ pending[Conf] # Empty
  /\ DoSave(pending[Conf])
  /\ UNCHANGED <<boot, config, pending, alive, last, own, writers, edited, sets>>

(* Mutant: a reload drops what was not saved.                              *)
ReloadDroppingWrites ==
  /\ ~boot /\ alive = Instances
  /\ \E content \in LoadFile :
       config' = [config EXCEPT ![Conf] = Loaded(content, config[Conf])]
  /\ pending' = [pending EXCEPT ![Conf] = Empty]
  /\ UNCHANGED <<boot, file, alive, history, sets, failures>>

(* GET /api?conf=reload: "without" the parameters updated in memory.       *)
Reload ==
  /\ ~boot /\ alive = Instances
  /\ \E content \in LoadFile :
       config' = [config EXCEPT ![Conf] = Loaded(content, config[Conf])]
  /\ UNCHANGED <<boot, file, pending, alive, history, sets, failures>>

(* GET /api?conf=reload&parameter=k: the file wins, if it can be read and  *)
(* has the key; otherwise nothing changes.                                 *)
ReloadValue(k) ==
  /\ ~boot /\ alive = Instances /\ Read(file[k]) # Nothing
  /\ config' = [config EXCEPT ![Conf][k] = Read(file[k])]
  /\ pending' = [pending EXCEPT ![Conf][k] = Nothing]
  /\ own' = [own EXCEPT ![Conf][k] = Nothing]
  /\ UNCHANGED <<boot, file, alive, last, stored, writers, edited, damaged,
                 sets, failures>>

(* The program ends: the destructors save what is pending.                 *)
Destroy(i) ==
  /\ i \in alive /\ alive' = alive \ {i}
  /\ DoSave(pending[i])
  /\ UNCHANGED <<boot, config, pending, last, own, writers, edited, sets>>

(* The program starts again: after its destructors, or after a kill.       *)
Restart ==
  /\ config' \in Fresh(file)
  /\ pending' = [i \in All |-> Empty] /\ own' = [i \in All |-> Empty]
  /\ alive' = Instances
  /\ last' = [k \in Keys |-> Read(file[k])] /\ stored' = Empty
  /\ writers' = [k \in Keys |-> {}] /\ edited' = {} /\ damaged' = {}
  /\ UNCHANGED <<boot, file, sets, failures>>

(* Another program gives k its value, in the line that counts.             *)
ExternalEdit(k, v) ==
  /\ sets < MaxSets /\ sets' = sets + 1
  /\ file' = IF Active(file[k]) = {}
             THEN [file EXCEPT ![k] = Append(@, [val |-> v, off |-> FALSE])]
             ELSE [file EXCEPT ![k][LastActive(file[k])].val = v]
  /\ last' = [last EXCEPT ![k] = v] /\ stored' = [stored EXCEPT ![k] = Nothing]
  /\ edited' = edited \union {k}
  /\ UNCHANGED <<boot, config, pending, alive, own, writers, damaged, failures>>

Next ==
  \/ \E i \in Instances, k \in Keys, v \in Values : Set(i, k, v)
  \/ Save \/ Reload \/ Restart
  \/ \E k \in Keys : ReloadValue(k)
  \/ \E i \in Instances : Destroy(i)
  \/ \E k \in Keys, v \in Values : ExternalEdit(k, v)

Spec == Init /\ [][Next]_vars

-----------------------------------------------------------------------------
(* Every variable has its type.                                            *)
TypeOK ==
  /\ boot \in BOOLEAN /\ alive \subseteq Instances
  /\ file \in [Keys -> Seq(Line)]
  /\ config \in [All -> Lookup] /\ pending \in [All -> Lookup]
  /\ last \in Lookup /\ own \in [All -> Lookup] /\ stored \in Lookup
  /\ writers \in [Keys -> SUBSET All]
  /\ edited \subseteq Keys /\ damaged \subseteq Keys
  /\ sets \in 0 .. MaxSets /\ failures \in 0 .. MaxFailures

(* A key the file mentions once at most: Save and Load then mean the same  *)
(* line.                                                                   *)
Unique(k) == Len(file[k]) <= 1

(* A value somebody gave to a key is what its instance reads, through any  *)
(* number of saves and reloads, until ReloadValue or a restart.            *)
ReadsOwnWrite ==
  \A i \in Instances, k \in Keys : own[i][k] # Nothing => Extract(i, k) = own[i][k]

(* A key of recalbox-boot.conf that has one line holds what somebody gave  *)
(* it: the last value, or the one an instance that set it earlier writes   *)
(* again; and the last value, also after the destructors ran, if one       *)
(* instance alone gave it values and no other program did.  When a Save    *)
(* failed, that is so again for a key as soon as a Save of an instance     *)
(* that set it works: an instance writes again all it ever set.            *)
LastSetWins ==
  boot => \A k \in Keys \ damaged :
            Unique(k) =>
              /\ Read(file[k]) \in {last[k]} \union {own[i][k] : i \in writers[k]}
              /\ k \notin edited /\ (\A i, j \in writers[k] : i = j)
                   => Read(file[k]) = last[k]

(* A Save, also a destructor's, leaves the lines of every key alone that   *)
(* no instance has set: another program alone changes those, or a Save     *)
(* that could not read or write the file.                                  *)
ForeignLinesKept ==
  [][\A k \in Keys : file'[k] # file[k] =>
       \/ \E i \in All : pending'[i][k] # Nothing
       \/ \E v \in Values : ExternalEdit(k, v)
       \/ failures' # failures]_vars

(* IniFile.h:36, "Save the configuration file": the file has the value     *)
(* that a Save last reported as saved.                                     *)
SaveWritesFile ==
  \A k \in Keys : stored[k] # Nothing /\ Unique(k) => Read(file[k]) = stored[k]
=============================================================================
