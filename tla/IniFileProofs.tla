---------------------------- MODULE IniFileProofs ----------------------------
(***************************************************************************)
(* Settings files, for any keys, values and instances, and any number of   *)
(* lines of a key: a setting made through an instance is read back through *)
(* it, a key of recalbox-boot.conf holds what was given to it, the last    *)
(* value as long as one instance alone gave it, and no line of another key *)
(* is touched, but by Saves that fail.                                     *)
(***************************************************************************)
EXTENDS IniFile, SequenceTheorems, WellFoundedInduction, TLAPS

(* Sets of numbers have a least one, bounded ones a greatest.              *)
LEMMA Least ==
  ASSUME NEW S \in SUBSET Nat, S # {}
  PROVE  \E n \in S : \A m \in S : n <= m
<1> DEFINE R == {ss \in Nat \X Nat : ss[1] < ss[2]}
<1>1. IsWellFoundedOn(R, Nat)
  BY NatLessThanWellFounded DEF OpToRel
<1>2. PICK x \in S : \A y \in S : ~ (<<y, x>> \in R)
  <2> HIDE DEF R
  <2>1. QED
    BY <1>1, WFMin
<1>3. \A m \in S : x <= m
  <2> SUFFICES ASSUME NEW m \in S, m < x PROVE FALSE
    OBVIOUS
  <2>1. <<m, x>> \in R
    OBVIOUS
  <2>2. QED
    BY <1>2, <2>1
<1>4. QED
  BY <1>3

LEMMA Greatest ==
  ASSUME NEW b \in Nat, NEW S \in SUBSET (1 .. b), S # {}
  PROVE  \E n \in S : \A m \in S : m <= n
<1>1. PICK T \in SUBSET Nat : \A t \in Nat : t \in T <=> b - t \in S
  <2>1. {t \in Nat : b - t \in S} \in SUBSET Nat
    OBVIOUS
  <2>2. QED
    BY <2>1
<1>2. T # {}
  <2>1. PICK n \in S : TRUE
    OBVIOUS
  <2>2. b - n \in Nat /\ b - (b - n) = n
    OBVIOUS
  <2>3. QED
    BY <1>1, <2>1, <2>2
<1>3. PICK t \in T : \A u \in T : t <= u
  BY <1>2, Least
<1>4. b - t \in S /\ t \in Nat
  BY <1>1
<1>5. ASSUME NEW m \in S PROVE m <= b - t
  <2>1. b - m \in Nat /\ b - (b - m) = m
    OBVIOUS
  <2>2. b - m \in T
    BY <1>1, <2>1
  <2>3. t <= b - m
    BY <1>3, <2>2
  <2>4. QED
    BY <1>4, <2>1, <2>3
<1>6. QED
  BY <1>4, <1>5

-----------------------------------------------------------------------------
(* Load finds the last active line, which is one of the lines.             *)
LEMMA ActiveLine ==
  ASSUME NEW lines \in Seq(Line), Active(lines) # {}
  PROVE  LastActive(lines) \in Active(lines) /\ LastActive(lines) \in 1 .. Len(lines)
<1>1. Len(lines) \in Nat /\ DOMAIN lines = 1 .. Len(lines)
  BY LenProperties
<1>2. Active(lines) \in SUBSET (1 .. Len(lines))
  BY <1>1 DEF Active
<1>3. \E n \in Active(lines) : \A m \in Active(lines) : m <= n
  BY <1>1, <1>2, Greatest
<1>4. QED
  BY <1>2, <1>3 DEF LastActive

LEMMA OnlyLine ==
  ASSUME NEW lines, Active(lines) = {1}
  PROVE  LastActive(lines) = 1
<1>1. \E n \in Active(lines) : \A m \in Active(lines) : m <= n
  OBVIOUS
<1>2. LastActive(lines) \in Active(lines)
  BY <1>1 DEF LastActive
<1>3. QED
  BY <1>2

LEMMA ReadType ==
  ASSUME NEW lines \in Seq(Line)
  PROVE  Read(lines) \in Values \union {Nothing}
<1>1. CASE Active(lines) = {}
  BY <1>1 DEF Read
<1>2. CASE Active(lines) # {}
  <2>1. lines[LastActive(lines)] \in Line
    BY <1>2, ActiveLine
  <2>2. QED
    BY <1>2, <2>1 DEF Read, Line
<1>3. QED
  BY <1>1, <1>2

(* Save keeps the number of lines, or makes the first one.                 *)
LEMMA WrittenLines ==
  ASSUME NEW lines \in Seq(Line), NEW v \in Values
  PROVE  /\ Written(lines, v) \in Seq(Line)
         /\ Len(lines) <= Len(Written(lines, v))
         /\ Len(Written(lines, v)) <= 1 => Read(Written(lines, v)) = v
<1> DEFINE new == [val |-> v, off |-> FALSE]
<1>0. new \in Line /\ ~new.off /\ new.val = v
  BY DEF Line
<1>1. CASE lines = <<>>
  <2>1. Written(lines, v) = <<new>>
    BY <1>1 DEF Written
  <2>2. <<new>> \in Seq(Line) /\ Len(<<new>>) = 1 /\ <<new>>[1] = new
        /\ DOMAIN <<new>> = {1}
    BY <1>0
  <2>3. Active(<<new>>) = {1}
    BY <1>0, <2>2 DEF Active
  <2>4. LastActive(<<new>>) = 1
    BY <2>3, OnlyLine
  <2>5. Read(<<new>>) = v
    BY <1>0, <2>2, <2>3, <2>4 DEF Read
  <2>6. Len(lines) = 0
    BY <1>1
  <2>7. QED
    BY <2>1, <2>2, <2>5, <2>6
<1>2. CASE lines # <<>>
  <2> DEFINE w == [lines EXCEPT ![1] = new]
  <2>1. Written(lines, v) = w
    BY <1>2 DEF Written
  <2>2. Len(lines) \in Nat \ {0} /\ DOMAIN lines = 1 .. Len(lines)
    BY <1>2, EmptySeq, LenProperties
  <2>3. w \in Seq(Line) /\ Len(w) = Len(lines) /\ w[1] = new
        /\ DOMAIN w = 1 .. Len(lines)
    BY <1>0, <2>2
  <2>4. ASSUME Len(w) <= 1 PROVE Read(w) = v
    <3>1. DOMAIN w = {1}
      BY <2>2, <2>3, <2>4
    <3>2. Active(w) = {1}
      BY <1>0, <2>3, <3>1 DEF Active
    <3>3. LastActive(w) = 1
      BY <3>2, OnlyLine
    <3>4. QED
      BY <1>0, <2>3, <3>2, <3>3 DEF Read
  <2>5. QED
    BY <2>1, <2>2, <2>3, <2>4
<1>3. QED
  BY <1>1, <1>2

(* A line alone is the one Load finds, if it is active.                    *)
LEMMA OneLine ==
  ASSUME NEW lines \in Seq(Line), Len(lines) = 1, ~lines[1].off
  PROVE  Read(lines) = lines[1].val
<1>1. DOMAIN lines = {1}
  BY LenProperties
<1>2. Active(lines) = {1}
  BY <1>1 DEF Active
<1>3. QED
  BY <1>2, OnlyLine DEF Read

(* Save and Load key by key.                                               *)
Sequences == [Keys -> Seq(Line)]

LEMMA SavedType ==
  ASSUME NEW content \in Sequences, NEW p \in Lookup
  PROVE  /\ SavedLines(content, p) \in Sequences
         /\ \A k \in Keys :
              SavedLines(content, p)[k] = IF p[k] = Nothing THEN content[k]
                                          ELSE Written(content[k], p[k])
<1>1. \A k \in Keys : p[k] # Nothing => Written(content[k], p[k]) \in Seq(Line)
  BY WrittenLines DEF Sequences, Lookup
<1>2. QED
  BY <1>1 DEF SavedLines, Sequences

(* What a write that fails leaves are lines, too.                          *)
LEMMA BeginningsType ==
  ASSUME NEW lines \in Seq(Line), NEW cut \in Beginnings(lines)
  PROVE  cut \in Seq(Line)
<1>1. CASE cut = <<>>
  BY <1>1
<1>2. ASSUME NEW n \in DOMAIN lines, NEW v \in Values,
             cut = [SubSeq(lines, 1, n) EXCEPT ![n].val = v]
      PROVE  cut \in Seq(Line)
  <2> DEFINE kept == SubSeq(lines, 1, n)
  <2>1. Len(lines) \in Nat /\ n \in 1 .. Len(lines)
    BY LenProperties
  <2>2. /\ kept \in Seq(Line) /\ Len(kept) = n
        /\ DOMAIN kept = 1 .. n /\ kept[n] \in Line
    <3>1. \A q \in 1 .. n : lines[q] \in Line
      BY <2>1
    <3>2. kept \in Seq(Line) /\ Len(kept) = n
      BY <2>1, <3>1
    <3>3. QED
      BY <2>1, <3>2, LenProperties
  <2> HIDE DEF kept
  <2>3. [kept[n] EXCEPT !.val = v] \in Line
    BY <2>2 DEF Line
  <2>4. cut = [kept EXCEPT ![n] = [kept[n] EXCEPT !.val = v]]
    BY <1>2 DEF kept
  <2>5. QED
    BY <2>1, <2>2, <2>3, <2>4
<1>3. QED
  BY <1>1, <1>2 DEF Beginnings

LEMMA TornType ==
  ASSUME NEW f \in Sequences, NEW g \in Torn(f)
  PROVE  g \in Sequences
<1>1. /\ g \in [Keys -> UNION {Beginnings(f[k]) : k \in Keys}]
      /\ \A k \in Keys : g[k] \in Beginnings(f[k])
  BY DEF Torn
<1>2. \A k \in Keys : g[k] \in Seq(Line)
  BY <1>1, BeginningsType DEF Sequences
<1>3. QED
  BY <1>1, <1>2 DEF Sequences

LEMMA NoLinesType == NoLines \in Sequences
  BY DEF NoLines, Sequences

LEMMA LoadFileType == file \in Sequences => \A content \in LoadFile : content \in Sequences
  BY NoLinesType DEF LoadFile

LEMMA LoadedType ==
  ASSUME NEW content \in Sequences, NEW old \in Lookup
  PROVE  Loaded(content, old) \in Lookup
<1>1. \A k \in Keys : Read(content[k]) \in Values \union {Nothing}
  BY ReadType DEF Sequences
<1>2. QED
  BY <1>1 DEF Loaded, Lookup

LEMMA EmptyType == Empty \in Lookup
  BY DEF Empty, Lookup

LEMMA FreshType ==
  ASSUME file \in Sequences
  PROVE  Fresh(file) \subseteq [All -> Lookup] /\ [k \in Keys |-> Read(file[k])] \in Lookup
<1>1. \A k \in Keys : Read(file[k]) \in Values \union {Nothing}
  BY ReadType DEF Sequences
<1>2. [k \in Keys |-> Read(file[k])] \in Lookup
  BY <1>1 DEF Lookup
<1>3. QED
  BY <1>2, EmptyType DEF Fresh

(* A setting changed in one place, of one instance.                        *)
LEMMA LookupChange ==
  ASSUME NEW k \in Keys, NEW v \in Values \union {Nothing}
  PROVE  /\ \A one \in Lookup : [one EXCEPT ![k] = v] \in Lookup
         /\ \A f \in [All -> Lookup], i \in All :
              [f EXCEPT ![i][k] = v] \in [All -> Lookup]
<1>1. \A one \in Lookup : [one EXCEPT ![k] = v] \in Lookup
  BY DEF Lookup
<1>2. QED
  BY <1>1

LEMMA SaveTypes ==
  ASSUME TypeOK, NEW p \in Lookup, DoSave(p)
  PROVE  /\ file' \in Sequences /\ stored' \in Lookup
         /\ damaged' \subseteq Keys /\ failures' \in 0 .. MaxFailures
<1>1. file \in Sequences /\ damaged \subseteq Keys /\ failures \in 0 .. MaxFailures
      /\ Given(p) \subseteq Keys
  BY DEF TypeOK, Sequences, Given
<1>2. stored' \in Lookup
  BY DEF DoSave, TypeOK, Lookup
<1>3. CASE SaveWorks(p)
  BY <1>1, <1>2, <1>3, SavedType DEF SaveWorks
<1>4. CASE SaveFails(p)
  <2>1. failures' \in 0 .. MaxFailures
    BY <1>1, <1>4, BoundsAssumption DEF SaveFails
  <2>2. file' \in Sequences
    BY <1>1, <1>4, SavedType, TornType, NoLinesType, LoadFileType DEF SaveFails
  <2>3. damaged' \subseteq Keys
    BY <1>1, <1>4 DEF SaveFails
  <2>4. QED
    BY <1>2, <2>1, <2>2, <2>3
<1>5. QED
  BY <1>3, <1>4 DEF DoSave

LEMMA InitTypes == Init => TypeOK
<1> SUFFICES ASSUME Init PROVE TypeOK
  OBVIOUS
<1>1. file \in Sequences
  <2>1. \A n \in 0 .. MaxLines : [1 .. n -> Line] \subseteq Seq(Line)
    BY BoundsAssumption, SeqDef
  <2>2. UNION {[1 .. n -> Line] : n \in 0 .. MaxLines} \subseteq Seq(Line)
    BY <2>1
  <2>3. QED
    BY <2>2 DEF Init, Sequences
<1>2. config \in [All -> Lookup] /\ last \in Lookup
  BY <1>1, FreshType DEF Init
<1>3. pending \in [All -> Lookup] /\ own \in [All -> Lookup] /\ stored \in Lookup
  BY EmptyType DEF Init
<1>4. QED
  BY <1>1, <1>2, <1>3, BoundsAssumption DEF Init, TypeOK, Sequences

LEMMA NextTypes == TypeOK /\ [Next]_vars => TypeOK'
<1> SUFFICES ASSUME TypeOK, [Next]_vars PROVE TypeOK'
  OBVIOUS
<1>0. file \in Sequences /\ Instances \subseteq All
  BY DEF TypeOK, Sequences, Instances, All
<1>1. ASSUME NEW i \in Instances, NEW k \in Keys, NEW v \in Values, Set(i, k, v)
      PROVE  TypeOK'
  <2> DEFINE writes == [pending[i] EXCEPT ![k] = v]
  <2>1. writes \in Lookup
    BY <1>0, LookupChange DEF TypeOK
  <2>2. /\ file' \in Sequences /\ stored' \in Lookup
        /\ damaged' \subseteq Keys /\ failures' \in 0 .. MaxFailures
    <3> HIDE DEF writes
    <3>1. CASE boot
      BY <1>1, <2>1, <3>1, SaveTypes DEF Set, writes
    <3>2. CASE ~boot
      BY <1>0, <1>1, <3>2 DEF Set, TypeOK
    <3>3. QED
      BY <3>1, <3>2
  <2>3. pending' \in [All -> Lookup]
    BY <1>1, <2>1 DEF Set, TypeOK
  <2>4. last' \in Lookup /\ own' \in [All -> Lookup]
    BY <1>0, <1>1, LookupChange DEF Set, TypeOK
  <2>5. writers' \in [Keys -> SUBSET All] /\ sets' \in 0 .. MaxSets
    BY <1>0, <1>1, BoundsAssumption DEF Set, TypeOK
  <2>6. UNCHANGED <<boot, config, alive, edited>>
    BY <1>1 DEF Set
  <2>7. Instances' = Instances
    BY <2>6 DEF Instances
  <2>8. QED
    BY <2>2, <2>3, <2>4, <2>5, <2>6, <2>7 DEF TypeOK, Sequences
<1>2. CASE Save
  <2>1. pending[Conf] \in Lookup
    BY DEF TypeOK, All
  <2>2. /\ file' \in Sequences /\ stored' \in Lookup
        /\ damaged' \subseteq Keys /\ failures' \in 0 .. MaxFailures
    BY <1>2, <2>1, SaveTypes DEF Save
  <2>3. QED
    BY <1>2, <2>2 DEF Save, TypeOK, Sequences, Instances
<1>3. CASE Reload
  <2>1. \A content \in LoadFile : Loaded(content, config[Conf]) \in Lookup
    BY <1>0, LoadFileType, LoadedType DEF TypeOK, All
  <2>2. config' \in [All -> Lookup]
    BY <1>3, <2>1 DEF Reload, TypeOK
  <2>3. QED
    BY <1>3, <2>2 DEF Reload, TypeOK, history, Instances
<1>4. CASE Restart
  <2>1. config' \in [All -> Lookup] /\ last' \in Lookup
    BY <1>0, <1>4, FreshType DEF Restart
  <2>2. pending' \in [All -> Lookup] /\ own' \in [All -> Lookup] /\ stored' \in Lookup
    BY <1>4, EmptyType DEF Restart
  <2>3. QED
    BY <1>4, <2>1, <2>2 DEF Restart, TypeOK, Instances
<1>5. ASSUME NEW k \in Keys, ReloadValue(k) PROVE TypeOK'
  <2>1. Read(file[k]) \in Values \union {Nothing} /\ Conf \in All
    BY <1>0, ReadType DEF Sequences, All
  <2>2. config' \in [All -> Lookup]
    BY <1>5, <2>1, LookupChange DEF ReloadValue, TypeOK
  <2>3. pending' \in [All -> Lookup] /\ own' \in [All -> Lookup]
    BY <1>5, <2>1, LookupChange DEF ReloadValue, TypeOK
  <2>4. QED
    BY <1>5, <2>2, <2>3 DEF ReloadValue, TypeOK, Instances
<1>6. ASSUME NEW i \in Instances, Destroy(i) PROVE TypeOK'
  <2>1. pending[i] \in Lookup
    BY <1>0 DEF TypeOK
  <2>2. /\ file' \in Sequences /\ stored' \in Lookup
        /\ damaged' \subseteq Keys /\ failures' \in 0 .. MaxFailures
    BY <1>6, <2>1, SaveTypes DEF Destroy
  <2>3. QED
    BY <1>6, <2>2 DEF Destroy, TypeOK, Sequences, Instances
<1>7. ASSUME NEW k \in Keys, NEW v \in Values, ExternalEdit(k, v) PROVE TypeOK'
  <2> DEFINE new == [val |-> v, off |-> FALSE]
             n == LastActive(file[k])
  <2>1. file[k] \in Seq(Line) /\ new \in Line
    BY <1>0 DEF Sequences, Line
  <2>2. ASSUME Active(file[k]) = {} PROVE file' \in Sequences
    <3>1. file' = [file EXCEPT ![k] = Append(file[k], new)]
      BY <1>7, <2>2 DEF ExternalEdit
    <3>2. Append(file[k], new) \in Seq(Line)
      BY <2>1
    <3>3. QED
      BY <1>0, <3>1, <3>2 DEF Sequences
  <2>3. ASSUME Active(file[k]) # {} PROVE file' \in Sequences
    <3>1. n \in 1 .. Len(file[k]) /\ file[k][n] \in Line
      BY <2>1, <2>3, ActiveLine
    <3>2. [file[k][n] EXCEPT !.val = v] \in Line
      BY <3>1 DEF Line
    <3>3. [file[k] EXCEPT ![n] = [file[k][n] EXCEPT !.val = v]] \in Seq(Line)
      BY <2>1, <3>1, <3>2
    <3>4. file' = [file EXCEPT ![k] = [file[k] EXCEPT ![n] =
                                         [file[k][n] EXCEPT !.val = v]]]
      BY <1>7, <2>3 DEF ExternalEdit
    <3>5. QED
      BY <1>0, <3>3, <3>4 DEF Sequences
  <2>4. last' \in Lookup /\ stored' \in Lookup
    BY <1>7, LookupChange DEF ExternalEdit, TypeOK
  <2>5. edited' \subseteq Keys /\ sets' \in 0 .. MaxSets
    BY <1>7, BoundsAssumption DEF ExternalEdit, TypeOK
  <2>6. UNCHANGED <<boot, config, pending, alive, own, writers, damaged, failures>>
    BY <1>7 DEF ExternalEdit
  <2>7. Instances' = Instances
    BY <2>6 DEF Instances
  <2>8. QED
    BY <2>2, <2>3, <2>4, <2>5, <2>6, <2>7 DEF TypeOK, Sequences
<1>8. CASE UNCHANGED vars
  BY <1>8 DEF vars, TypeOK, Instances
<1>u. QED
  BY <1>1, <1>2, <1>3, <1>4, <1>5, <1>6, <1>7, <1>8 DEF Next

(* Every variable keeps its type.                                          *)
THEOREM TypeCorrect == Spec => []TypeOK
  BY InitTypes, NextTypes, PTL DEF Spec

-----------------------------------------------------------------------------
(* Pending writes are never forgotten by a save or a reload.               *)
OwnInv == own = pending

LEMMA OwnNext == TypeOK /\ OwnInv /\ [Next]_vars => OwnInv'
<1> SUFFICES ASSUME TypeOK, OwnInv, [Next]_vars PROVE OwnInv'
  OBVIOUS
<1>1. ASSUME NEW i \in Instances, NEW k \in Keys, NEW v \in Values, Set(i, k, v)
      PROVE  OwnInv'
  BY <1>1 DEF Set, OwnInv
<1>2. ASSUME NEW k \in Keys, ReloadValue(k) PROVE OwnInv'
  BY <1>2 DEF ReloadValue, OwnInv
<1>3. CASE Restart
  BY <1>3 DEF Restart, OwnInv
<1>4. CASE Save \/ Reload \/ UNCHANGED vars
  BY <1>4 DEF Save, Reload, history, vars, OwnInv
<1>5. ASSUME NEW i \in Instances, Destroy(i) PROVE OwnInv'
  BY <1>5 DEF Destroy, OwnInv
<1>6. ASSUME NEW k \in Keys, NEW v \in Values, ExternalEdit(k, v) PROVE OwnInv'
  BY <1>6 DEF ExternalEdit, OwnInv
<1>7. QED
  BY <1>1, <1>2, <1>3, <1>4, <1>5, <1>6 DEF Next

-----------------------------------------------------------------------------
(* Who has a pending write gave the key a value.  As long as that was one  *)
(* instance alone, its pending write is the last value.  The file holds    *)
(* that value, or one that is still pending, and the last one if one       *)
(* instance alone gave values, unless a Save failed.                       *)
WritersInv ==
  \A i \in All, k \in Keys : pending[i][k] # Nothing => i \in writers[k]
Sole(k) == k \notin edited /\ \A i, j \in writers[k] : i = j
Waiting(k, v) == \E i \in All : pending[i][k] # Nothing /\ pending[i][k] = v
SoleInv ==
  \A k \in Keys : Sole(k) => \A i \in All : pending[i][k] # Nothing => pending[i][k] = last[k]
BootInv ==
  boot => \A k \in Keys \ damaged :
    Unique(k) => /\ Read(file[k]) = last[k] \/ Waiting(k, Read(file[k]))
                 /\ Sole(k) => Read(file[k]) = last[k]

(* A Save of the writes p leaves a key that is not damaged with the write, *)
(* or as it was, and does not make a key unique that was not.              *)
LEMMA SavedKey ==
  ASSUME TypeOK, boot, NEW p \in Lookup, DoSave(p), NEW k \in Keys,
         k \notin damaged', Unique(k)'
  PROVE  \/ p[k] # Nothing /\ Read(file'[k]) = p[k]
         \/ p[k] = Nothing /\ k \notin damaged /\ Unique(k) /\ file'[k] = file[k]
<1>1. file \in Sequences /\ NoLines \in Sequences
  BY NoLinesType DEF TypeOK, Sequences
<1>2. ASSUME NEW content \in Sequences, file' = SavedLines(content, p), p[k] # Nothing
      PROVE  Read(file'[k]) = p[k]
  <2>1. p[k] \in Values /\ file'[k] = Written(content[k], p[k]) /\ Len(file'[k]) <= 1
    BY <1>2, SavedType DEF Lookup, Unique
  <2>2. QED
    BY <1>2, <2>1, WrittenLines DEF Sequences
<1>3. CASE SaveWorks(p)
  <2>1. file' = SavedLines(file, p) /\ damaged' = damaged \ Given(p)
    BY <1>3 DEF SaveWorks
  <2>2. CASE p[k] # Nothing
    BY <1>1, <1>2, <2>1, <2>2
  <2>3. CASE p[k] = Nothing
    BY <1>1, <2>1, <2>3, SavedType DEF Given, Unique
  <2>4. QED
    BY <2>2, <2>3
<1>4. CASE SaveFails(p)
  <2>1. CASE file' = file /\ damaged' = damaged \union Given(p)
    BY <2>1 DEF Given, Unique
  <2>2. CASE file' = SavedLines(NoLines, p) /\ damaged' = Keys \ Given(p)
    BY <1>1, <1>2, <2>2 DEF Given
  <2>3. CASE damaged' = Keys
    BY <2>3
  <2>4. QED
    BY <1>4, <2>1, <2>2, <2>3 DEF SaveFails
<1>5. QED
  BY <1>3, <1>4 DEF DoSave

(* What another program wrote in the line of a key is what the key has.    *)
LEMMA EditedKey ==
  ASSUME TypeOK, NEW k \in Keys, NEW v \in Values, ExternalEdit(k, v), Unique(k)'
  PROVE  Read(file'[k]) = v
<1> DEFINE lines == file[k]
           new == [val |-> v, off |-> FALSE]
           n == LastActive(lines)
<1>1. file \in Sequences /\ lines \in Seq(Line) /\ new \in Line /\ new.val = v /\ ~new.off
      /\ Len(lines) \in Nat
  BY LenProperties DEF TypeOK, Sequences, Line
<1>2. CASE Active(lines) = {}
  <2>1. file'[k] = Append(lines, new)
    BY <1>1, <1>2 DEF ExternalEdit, Sequences
  <2>2. /\ Append(lines, new) \in Seq(Line)
        /\ Len(Append(lines, new)) = Len(lines) + 1
        /\ Append(lines, new)[Len(lines) + 1] = new
    BY <1>1, AppendProperties
  <2>3. Len(lines) = 0
    BY <1>1, <2>1, <2>2 DEF Unique
  <2>4. Len(file'[k]) = 1 /\ file'[k][1] = new /\ file'[k] \in Seq(Line)
    BY <2>1, <2>2, <2>3
  <2>5. QED
    BY <1>1, <2>4, OneLine
<1>3. CASE Active(lines) # {}
  <2>1. n \in Active(lines) /\ n \in 1 .. Len(lines)
    BY <1>1, <1>3, ActiveLine
  <2>2. lines[n] \in Line /\ ~lines[n].off
    BY <1>1, <2>1 DEF Active
  <2> DEFINE changed == [lines[n] EXCEPT !.val = v]
  <2>3. changed \in Line /\ changed.val = v /\ ~changed.off
    BY <2>2 DEF Line
  <2>4. file' = [file EXCEPT ![k] = [lines EXCEPT ![n] = changed]]
    BY <1>3 DEF ExternalEdit
  <2> HIDE DEF changed, lines, n
  <2>5. file'[k] = [lines EXCEPT ![n] = changed]
    BY <1>1, <2>4 DEF Sequences
  <2>6. /\ file'[k] \in Seq(Line) /\ Len(file'[k]) = Len(lines)
        /\ file'[k][n] = changed
    BY <1>1, <2>1, <2>3, <2>5
  <2>7. Len(lines) = 1 /\ n = 1
    <3>1. Len(file'[k]) <= 1
      BY DEF Unique
    <3>2. Len(lines) <= 1
      BY <2>6, <3>1
    <3>3. Len(lines) \in Nat /\ n \in 1 .. Len(lines)
      BY <1>1, <2>1
    <3>4. \A a \in Nat : a <= 1 => \A b \in 1 .. a : a = 1 /\ b = 1
      <4> SUFFICES ASSUME NEW a \in Nat, a <= 1, NEW b \in 1 .. a
                   PROVE  a = 1 /\ b = 1
        OBVIOUS
      <4>1. b \in Int /\ 1 <= b /\ b <= a
        OBVIOUS
      <4>2. QED
        BY <4>1
    <3>5. QED
      BY <3>2, <3>3, <3>4
  <2>8. QED
    BY <2>3, <2>6, <2>7, OneLine
<1>4. QED
  BY <1>2, <1>3

LEMMA WritersNext == TypeOK /\ WritersInv /\ [Next]_vars => WritersInv'
<1> SUFFICES ASSUME TypeOK, WritersInv, [Next]_vars PROVE WritersInv'
  OBVIOUS
<1>0. /\ Instances \subseteq All /\ Conf \in All
      /\ pending \in [All -> Lookup] /\ writers \in [Keys -> SUBSET All]
  BY DEF TypeOK, Instances, All
<1>1. ASSUME NEW i \in Instances, NEW k \in Keys, NEW v \in Values, Set(i, k, v)
      PROVE  WritersInv'
  <2>1. /\ pending' = [pending EXCEPT ![i] = [pending[i] EXCEPT ![k] = v]]
        /\ writers' = [writers EXCEPT ![k] = writers[k] \union {i}]
    BY <1>1 DEF Set
  <2>2. ASSUME NEW j \in All, NEW l \in Keys, pending'[j][l] # Nothing
        PROVE  j \in writers'[l]
    <3>1. CASE j = i /\ l = k
      BY <1>0, <2>1, <3>1
    <3>2. CASE ~(j = i /\ l = k)
      <4>1. pending'[j][l] = pending[j][l]
        BY <1>0, <2>1, <3>2 DEF Lookup
      <4>2. QED
        BY <1>0, <2>1, <2>2, <4>1 DEF WritersInv
    <3>3. QED
      BY <3>1, <3>2
  <2>3. QED
    BY <2>2 DEF WritersInv
<1>2. ASSUME NEW k \in Keys, ReloadValue(k) PROVE WritersInv'
  BY <1>0, <1>2 DEF ReloadValue, WritersInv, Lookup
<1>3. CASE Restart
  BY <1>3 DEF Restart, WritersInv, Empty
<1>4. CASE Save \/ Reload \/ UNCHANGED vars
  BY <1>4 DEF Save, Reload, history, vars, WritersInv
<1>5. ASSUME NEW i \in Instances, Destroy(i) PROVE WritersInv'
  BY <1>5 DEF Destroy, WritersInv
<1>6. ASSUME NEW k \in Keys, NEW v \in Values, ExternalEdit(k, v) PROVE WritersInv'
  BY <1>6 DEF ExternalEdit, WritersInv
<1>7. QED
  BY <1>1, <1>2, <1>3, <1>4, <1>5, <1>6 DEF Next

LEMMA SoleNext == TypeOK /\ WritersInv /\ SoleInv /\ [Next]_vars => SoleInv'
<1> SUFFICES ASSUME TypeOK, WritersInv, SoleInv, [Next]_vars, NEW l \in Keys, Sole(l)',
                    NEW j \in All, pending'[j][l] # Nothing
             PROVE  pending'[j][l] = last'[l]
  BY DEF SoleInv
<1>0. /\ Instances \subseteq All /\ pending \in [All -> Lookup] /\ Conf \in All
      /\ writers \in [Keys -> SUBSET All] /\ last \in Lookup
  BY DEF TypeOK, Instances, All
<1>1. ASSUME NEW i \in Instances, NEW k \in Keys, NEW v \in Values, Set(i, k, v)
      PROVE  pending'[j][l] = last'[l]
  <2>1. /\ pending' = [pending EXCEPT ![i] = [pending[i] EXCEPT ![k] = v]]
        /\ writers' = [writers EXCEPT ![k] = writers[k] \union {i}]
        /\ last' = [last EXCEPT ![k] = v] /\ edited' = edited
    BY <1>1 DEF Set
  <2>2. CASE l = k
    <3>1. i \in writers'[l] /\ last'[l] = v
      BY <1>0, <2>1, <2>2 DEF Lookup
    <3>2. j # i => pending'[j][l] = pending[j][l]
      BY <1>0, <2>1
    <3>3. j # i => j \in writers'[l]
      BY <1>0, <2>1, <2>2, <3>2 DEF WritersInv
    <3>4. j = i
      BY <3>1, <3>3 DEF Sole
    <3>5. QED
      BY <1>0, <2>1, <2>2, <3>1, <3>4 DEF Lookup
  <2>3. CASE l # k
    <3>1. last'[l] = last[l] /\ writers'[l] = writers[l] /\ pending'[j][l] = pending[j][l]
      BY <1>0, <2>1, <2>3 DEF Lookup
    <3>2. QED
      BY <2>1, <3>1 DEF SoleInv, Sole
  <2>4. QED
    BY <2>2, <2>3
<1>2. ASSUME NEW k \in Keys, ReloadValue(k) PROVE pending'[j][l] = last'[l]
  <2>1. /\ pending' = [pending EXCEPT ![Conf][k] = Nothing]
        /\ UNCHANGED <<last, writers, edited>>
    BY <1>2 DEF ReloadValue
  <2>2. pending'[j][l] = pending[j][l]
    BY <1>0, <2>1 DEF Lookup
  <2>3. QED
    BY <2>1, <2>2 DEF SoleInv, Sole
<1>3. CASE Restart
  BY <1>3 DEF Restart, Empty
<1>4. CASE Save \/ Reload \/ UNCHANGED vars
  BY <1>4 DEF Save, Reload, history, vars, SoleInv, Sole
<1>5. ASSUME NEW i \in Instances, Destroy(i) PROVE pending'[j][l] = last'[l]
  BY <1>5 DEF Destroy, SoleInv, Sole
<1>6. ASSUME NEW k \in Keys, NEW v \in Values, ExternalEdit(k, v)
      PROVE  pending'[j][l] = last'[l]
  <2>1. l # k /\ l \notin edited /\ UNCHANGED <<pending, writers>>
        /\ last' = [last EXCEPT ![k] = v]
    BY <1>6 DEF ExternalEdit, Sole
  <2>2. last'[l] = last[l]
    BY <1>0, <2>1 DEF Lookup
  <2>3. QED
    BY <2>1, <2>2 DEF SoleInv, Sole
<1>7. QED
  BY <1>1, <1>2, <1>3, <1>4, <1>5, <1>6 DEF Next

LEMMA BootNext ==
  TypeOK /\ SoleInv /\ SoleInv' /\ BootInv /\ [Next]_vars => BootInv'
<1> SUFFICES ASSUME TypeOK, SoleInv, SoleInv', BootInv, [Next]_vars, boot',
                    NEW l \in Keys, l \notin damaged', Unique(l)'
             PROVE  /\ Read(file'[l]) = last'[l] \/ Waiting(l, Read(file[l]))'
                    /\ Sole(l)' => Read(file'[l]) = last'[l]
  BY DEF BootInv
<1> DEFINE Goal == /\ Read(file'[l]) = last'[l] \/ Waiting(l, Read(file[l]))'
                   /\ Sole(l)' => Read(file'[l]) = last'[l]
<1>0. /\ Instances \subseteq All /\ pending \in [All -> Lookup]
      /\ writers \in [Keys -> SUBSET All] /\ last \in Lookup
      /\ file \in [Keys -> Seq(Line)]
  BY DEF TypeOK, Instances, All
<1>a. ASSUME NEW i \in All, pending'[i][l] # Nothing, Read(file'[l]) = pending'[i][l]
      PROVE  Goal
  BY <1>a DEF Waiting, SoleInv
<1>1. ASSUME NEW i \in Instances, NEW k \in Keys, NEW v \in Values, Set(i, k, v)
      PROVE  Goal
  <2> DEFINE writes == [pending[i] EXCEPT ![k] = v]
  <2>1. /\ pending' = [pending EXCEPT ![i] = writes] /\ boot /\ DoSave(writes)
        /\ writers' = [writers EXCEPT ![k] = writers[k] \union {i}]
        /\ last' = [last EXCEPT ![k] = v] /\ edited' = edited
    BY <1>1 DEF Set
  <2>2. writes \in Lookup /\ pending'[i] = writes /\ i \in All
    BY <1>0, <2>1, LookupChange
  <2>3. CASE writes[l] # Nothing /\ Read(file'[l]) = writes[l]
    <3> HIDE DEF writes, Goal
    <3>1. QED
      BY <1>a, <2>2, <2>3
  <2>4. CASE /\ writes[l] = Nothing /\ l \notin damaged /\ Unique(l)
             /\ file'[l] = file[l]
    <3>1. l # k
      BY <1>0, <2>4, NothingAssumption DEF Lookup
    <3>2. /\ last'[l] = last[l] /\ writers'[l] = writers[l]
          /\ \A j \in All : pending'[j][l] = pending[j][l]
      BY <1>0, <2>1, <3>1 DEF Lookup
    <3>3. /\ Read(file[l]) = last[l] \/ Waiting(l, Read(file[l]))
          /\ Sole(l) => Read(file[l]) = last[l]
      BY <2>1, <2>4 DEF BootInv
    <3> HIDE DEF writes
    <3>4. QED
      BY <2>1, <2>4, <3>2, <3>3 DEF Sole, Waiting
  <2>5. \/ writes[l] # Nothing /\ Read(file'[l]) = writes[l]
        \/ writes[l] = Nothing /\ l \notin damaged /\ Unique(l) /\ file'[l] = file[l]
    <3> HIDE DEF writes
    <3>1. QED
      BY <2>1, <2>2, SavedKey
  <2>6. QED
    BY <2>3, <2>4, <2>5
<1>2. ASSUME NEW i \in Instances, Destroy(i) PROVE Goal
  <2>1. /\ boot /\ DoSave(pending[i]) /\ pending[i] \in Lookup /\ i \in All
        /\ UNCHANGED <<pending, last, writers, edited>>
    BY <1>0, <1>2 DEF Destroy
  <2>2. \/ pending[i][l] # Nothing /\ Read(file'[l]) = pending[i][l]
        \/ pending[i][l] = Nothing /\ l \notin damaged /\ Unique(l) /\ file'[l] = file[l]
    BY <2>1, SavedKey
  <2>3. CASE pending[i][l] # Nothing /\ Read(file'[l]) = pending[i][l]
    <3> HIDE DEF Goal
    <3>1. QED
      BY <1>a, <2>1, <2>3
  <2>4. CASE l \notin damaged /\ Unique(l) /\ file'[l] = file[l]
    BY <2>1, <2>4 DEF BootInv, Sole, Waiting
  <2>5. QED
    BY <2>2, <2>3, <2>4
<1>3. ASSUME NEW k \in Keys, NEW v \in Values, ExternalEdit(k, v) PROVE Goal
  <2>1. /\ boot /\ UNCHANGED <<pending, writers, damaged>>
        /\ last' = [last EXCEPT ![k] = v] /\ edited' = edited \union {k}
    BY <1>3 DEF ExternalEdit
  <2>2. CASE l = k
    <3>1. Read(file'[l]) = v
      BY <1>3, <2>2, EditedKey
    <3>2. QED
      BY <1>0, <2>1, <2>2, <3>1 DEF Lookup
  <2>3. CASE l # k
    <3>1. file'[l] = file[l] /\ last'[l] = last[l]
      BY <1>0, <1>3, <2>1, <2>3 DEF ExternalEdit, Lookup
    <3>2. /\ Read(file[l]) = last[l] \/ Waiting(l, Read(file[l]))
          /\ Sole(l) => Read(file[l]) = last[l]
      BY <2>1, <3>1 DEF BootInv, Unique
    <3>3. QED
      BY <2>1, <3>1, <3>2 DEF Sole, Waiting
  <2>4. QED
    BY <2>2, <2>3
<1>4. CASE Restart
  BY <1>4 DEF Restart
<1>5. CASE Save \/ Reload \/ \E k \in Keys : ReloadValue(k)
  BY <1>5 DEF Save, Reload, ReloadValue
<1>6. CASE UNCHANGED vars
  BY <1>6 DEF vars, BootInv, Sole, Unique, Waiting
<1>7. QED
  BY <1>1, <1>2, <1>3, <1>4, <1>5, <1>6 DEF Next

-----------------------------------------------------------------------------
SettingsInv == TypeOK /\ OwnInv /\ WritersInv /\ SoleInv /\ BootInv

LEMMA InitInv == Init => SettingsInv
<1> SUFFICES ASSUME Init PROVE SettingsInv
  OBVIOUS
<1>1. OwnInv /\ WritersInv /\ SoleInv
  BY DEF Init, OwnInv, WritersInv, SoleInv, Empty
<1>2. BootInv
  BY DEF Init, BootInv, Empty
<1>3. QED
  BY <1>1, <1>2, InitTypes DEF SettingsInv

(* The conjunction is inductive.                                           *)
THEOREM SettingsInvariant == Spec => []SettingsInv
<1>1. SettingsInv /\ [Next]_vars => SettingsInv'
  BY NextTypes, OwnNext, WritersNext, SoleNext, BootNext DEF SettingsInv
<1>2. QED
  BY <1>1, InitInv, PTL DEF Spec

(* What was set through an instance is what the instance reads.            *)
THEOREM OwnWritesAreRead == Spec => []ReadsOwnWrite
<1>1. SettingsInv => ReadsOwnWrite
  BY DEF SettingsInv, OwnInv, ReadsOwnWrite, Extract
<1>2. QED
  BY <1>1, SettingsInvariant, PTL

(* A key of recalbox-boot.conf that has one line holds what was given to   *)
(* it, the last value if one instance alone gave it values, unless a Save  *)
(* failed and none of an instance that set the key has worked since.       *)
THEOREM LastSettingWins == Spec => []LastSetWins
<1>1. ASSUME SettingsInv, boot, NEW k \in Keys \ damaged, Unique(k)
      PROVE  /\ Read(file[k]) \in {last[k]} \union {own[i][k] : i \in writers[k]}
             /\ k \notin edited /\ (\A i, j \in writers[k] : i = j)
                  => Read(file[k]) = last[k]
  <2>1. Read(file[k]) = last[k] \/ Waiting(k, Read(file[k]))
    BY <1>1 DEF SettingsInv, BootInv
  <2>2. Waiting(k, Read(file[k])) => \E i \in writers[k] : Read(file[k]) = own[i][k]
    BY <1>1 DEF SettingsInv, WritersInv, OwnInv, Waiting
  <2>3. QED
    BY <1>1, <2>1, <2>2 DEF SettingsInv, BootInv, Sole
<1>2. SettingsInv => LastSetWins
  BY <1>1 DEF LastSetWins
<1>3. QED
  BY <1>2, SettingsInvariant, PTL

(* A step that changes the lines of a key saves a write of that key, is    *)
(* another program's or a Save that failed.                                *)
Excused(k) ==
  \/ \E i \in All : pending'[i][k] # Nothing
  \/ \E v \in Values : ExternalEdit(k, v)
  \/ failures' # failures

LEMMA LinesChange ==
  ASSUME TypeOK, [Next]_vars, NEW k \in Keys, file'[k] # file[k]
  PROVE  Excused(k)
<1>0. /\ Instances \subseteq All /\ pending \in [All -> Lookup]
      /\ file \in [Keys -> Seq(Line)] /\ file \in Sequences
  BY DEF TypeOK, Instances, All, Sequences
<1>1. ASSUME NEW p \in Lookup, DoSave(p) PROVE p[k] # Nothing \/ failures' # failures
  <2>1. CASE SaveWorks(p)
    BY <1>0, <2>1, SavedType DEF SaveWorks
  <2>2. CASE SaveFails(p)
    BY <2>2 DEF SaveFails, TypeOK
  <2>3. QED
    BY <1>1, <2>1, <2>2 DEF DoSave
<1>2. ASSUME NEW i \in Instances, NEW l \in Keys, NEW v \in Values, Set(i, l, v)
      PROVE  Excused(k)
  <2> DEFINE writes == [pending[i] EXCEPT ![l] = v]
  <2>1. /\ pending' = [pending EXCEPT ![i] = writes]
        /\ DoSave(writes) \/ file' = file
    BY <1>2 DEF Set
  <2>2. writes \in Lookup /\ pending'[i] = writes /\ i \in All
    BY <1>0, <2>1, LookupChange
  <2> HIDE DEF writes
  <2>3. QED
    BY <1>1, <2>1, <2>2 DEF Excused
<1>3. ASSUME NEW i \in Instances, Destroy(i) PROVE Excused(k)
  <2>1. pending[i] \in Lookup /\ DoSave(pending[i]) /\ pending' = pending /\ i \in All
    BY <1>0, <1>3 DEF Destroy
  <2>2. QED
    BY <1>1, <2>1 DEF Excused
<1>4. ASSUME NEW l \in Keys, NEW v \in Values, ExternalEdit(l, v) PROVE Excused(k)
  <2>1. l = k
    BY <1>0, <1>4 DEF ExternalEdit
  <2>2. QED
    BY <1>4, <2>1 DEF Excused
<1>5. CASE Save
  <2>1. Conf \in All /\ DoSave(pending[Conf]) /\ pending[Conf] \in Lookup /\ pending' = pending
    BY <1>0, <1>5 DEF Save, All
  <2>2. QED
    BY <1>1, <2>1 DEF Excused
<1>6. ~(Reload \/ Restart \/ UNCHANGED vars \/ \E l \in Keys : ReloadValue(l))
  BY DEF Reload, Restart, ReloadValue, vars
<1>7. QED
  BY <1>2, <1>3, <1>4, <1>5, <1>6 DEF Next

(* Saving a setting touches no line of a key that nobody has set, unless   *)
(* the Save fails.                                                         *)
THEOREM ForeignLinesStay == Spec => ForeignLinesKept
<1>1. ASSUME TypeOK, [Next]_vars
      PROVE  [\A k \in Keys : file'[k] # file[k] => Excused(k)]_vars
  BY <1>1, LinesChange
<1>2. QED
  BY <1>1, TypeCorrect, PTL DEF Spec, ForeignLinesKept, Excused
=============================================================================
