--------------------------- MODULE GamepadsProofs ---------------------------
(***************************************************************************)
(* The players' seats, for any gamepads and any number of lines: players,  *)
(* rows and lines keep their numbers through any order of additions,       *)
(* removals, swaps and restarts; rows, maps and SDL agree on the indexes   *)
(* as long as removals are not queued too deep.                            *)
(***************************************************************************)
EXTENDS Gamepads, FiniteSetTheorems, SequenceTheorems, WellFoundedInduction, TLAPS

(* The first devices of SDL were added, the others wait in the queue.      *)
Mapped == Len(sdl) - Len(additions)
Known == DOMAIN iid_to_idx

Queues ==
  /\ Len(sdl) <= MaxPlugged /\ Len(additions) <= Len(sdl)
  /\ \A p, q \in 1 .. Len(sdl) : sdl[p] = sdl[q] => p = q
  /\ \A p, q \in 1 .. Len(removals) : removals[p] = removals[q] => p = q
  /\ \A p \in 1 .. Len(sdl), q \in 1 .. Len(removals) : sdl[p] # removals[q]
  /\ \A i \in 1 .. Len(additions) : additions[i] = Mapped + i - 1

(* Those, and the ones whose removal is queued, have an index and a row.   *)
Seats ==
  /\ iid_to_idx \in [Known -> Indexes]
  /\ \A d \in Devices :
       d \in Known <=> \/ \E p \in 1 .. Mapped : d = sdl[p]
                       \/ \E q \in 1 .. Len(removals) : d = removals[q]
  /\ Seated = Known
  /\ Len(devices) = Mapped + Len(removals) /\ Len(devices) <= MaxPlugged
  /\ \A r, q \in 1 .. Len(devices) : devices[r].iid = devices[q].iid => r = q

(* Indexes may be too high while removals are queued, but keep the order.  *)
Order ==
  /\ \A p \in 1 .. Mapped : iid_to_idx[sdl[p]] >= p - 1
  /\ \A p, q \in 1 .. Mapped : p < q => iid_to_idx[sdl[p]] < iid_to_idx[sdl[q]]
  /\ removals = <<>> => \A p \in 1 .. Mapped : iid_to_idx[sdl[p]] = p - 1

Numbered(rows, ls) ==
  \A r \in 1 .. Len(rows) : rows[r].id = r - 1 /\ ls[r - 1].dev = rows[r].iid

Indexed(rows, ls, map) ==
  \A r \in 1 .. Len(rows) :
    rows[r].idx = map[rows[r].iid] /\ ls[r - 1].idx = rows[r].idx

(* The lines are the first ones, and end with the last player.             *)
Ended(rows, ls) ==
  rows # <<>> => \A i \in Len(rows) .. MaxPads - 1 : ls[i] = NoLine

(* The second queued removal has an index of its own.                      *)
Pair ==
  overlap < 2 =>
    /\ Len(removals) <= 2
    /\ Len(removals) = 2 =>
         \A p \in 1 .. Mapped : iid_to_idx[sdl[p]] # iid_to_idx[removals[2]]

Tables ==
  overlap < 2 =>
    /\ Indexed(devices, lines, iid_to_idx)
    /\ NoGaps(lines) /\ Ended(devices, lines)

MapsMatch(byIid, byIdx) ==
  /\ \A d \in DOMAIN byIid : byIid[d] \in DOMAIN byIdx /\ byIdx[byIid[d]] = d
  /\ \A i \in DOMAIN byIdx : byIdx[i] \in DOMAIN byIid /\ byIid[byIdx[i]] = i

Inverses == overlap = 0 => Len(removals) <= 1 /\ MapsMatch(iid_to_idx, idx_to_iid)

IInv ==
  /\ TypeOK
  /\ ~ refused => /\ Queues /\ Seats /\ Order
                  /\ Numbered(devices, lines)
                  /\ Pair /\ Tables /\ Inverses /\ RecordsChosenPad

-----------------------------------------------------------------------------
(* The first element of a set of positions, and what RemoveAt leaves.      *)
LEMMA Least ==
  ASSUME NEW S \in SUBSET Nat, S # {}
  PROVE  \E n \in S : \A m \in S : n <= m
<1> DEFINE R == {ss \in Nat \X Nat : ss[1] < ss[2]}
<1>1. IsWellFoundedOn(R, Nat)
  BY NatLessThanWellFounded DEF OpToRel
<1>2. PICK x \in S : \A y \in S : ~ (<<y, x>> \in R)
  <2> HIDE DEF R
  <2>1. QED
    BY <1>1, WFMin
<1>3. \A m \in S : x <= m
  <2> SUFFICES ASSUME NEW m \in S, m < x PROVE FALSE
    OBVIOUS
  <2>1. <<m, x>> \in R
    OBVIOUS
  <2>2. QED
    BY <1>2, <2>1
<1>4. QED
  BY <1>3

LEMMA FirstOf ==
  ASSUME NEW n \in Nat, NEW S \in SUBSET (1 .. n)
  PROVE  LET m == IF S # {} THEN Min(S) ELSE 0
         IN  m \in 0 .. n /\ (m = 0 <=> S = {}) /\ (m # 0 => m \in S)
<1>1. CASE S = {}
  BY <1>1
<1>2. CASE S # {}
  <2>1. S \in SUBSET Nat
    OBVIOUS
  <2>2. \E x \in S : \A y \in S : x <= y
    BY <1>2, <2>1, Least
  <2>3. Min(S) \in S
    BY <2>2 DEF Min
  <2>4. Min(S) \in 1 .. n
    BY <2>3
  <2>5. (IF S # {} THEN Min(S) ELSE 0) = Min(S)
    BY <1>2
  <2>6. Min(S) \in 0 .. n /\ Min(S) # 0
    BY <2>4
  <2>7. QED
    BY <1>2, <2>3, <2>5, <2>6
<1>3. QED
  BY <1>1, <1>2

LEMMA RowWithId ==
  ASSUME NEW rows \in Seq(Rows), NEW id
  PROVE  LET r == FindById(rows, id)
         IN  /\ r \in 0 .. Len(rows) /\ (r # 0 => rows[r].id = id)
             /\ r = 0 => \A q \in 1 .. Len(rows) : rows[q].id # id
<1> DEFINE S == {q \in 1 .. Len(rows) : rows[q].id = id}
<1>1. Len(rows) \in Nat /\ S \in SUBSET (1 .. Len(rows))
  BY LenProperties
<1>2. FindById(rows, id) = IF S # {} THEN Min(S) ELSE 0
  BY DEF FindById, SelectInSeq
<1>3. QED
  <2> HIDE DEF S
  <2>1. FindById(rows, id) \in 0 .. Len(rows) /\ (FindById(rows, id) = 0 <=> S = {})
        /\ (FindById(rows, id) # 0 => FindById(rows, id) \in S)
    BY <1>1, <1>2, FirstOf
  <2>2. QED
    BY <2>1 DEF S

LEMMA RowWithIdx ==
  ASSUME NEW rows \in Seq(Rows), NEW idx
  PROVE  LET r == FindByIdx(rows, idx)
         IN  /\ r \in 0 .. Len(rows) /\ (r # 0 => rows[r].idx = idx)
             /\ r = 0 => \A q \in 1 .. Len(rows) : rows[q].idx # idx
<1> DEFINE S == {q \in 1 .. Len(rows) : rows[q].idx = idx}
<1>1. Len(rows) \in Nat /\ S \in SUBSET (1 .. Len(rows))
  BY LenProperties
<1>2. FindByIdx(rows, idx) = IF S # {} THEN Min(S) ELSE 0
  BY DEF FindByIdx, SelectInSeq
<1>3. QED
  <2> HIDE DEF S
  <2>1. FindByIdx(rows, idx) \in 0 .. Len(rows) /\ (FindByIdx(rows, idx) = 0 <=> S = {})
        /\ (FindByIdx(rows, idx) # 0 => FindByIdx(rows, idx) \in S)
    BY <1>1, <1>2, FirstOf
  <2>2. QED
    BY <2>1 DEF S

LEMMA RowWithIid ==
  ASSUME NEW rows \in Seq(Rows), NEW iid
  PROVE  LET r == FindByIid(rows, iid)
         IN  /\ r \in 0 .. Len(rows) /\ (r # 0 => rows[r].iid = iid)
             /\ r = 0 => \A q \in 1 .. Len(rows) : rows[q].iid # iid
<1> DEFINE S == {q \in 1 .. Len(rows) : rows[q].iid = iid}
<1>1. Len(rows) \in Nat /\ S \in SUBSET (1 .. Len(rows))
  BY LenProperties
<1>2. FindByIid(rows, iid) = IF S # {} THEN Min(S) ELSE 0
  BY DEF FindByIid, SelectInSeq
<1>3. QED
  <2> HIDE DEF S
  <2>1. FindByIid(rows, iid) \in 0 .. Len(rows) /\ (FindByIid(rows, iid) = 0 <=> S = {})
        /\ (FindByIid(rows, iid) # 0 => FindByIid(rows, iid) \in S)
    BY <1>1, <1>2, FirstOf
  <2>2. QED
    BY <2>1 DEF S

(* The position of a value in a sequence of numbers.                       *)
LEMMA PositionOf ==
  ASSUME NEW s, Len(s) \in Nat, NEW v
  PROVE  LET k == SelectInSeq(s, LAMBDA i : i = v)
         IN  /\ k \in 0 .. Len(s) /\ (k # 0 => s[k] = v)
             /\ k = 0 => \A q \in 1 .. Len(s) : s[q] # v
<1> DEFINE S == {q \in 1 .. Len(s) : s[q] = v}
           k == SelectInSeq(s, LAMBDA i : i = v)
<1>1. S \in SUBSET (1 .. Len(s))
  OBVIOUS
<1>2. k = IF S # {} THEN Min(S) ELSE 0
  BY DEF SelectInSeq
<1>3. QED
  <2> HIDE DEF S, k
  <2>1. k \in 0 .. Len(s) /\ (k = 0 <=> S = {}) /\ (k # 0 => k \in S)
    BY <1>1, <1>2, FirstOf
  <2>2. QED
    BY <2>1 DEF S, k

LEMMA RemovedAt ==
  ASSUME NEW T, NEW s \in Seq(T), NEW i \in 1 .. Len(s)
  PROVE  /\ RemoveAt(s, i) \in Seq(T) /\ Len(RemoveAt(s, i)) = Len(s) - 1
         /\ \A j \in 1 .. Len(s) - 1 :
              RemoveAt(s, i)[j] = IF j < i THEN s[j] ELSE s[j + 1]
<1>1. Len(s) \in Nat
  BY LenProperties
<1>2. /\ SubSeq(s, 1, i - 1) \in Seq(T) /\ Len(SubSeq(s, 1, i - 1)) = i - 1
      /\ \A j \in 1 .. i - 1 : SubSeq(s, 1, i - 1)[j] = s[j]
  BY <1>1
<1>3. /\ SubSeq(s, i + 1, Len(s)) \in Seq(T)
      /\ Len(SubSeq(s, i + 1, Len(s))) = Len(s) - i
      /\ \A j \in 1 .. Len(s) - i : SubSeq(s, i + 1, Len(s))[j] = s[i + j]
  BY <1>1
<1>4. /\ RemoveAt(s, i) \in Seq(T) /\ Len(RemoveAt(s, i)) = Len(s) - 1
      /\ \A j \in 1 .. Len(s) - 1 :
           RemoveAt(s, i)[j] = IF j <= i - 1 THEN SubSeq(s, 1, i - 1)[j]
                               ELSE SubSeq(s, i + 1, Len(s))[j - (i - 1)]
  <2> DEFINE a == SubSeq(s, 1, i - 1)
             b == SubSeq(s, i + 1, Len(s))
  <2>1. a \in Seq(T) /\ b \in Seq(T) /\ Len(a) = i - 1 /\ Len(b) = Len(s) - i
    BY <1>2, <1>3
  <2>2. RemoveAt(s, i) = a \o b
    BY DEF RemoveAt
  <2> HIDE DEF a, b
  <2>3. /\ a \o b \in Seq(T) /\ Len(a \o b) = Len(a) + Len(b)
        /\ \A j \in 1 .. Len(a) + Len(b) :
             (a \o b)[j] = IF j <= Len(a) THEN a[j] ELSE b[j - Len(a)]
    BY <2>1, ConcatProperties
  <2>4. Len(a) + Len(b) = Len(s) - 1
    BY <1>1, <2>1
  <2>5. QED
    BY <2>1, <2>2, <2>3, <2>4 DEF a, b
<1>5. ASSUME NEW j \in 1 .. Len(s) - 1
      PROVE  RemoveAt(s, i)[j] = IF j < i THEN s[j] ELSE s[j + 1]
  <2>1. CASE j < i
    <3>1. j \in 1 .. i - 1 /\ j <= i - 1
      BY <1>1, <2>1
    <3>2. QED
      BY <1>2, <1>4, <2>1, <3>1
  <2>2. CASE j >= i
    <3>1. j - (i - 1) \in 1 .. Len(s) - i /\ ~ (j <= i - 1) /\ ~ (j < i)
          /\ i + (j - (i - 1)) = j + 1
      BY <1>1, <2>2
    <3>2. SubSeq(s, i + 1, Len(s))[j - (i - 1)] = s[j + 1]
      BY <1>3, <3>1
    <3>3. QED
      BY <1>4, <3>1, <3>2
  <2>3. QED
    BY <1>1, <2>1, <2>2
<1>6. QED
  BY <1>4, <1>5

-----------------------------------------------------------------------------
(* The loop of remove_pad_by_iid is the sequence of its turns.             *)
AreTurns(t, start, junk, n) ==
  t = [k \in 0 .. n |-> IF k = 0 THEN start ELSE Reindex(t[k - 1], k, junk)]

LEMMA TurnsExist ==
  ASSUME NEW start, NEW junk, NEW n \in Nat
  PROVE  \E t : AreTurns(t, start, junk, n)
<1> DEFINE Bad == {m \in Nat : ~ \E t : AreTurns(t, start, junk, m)}
<1>1. SUFFICES ASSUME Bad # {} PROVE FALSE
  OBVIOUS
<1>2. PICK m \in Bad : \A k \in Bad : m <= k
  <2>1. Bad \in SUBSET Nat
    OBVIOUS
  <2> HIDE DEF Bad
  <2>2. QED
    BY <1>1, <2>1, Least
<1>3. CASE m = 0
  <2> DEFINE t == [k \in 0 .. m |-> start]
  <2>1. t = [k \in 0 .. m |-> IF k = 0 THEN start ELSE Reindex(t[k - 1], k, junk)]
    BY <1>3
  <2>2. QED
    BY <1>2, <2>1 DEF AreTurns
<1>4. CASE m # 0
  <2>1. m - 1 \in Nat /\ ~ (m <= m - 1)
    BY <1>2, <1>4
  <2>2. PICK u : AreTurns(u, start, junk, m - 1)
    BY <1>2, <2>1
  <2> DEFINE t == [k \in 0 .. m |-> IF k = m THEN Reindex(u[m - 1], m, junk) ELSE u[k]]
  <2>3. ASSUME NEW k \in 0 .. m
        PROVE  t[k] = IF k = 0 THEN start ELSE Reindex(t[k - 1], k, junk)
    <3>1. CASE k = m
      <4>1. k # 0 /\ k - 1 \in 0 .. m /\ k - 1 # m
        BY <1>2, <1>4, <3>1
      <4>2. t[k - 1] = u[m - 1] /\ t[k] = Reindex(u[m - 1], m, junk)
        BY <3>1, <4>1
      <4>3. QED
        BY <3>1, <4>1, <4>2
    <3>2. CASE k # m
      <4>1. k \in 0 .. m - 1
        BY <1>2, <3>2
      <4>2. u[k] = IF k = 0 THEN start ELSE Reindex(u[k - 1], k, junk)
        BY <2>2, <4>1 DEF AreTurns
      <4>3. t[k] = u[k]
        BY <3>2
      <4>4. ASSUME k # 0 PROVE t[k - 1] = u[k - 1]
        <5>1. k - 1 \in 0 .. m /\ k - 1 # m
          BY <4>1, <4>4
        <5>2. QED
          BY <5>1
      <4>5. QED
        BY <4>2, <4>3, <4>4
    <3>3. QED
      BY <3>1, <3>2
  <2>4. t = [k \in 0 .. m |-> IF k = 0 THEN start ELSE Reindex(t[k - 1], k, junk)]
    BY <2>3
  <2>5. QED
    BY <1>2, <2>4 DEF AreTurns
<1>5. QED
  BY <1>3, <1>4

LEMMA TurnsOf ==
  ASSUME NEW start, NEW junk, NEW n \in Nat
  PROVE  \E t : /\ Renumbered(start, n, junk) = t[n]
                /\ t[0] = start
                /\ \A k \in 1 .. n : t[k] = Reindex(t[k - 1], k, junk)
<1> DEFINE T == CHOOSE t : AreTurns(t, start, junk, n)
<1>1. AreTurns(T, start, junk, n)
  BY TurnsExist
<1>2. Renumbered(start, n, junk) = T[n]
  BY DEF Renumbered, AreTurns
<1> HIDE DEF T
<1>3. T[0] = start
  BY <1>1 DEF AreTurns
<1>4. ASSUME NEW k \in 1 .. n PROVE T[k] = Reindex(T[k - 1], k, junk)
  <2>1. k \in 0 .. n /\ k # 0
    OBVIOUS
  <2>2. QED
    BY <1>1, <2>1 DEF AreTurns
<1>5. QED
  BY <1>2, <1>3, <1>4

-----------------------------------------------------------------------------
(* Before the loop: its first m devices are mapped, in the order of their  *)
(* indexes, and the rows and lines are numbered.                           *)
Ready(s, m) ==
  /\ m \in 0 .. Len(sdl) /\ m <= MaxPlugged
  /\ DOMAIN s.byIid \subseteq Devices /\ s.byIid \in [DOMAIN s.byIid -> Indexes]
  /\ DOMAIN s.byIdx \subseteq Indexes /\ \A i \in DOMAIN s.byIdx : s.byIdx[i] \in Devices
  /\ \A p \in 1 .. m : sdl[p] \in DOMAIN s.byIid /\ s.byIid[sdl[p]] >= p - 1
  /\ \A p, q \in 1 .. m : p < q => s.byIid[sdl[p]] < s.byIid[sdl[q]]
  /\ s.rows \in Seq(Rows) /\ Len(s.rows) <= MaxPads
  /\ s.lines \in [Slots -> Lines]

(* After n turns: the first n devices have the index of SDL, nothing but   *)
(* indexes changed.                                                        *)
Turned(start, s, n) ==
  /\ s.byIid \in [DOMAIN start.byIid -> Indexes]
  /\ \A p \in 1 .. n : s.byIid[sdl[p]] = p - 1
  /\ \A d \in DOMAIN start.byIid :
       (\A p \in 1 .. n : d # sdl[p]) => s.byIid[d] = start.byIid[d]
  /\ DOMAIN s.byIdx \subseteq Indexes /\ \A i \in DOMAIN s.byIdx : s.byIdx[i] \in Devices
  /\ s.rows \in Seq(Rows) /\ Len(s.rows) = Len(start.rows)
  /\ \A r \in 1 .. Len(start.rows) :
       s.rows[r].id = start.rows[r].id /\ s.rows[r].iid = start.rows[r].iid
  /\ s.lines \in [Slots -> Lines]
  /\ \A i \in Slots : s.lines[i].dev = start.lines[i].dev

LEMMA SdlFacts ==
  ASSUME sdl \in Seq(Devices)
  PROVE  Len(sdl) \in Nat /\ \A p \in 1 .. Len(sdl) : sdl[p] \in Devices
BY LenProperties, ElementOfSeq

LEMMA Bounds ==
  /\ MaxPads \in Nat \ {0} /\ MaxPlugged \in Nat \ {0} /\ MaxPlugged <= MaxPads
  /\ Slots \subseteq Nat /\ Indexes \subseteq Slots
  /\ \A p \in 1 .. MaxPlugged : p - 1 \in Indexes
  /\ NoDevice \notin Devices
BY BoundsAssumption, DevicesAssumption DEF Slots, Indexes, NoDevice

(* The devices before p have smaller indexes, the ones behind it greater.  *)
LEMMA Neighbours ==
  ASSUME NEW start, NEW s, NEW m, NEW n \in Nat, n < m, sdl \in Seq(Devices),
         \A p, q \in 1 .. Len(sdl) : sdl[p] = sdl[q] => p = q,
         Ready(start, m), Turned(start, s, n)
  PROVE  /\ n + 1 \in 1 .. m /\ n + 1 \in 1 .. Len(sdl) /\ n \in Indexes
         /\ sdl[n + 1] \in DOMAIN start.byIid /\ sdl[n + 1] \in Devices
         /\ s.byIid[sdl[n + 1]] = start.byIid[sdl[n + 1]]
         /\ s.byIid[sdl[n + 1]] \in Indexes /\ s.byIid[sdl[n + 1]] >= n
         /\ \A k \in 1 .. n : s.byIid[sdl[k]] < n
         /\ \A k \in n + 2 .. m : s.byIid[sdl[k]] > s.byIid[sdl[n + 1]]
<1>1. Len(sdl) \in Nat /\ \A p \in 1 .. Len(sdl) : sdl[p] \in Devices
  BY SdlFacts
<1>2. m \in Nat /\ m <= Len(sdl) /\ m <= MaxPlugged
  BY <1>1 DEF Ready
<1>3. n + 1 \in 1 .. m /\ n + 1 \in 1 .. Len(sdl) /\ n + 1 \in 1 .. MaxPlugged
  BY <1>1, <1>2, Bounds
<1>4. n \in Indexes
  BY <1>3, Bounds DEF Indexes
<1>5. ASSUME NEW k \in n + 1 .. m
      PROVE  k \in 1 .. m /\ sdl[k] \in DOMAIN start.byIid
             /\ s.byIid[sdl[k]] = start.byIid[sdl[k]]
  <2>1. k \in 1 .. m /\ k \in 1 .. Len(sdl)
    BY <1>1, <1>2
  <2>2. \A p \in 1 .. n : p \in 1 .. Len(sdl) /\ p # k
    BY <1>1, <1>3
  <2>3. \A p \in 1 .. n : sdl[k] # sdl[p]
    BY <2>1, <2>2
  <2>4. sdl[k] \in DOMAIN start.byIid
    BY <2>1 DEF Ready
  <2>5. QED
    BY <2>1, <2>3, <2>4 DEF Turned
<1>6. s.byIid[sdl[n + 1]] \in Indexes
  <2>1. n + 1 \in n + 1 .. m
    BY <1>3
  <2>2. sdl[n + 1] \in DOMAIN start.byIid
    BY <1>5, <2>1
  <2>3. QED
    BY <2>2 DEF Turned
<1>7. n + 1 \in n + 1 .. m /\ (n + 1) - 1 = n
  BY <1>3
<1>8. s.byIid[sdl[n + 1]] >= n
  BY <1>3, <1>5, <1>7 DEF Ready
<1>9. ASSUME NEW k \in 1 .. n PROVE s.byIid[sdl[k]] < n
  BY DEF Turned
<1>10. ASSUME NEW k \in n + 2 .. m PROVE s.byIid[sdl[k]] > s.byIid[sdl[n + 1]]
  <2>1. k \in n + 1 .. m /\ n + 1 < k
    OBVIOUS
  <2>2. start.byIid[sdl[n + 1]] < start.byIid[sdl[k]]
    BY <1>3, <1>5, <2>1 DEF Ready
  <2>3. s.byIid[sdl[k]] = start.byIid[sdl[k]]
    BY <1>5, <2>1
  <2>4. s.byIid[sdl[n + 1]] = start.byIid[sdl[n + 1]]
    BY <1>5, <1>7
  <2>5. QED
    BY <2>2, <2>3, <2>4
<1>11. QED
  BY <1>1, <1>3, <1>4, <1>5, <1>6, <1>7, <1>8, <1>9, <1>10

(* One turn, spelled out.                                                  *)
Turn(s, p, junk, t) ==
  LET d == sdl[p]
      old == s.byIid[d]
      r == FindByIdx(s.rows, old)
      id == IF r = 0 THEN junk ELSE s.rows[r].id
  IN /\ old = p - 1 => t = s
     /\ old # p - 1 =>
          /\ t.byIid = [s.byIid EXCEPT ![d] = p - 1]
          /\ DOMAIN t.byIdx = (DOMAIN s.byIdx \ {old}) \cup {p - 1}
          /\ \A x \in DOMAIN s.byIdx \ {old} : t.byIdx[x] = s.byIdx[x]
          /\ p - 1 \notin DOMAIN s.byIdx \ {old} => t.byIdx[p - 1] = d
          /\ t.rows = [q \in 1 .. Len(s.rows) |->
                         IF q = r THEN [s.rows[q] EXCEPT !.idx = p - 1] ELSE s.rows[q]]
          /\ t.lines = [s.lines EXCEPT ![id].idx = p - 1]

LEMMA OneTurn ==
  ASSUME NEW s, NEW p \in Nat \ {0}, NEW junk, s.rows \in Seq(Rows)
  PROVE  Turn(s, p, junk, Reindex(s, p, junk))
<1> DEFINE n == p - 1
           d == sdl[p]
           old == s.byIid[d]
           r == FindByIdx(s.rows, old)
           id == IF r = 0 THEN junk ELSE s.rows[r].id
           t == Reindex(s, p, junk)
<1>1. DOMAIN s.rows = 1 .. Len(s.rows)
  BY LenProperties
<1>2. ASSUME old = n PROVE t = s
  BY <1>1, <1>2 DEF Reindex
<1>3. ASSUME old # n
      PROVE  /\ t.byIid = [s.byIid EXCEPT ![d] = n]
             /\ DOMAIN t.byIdx = (DOMAIN s.byIdx \ {old}) \cup {n}
             /\ \A x \in DOMAIN s.byIdx \ {old} : t.byIdx[x] = s.byIdx[x]
             /\ n \notin DOMAIN s.byIdx \ {old} => t.byIdx[n] = d
             /\ t.rows = [q \in 1 .. Len(s.rows) |->
                            IF q = r THEN [s.rows[q] EXCEPT !.idx = n] ELSE s.rows[q]]
             /\ t.lines = [s.lines EXCEPT ![id].idx = n]
  <2>1. t = [byIid |-> [s.byIid EXCEPT ![d] = n],
             byIdx |-> Emplace(Erase(s.byIdx, old), n, d),
             rows  |-> [q \in 1 .. Len(s.rows) |->
                          IF q = r THEN [s.rows[q] EXCEPT !.idx = n] ELSE s.rows[q]],
             lines |-> [s.lines EXCEPT ![id].idx = n]]
    BY <1>1, <1>3 DEF Reindex
  <2> DEFINE f == [s.byIid EXCEPT ![d] = n]
             g == Emplace(Erase(s.byIdx, old), n, d)
             rs == [q \in 1 .. Len(s.rows) |->
                        IF q = r THEN [s.rows[q] EXCEPT !.idx = n] ELSE s.rows[q]]
             ls == [s.lines EXCEPT ![id].idx = n]
  <2>2. t.byIid = f /\ t.byIdx = g /\ t.rows = rs /\ t.lines = ls
    <3>1. t = [byIid |-> f, byIdx |-> g, rows |-> rs, lines |-> ls]
      BY <2>1
    <3> HIDE DEF f, g, rs, ls
    <3>2. QED
      BY <3>1
  <2> DEFINE e == Erase(s.byIdx, old)
  <2>3. DOMAIN e = DOMAIN s.byIdx \ {old} /\ \A x \in DOMAIN s.byIdx \ {old} : e[x] = s.byIdx[x]
    BY DEF Erase
  <2>4. t.byIdx = Emplace(e, n, d)
    BY <2>2
  <2> HIDE DEF e
  <2>5. DOMAIN t.byIdx = DOMAIN e \cup {n}
        /\ (\A x \in DOMAIN e : t.byIdx[x] = e[x])
        /\ (n \notin DOMAIN e => t.byIdx[n] = d)
    BY <2>4 DEF Emplace
  <2>6. /\ DOMAIN t.byIdx = (DOMAIN s.byIdx \ {old}) \cup {n}
        /\ \A x \in DOMAIN s.byIdx \ {old} : t.byIdx[x] = s.byIdx[x]
        /\ n \notin DOMAIN s.byIdx \ {old} => t.byIdx[n] = d
    BY <2>3, <2>5
  <2>7. /\ t.byIid = [s.byIid EXCEPT ![d] = n] /\ t.lines = [s.lines EXCEPT ![id].idx = n]
        /\ t.rows = [q \in 1 .. Len(s.rows) |->
                       IF q = r THEN [s.rows[q] EXCEPT !.idx = n] ELSE s.rows[q]]
    BY <2>2
  <2>8. QED
    BY <2>6, <2>7
<1>4. QED
  BY <1>2, <1>3 DEF Turn

(* A turn keeps what the loop has reached and adds one device.             *)
LEMMA TurnMaps ==
  ASSUME NEW start, NEW s, NEW m, NEW n \in Nat, n < m, NEW junk \in Slots, sdl \in Seq(Devices),
         \A p, q \in 1 .. Len(sdl) : sdl[p] = sdl[q] => p = q,
         Ready(start, m), Turned(start, s, n),
         NEW t, t = Reindex(s, n + 1, junk)
  PROVE  /\ t.byIid \in [DOMAIN start.byIid -> Indexes]
         /\ \A p \in 1 .. n + 1 : t.byIid[sdl[p]] = p - 1
         /\ \A d \in DOMAIN start.byIid :
              (\A p \in 1 .. n + 1 : d # sdl[p]) => t.byIid[d] = start.byIid[d]
         /\ DOMAIN t.byIdx \subseteq Indexes /\ \A i \in DOMAIN t.byIdx : t.byIdx[i] \in Devices
<1> DEFINE d == sdl[n + 1]
           old == s.byIid[d]
<1>1. /\ n + 1 \in 1 .. Len(sdl) /\ n \in Indexes /\ d \in DOMAIN start.byIid /\ d \in Devices
      /\ old \in Indexes /\ n + 1 \in 1 .. m
  BY Neighbours
<1>2. /\ s.byIid \in [DOMAIN start.byIid -> Indexes]
      /\ \A p \in 1 .. n : s.byIid[sdl[p]] = p - 1
      /\ \A e \in DOMAIN start.byIid :
           (\A p \in 1 .. n : e # sdl[p]) => s.byIid[e] = start.byIid[e]
      /\ DOMAIN s.byIdx \subseteq Indexes /\ \A i \in DOMAIN s.byIdx : s.byIdx[i] \in Devices
  BY DEF Turned
<1>3. /\ old = n => t = s
      /\ old # n => /\ t.byIid = [s.byIid EXCEPT ![d] = n]
                    /\ DOMAIN t.byIdx = (DOMAIN s.byIdx \ {old}) \cup {n}
                    /\ \A x \in DOMAIN s.byIdx \ {old} : t.byIdx[x] = s.byIdx[x]
                    /\ n \notin DOMAIN s.byIdx \ {old} => t.byIdx[n] = d
  <2>1. s.rows \in Seq(Rows)
    BY DEF Turned
  <2>2. n + 1 \in Nat \ {0} /\ (n + 1) - 1 = n
    OBVIOUS
  <2>3. Turn(s, n + 1, junk, t)
    BY <2>1, <2>2, OneTurn
  <2>4. QED
    BY <2>2, <2>3 DEF Turn
<1>4. t.byIid = [s.byIid EXCEPT ![d] = n]
  <2>1. CASE old = n
    BY <1>1, <1>2, <1>3, <2>1
  <2>2. QED
    BY <1>3, <2>1
<1>5. /\ t.byIid[d] = n
      /\ \A e \in DOMAIN start.byIid : e # d => t.byIid[e] = s.byIid[e]
  BY <1>1, <1>2, <1>4
<1>6. t.byIid \in [DOMAIN start.byIid -> Indexes]
  BY <1>1, <1>2, <1>4
<1>7. ASSUME NEW p \in 1 .. n + 1 PROVE t.byIid[sdl[p]] = p - 1
  <2>1. CASE p = n + 1
    BY <1>5, <2>1
  <2>2. CASE p # n + 1
    <3>1. p \in 1 .. n /\ p \in 1 .. Len(sdl) /\ p \in 1 .. m
      <4>1. Len(sdl) \in Nat /\ m \in Nat
        BY SdlFacts DEF Ready
      <4>2. QED
        BY <1>1, <2>2, <4>1
    <3>2. sdl[p] # d
      BY <1>1, <2>2, <3>1
    <3>3. sdl[p] \in DOMAIN start.byIid
      BY <3>1 DEF Ready
    <3>4. QED
      BY <1>2, <1>5, <3>1, <3>2, <3>3
  <2>3. QED
    BY <2>1, <2>2
<1>8. ASSUME NEW e \in DOMAIN start.byIid, \A p \in 1 .. n + 1 : e # sdl[p]
      PROVE  t.byIid[e] = start.byIid[e]
  <2>1. n + 1 \in 1 .. n + 1 /\ \A p \in 1 .. n : p \in 1 .. n + 1
    OBVIOUS
  <2>2. e # d /\ \A p \in 1 .. n : e # sdl[p]
    BY <1>8, <2>1
  <2>3. QED
    BY <1>2, <1>5, <2>2
<1>9. DOMAIN t.byIdx \subseteq Indexes /\ \A i \in DOMAIN t.byIdx : t.byIdx[i] \in Devices
  <2>1. CASE old = n
    BY <1>2, <1>3, <2>1
  <2>2. CASE old # n
    <3> HIDE DEF d, old
    <3>1. /\ DOMAIN t.byIdx = (DOMAIN s.byIdx \ {old}) \cup {n}
          /\ \A x \in DOMAIN s.byIdx \ {old} : t.byIdx[x] = s.byIdx[x]
          /\ n \notin DOMAIN s.byIdx \ {old} => t.byIdx[n] = d
      BY <1>3, <2>2
    <3>2. ASSUME NEW i \in DOMAIN t.byIdx PROVE t.byIdx[i] \in Devices
      <4>1. CASE i \in DOMAIN s.byIdx \ {old}
        BY <1>2, <3>1, <4>1
      <4>2. CASE i \notin DOMAIN s.byIdx \ {old}
        BY <1>1, <3>1, <3>2, <4>2
      <4>3. QED
        BY <4>1, <4>2
    <3>3. QED
      BY <1>1, <1>2, <3>1, <3>2
  <2>3. QED
    BY <2>1, <2>2
<1>10. QED
  BY <1>6, <1>7, <1>8, <1>9

LEMMA TurnRows ==
  ASSUME NEW start, NEW s, NEW m, NEW n \in Nat, n < m, NEW junk \in Slots, sdl \in Seq(Devices),
         \A p, q \in 1 .. Len(sdl) : sdl[p] = sdl[q] => p = q,
         Ready(start, m), Turned(start, s, n),
         NEW t, t = Reindex(s, n + 1, junk)
  PROVE  /\ t.rows \in Seq(Rows) /\ Len(t.rows) = Len(start.rows)
         /\ \A r \in 1 .. Len(start.rows) :
              t.rows[r].id = start.rows[r].id /\ t.rows[r].iid = start.rows[r].iid
         /\ t.lines \in [Slots -> Lines]
         /\ \A i \in Slots : t.lines[i].dev = start.lines[i].dev
<1> DEFINE d == sdl[n + 1]
           old == s.byIid[d]
           r == FindByIdx(s.rows, old)
           id == IF r = 0 THEN junk ELSE s.rows[r].id
           Goal(u) ==
             /\ u.rows \in Seq(Rows) /\ Len(u.rows) = Len(start.rows)
             /\ \A q \in 1 .. Len(start.rows) :
                  u.rows[q].id = start.rows[q].id /\ u.rows[q].iid = start.rows[q].iid
             /\ u.lines \in [Slots -> Lines]
             /\ \A i \in Slots : u.lines[i].dev = start.lines[i].dev
<1>1. Goal(s)
  BY DEF Turned
<1>2. n \in Slots
  BY Neighbours, Bounds
<1>3. /\ old = n => t = s
      /\ old # n =>
           /\ t.rows = [q \in 1 .. Len(s.rows) |->
                          IF q = r THEN [s.rows[q] EXCEPT !.idx = n] ELSE s.rows[q]]
           /\ t.lines = [s.lines EXCEPT ![id].idx = n]
  <2>1. s.rows \in Seq(Rows)
    BY DEF Turned
  <2>2. n + 1 \in Nat \ {0} /\ (n + 1) - 1 = n
    OBVIOUS
  <2>3. Turn(s, n + 1, junk, t)
    BY <2>1, <2>2, OneTurn
  <2>4. QED
    BY <2>2, <2>3 DEF Turn
<1>4. Len(s.rows) \in Nat /\ \A q \in 1 .. Len(s.rows) : s.rows[q] \in Rows
  BY <1>1, LenProperties, ElementOfSeq
<1>5. id \in Slots
  <2>1. r \in 0 .. Len(s.rows)
    BY <1>1, RowWithIdx
  <2>2. CASE r = 0
    BY <2>2
  <2>3. CASE r # 0
    BY <1>4, <2>1, <2>3 DEF Rows
  <2>4. QED
    BY <2>2, <2>3
<1>6. CASE old = n
  BY <1>1, <1>3, <1>6
<1>7. CASE old # n
  <2> HIDE DEF id, r, old
  <2>1. /\ t.rows = [q \in 1 .. Len(s.rows) |->
                       IF q = r THEN [s.rows[q] EXCEPT !.idx = n] ELSE s.rows[q]]
        /\ t.lines = [s.lines EXCEPT ![id].idx = n]
    BY <1>3, <1>7
  <2>2. ASSUME NEW q \in 1 .. Len(s.rows)
        PROVE  t.rows[q] \in Rows /\ t.rows[q].id = s.rows[q].id /\ t.rows[q].iid = s.rows[q].iid
    <3>1. s.rows[q] \in Rows
      BY <1>4
    <3>2. t.rows[q] = IF q = r THEN [s.rows[q] EXCEPT !.idx = n] ELSE s.rows[q]
      BY <2>1
    <3>3. [s.rows[q] EXCEPT !.idx = n] \in Rows
          /\ [s.rows[q] EXCEPT !.idx = n].id = s.rows[q].id
          /\ [s.rows[q] EXCEPT !.idx = n].iid = s.rows[q].iid
      BY <1>2, <3>1 DEF Rows
    <3>4. QED
      BY <3>1, <3>2, <3>3
  <2>3. t.rows \in Seq(Rows) /\ Len(t.rows) = Len(s.rows)
    <3>1. t.rows \in [1 .. Len(s.rows) -> Rows]
      BY <2>1, <2>2
    <3>2. QED
      BY <1>4, <3>1
  <2>4. [s.lines[id] EXCEPT !.idx = n] \in Lines
        /\ [s.lines[id] EXCEPT !.idx = n].dev = s.lines[id].dev
    <3>1. s.lines[id] \in Lines
      BY <1>1, <1>5
    <3>2. QED
      BY <1>2, <3>1 DEF Lines, NoLine
  <2>5. t.lines = [s.lines EXCEPT ![id] = [s.lines[id] EXCEPT !.idx = n]]
    BY <2>1
  <2>6. t.lines \in [Slots -> Lines]
    BY <1>1, <2>4, <2>5
  <2>7. \A i \in Slots : t.lines[i].dev = s.lines[i].dev
    BY <1>1, <2>4, <2>5
  <2>8. QED
    BY <1>1, <2>2, <2>3, <2>6, <2>7
<1>8. QED
  BY <1>6, <1>7

LEMMA TurnKeeps ==
  ASSUME NEW start, NEW s, NEW m, NEW n \in Nat, n < m, NEW junk \in Slots, sdl \in Seq(Devices),
         \A p, q \in 1 .. Len(sdl) : sdl[p] = sdl[q] => p = q,
         Ready(start, m), Turned(start, s, n),
         NEW t, t = Reindex(s, n + 1, junk)
  PROVE  Turned(start, t, n + 1)
<1>1. /\ t.byIid \in [DOMAIN start.byIid -> Indexes]
      /\ \A p \in 1 .. n + 1 : t.byIid[sdl[p]] = p - 1
      /\ \A d \in DOMAIN start.byIid :
           (\A p \in 1 .. n + 1 : d # sdl[p]) => t.byIid[d] = start.byIid[d]
      /\ DOMAIN t.byIdx \subseteq Indexes /\ \A i \in DOMAIN t.byIdx : t.byIdx[i] \in Devices
  BY TurnMaps
<1>2. /\ t.rows \in Seq(Rows) /\ Len(t.rows) = Len(start.rows)
      /\ \A r \in 1 .. Len(start.rows) :
           t.rows[r].id = start.rows[r].id /\ t.rows[r].iid = start.rows[r].iid
      /\ t.lines \in [Slots -> Lines]
      /\ \A i \in Slots : t.lines[i].dev = start.lines[i].dev
  BY TurnRows
<1>3. QED
  BY <1>1, <1>2 DEF Turned

-----------------------------------------------------------------------------
(* While no removal is queued behind two others: rows, lines and map have  *)
(* the same indexes, every device has one row, and no two devices that the *)
(* loop tells apart have the same index.                                   *)
Distinct(start, m) ==
  /\ Numbered(start.rows, start.lines)
  /\ \A r \in 1 .. Len(start.rows) : start.rows[r].iid \in DOMAIN start.byIid
  /\ \A d \in DOMAIN start.byIid : \E r \in 1 .. Len(start.rows) : start.rows[r].iid = d
  /\ \A r, q \in 1 .. Len(start.rows) : start.rows[r].iid = start.rows[q].iid => r = q
  /\ \A d \in DOMAIN start.byIid :
       (\A p \in 1 .. m : d # sdl[p]) =>
         \A p \in 1 .. m : start.byIid[sdl[p]] # start.byIid[d]

SameIndexes(start, s) ==
  /\ Indexed(s.rows, s.lines, s.byIid)
  /\ \A i \in Slots : i >= Len(start.rows) => s.lines[i] = start.lines[i]

LEMMA Apart ==
  ASSUME NEW start, NEW s, NEW m, NEW n \in Nat, n < m, sdl \in Seq(Devices),
         \A p, q \in 1 .. Len(sdl) : sdl[p] = sdl[q] => p = q,
         Ready(start, m), Turned(start, s, n), Distinct(start, m),
         s.byIid[sdl[n + 1]] # n,
         NEW e \in DOMAIN start.byIid, e # sdl[n + 1]
  PROVE  s.byIid[e] # s.byIid[sdl[n + 1]]
<1>1. /\ n + 1 \in 1 .. m /\ s.byIid[sdl[n + 1]] = start.byIid[sdl[n + 1]]
      /\ s.byIid[sdl[n + 1]] \in Indexes /\ s.byIid[sdl[n + 1]] >= n
      /\ \A k \in 1 .. n : s.byIid[sdl[k]] < n
      /\ \A k \in n + 2 .. m : s.byIid[sdl[k]] > s.byIid[sdl[n + 1]]
  BY Neighbours
<1>2. m \in Nat /\ s.byIid[sdl[n + 1]] \in Int
  <2>1. Len(sdl) \in Nat
    BY SdlFacts
  <2>2. m \in Nat
    BY <2>1 DEF Ready
  <2>3. QED
    BY <1>1, <2>2, Bounds DEF Indexes
<1>3. CASE \E k \in 1 .. m : e = sdl[k]
  <2>1. PICK k \in 1 .. m : e = sdl[k]
    BY <1>3
  <2>2. k # n + 1
    BY <2>1
  <2>3. k \in 1 .. n \/ k \in n + 2 .. m
    BY <1>2, <2>1, <2>2
  <2>4. CASE k \in 1 .. n
    <3>1. s.byIid[sdl[k]] = k - 1
      BY <2>4 DEF Turned
    <3>2. QED
      BY <1>1, <1>2, <2>1, <2>4, <3>1
  <2>5. CASE k \in n + 2 .. m
    <3>1. s.byIid[sdl[k]] \in Indexes
      BY <2>1 DEF Turned
    <3>2. s.byIid[sdl[k]] > s.byIid[sdl[n + 1]]
      BY <1>1, <2>5
    <3>3. s.byIid[sdl[k]] \in Int
      BY <3>1, Bounds DEF Indexes
    <3>4. QED
      BY <1>2, <2>1, <3>2, <3>3
  <2>6. QED
    BY <2>3, <2>4, <2>5
<1>4. CASE ~ \E k \in 1 .. m : e = sdl[k]
  <2>1. \A p \in 1 .. m : e # sdl[p]
    BY <1>4
  <2>2. start.byIid[sdl[n + 1]] # start.byIid[e]
    BY <1>1, <2>1 DEF Distinct
  <2>3. \A p \in 1 .. n : e # sdl[p]
    BY <1>2, <2>1
  <2>4. s.byIid[e] = start.byIid[e]
    BY <2>3 DEF Turned
  <2>5. QED
    BY <1>1, <2>2, <2>4
<1>5. QED
  BY <1>3, <1>4

(* The row with the old index is the row of the device: it gets the new    *)
(* index, and so does its line.                                            *)
LEMMA TurnIndexes ==
  ASSUME NEW start, NEW s, NEW m, NEW n \in Nat, n < m, NEW junk \in Slots, sdl \in Seq(Devices),
         \A p, q \in 1 .. Len(sdl) : sdl[p] = sdl[q] => p = q,
         Ready(start, m), Turned(start, s, n), Distinct(start, m), SameIndexes(start, s),
         NEW t, t = Reindex(s, n + 1, junk)
  PROVE  SameIndexes(start, t)
<1> DEFINE d == sdl[n + 1]
           old == s.byIid[d]
           r == FindByIdx(s.rows, old)
           id == IF r = 0 THEN junk ELSE s.rows[r].id
<1>1. /\ n + 1 \in 1 .. m /\ d \in DOMAIN start.byIid /\ n \in Slots
      /\ old \in Indexes
  BY Neighbours, Bounds
<1>2. /\ s.byIid \in [DOMAIN start.byIid -> Indexes]
      /\ s.rows \in Seq(Rows) /\ Len(s.rows) = Len(start.rows)
      /\ \A q \in 1 .. Len(start.rows) :
           s.rows[q].id = start.rows[q].id /\ s.rows[q].iid = start.rows[q].iid
      /\ s.lines \in [Slots -> Lines]
  BY DEF Turned
<1>3. (n + 1) - 1 = n /\ n + 1 \in Nat \ {0}
  OBVIOUS
<1>4. Turn(s, n + 1, junk, t)
  BY <1>2, <1>3, OneTurn
<1>5. CASE old = n
  <2>1. t = s
    BY <1>3, <1>4, <1>5 DEF Turn
  <2>2. QED
    BY <2>1
<1>6. CASE old # n
  <2>1. /\ t.byIid = [s.byIid EXCEPT ![d] = n]
        /\ t.rows = [q \in 1 .. Len(s.rows) |->
                       IF q = r THEN [s.rows[q] EXCEPT !.idx = n] ELSE s.rows[q]]
        /\ t.lines = [s.lines EXCEPT ![id].idx = n]
    BY <1>3, <1>4, <1>6 DEF Turn
  <2>2. \A q \in 1 .. Len(start.rows) :
          s.rows[q].idx = s.byIid[s.rows[q].iid] /\ s.lines[q - 1].idx = s.rows[q].idx
    BY <1>2 DEF SameIndexes, Indexed
  <2>3. PICK q0 \in 1 .. Len(start.rows) : start.rows[q0].iid = d
    BY <1>1 DEF Distinct
  <2>4. s.rows[q0].idx = old
    BY <1>2, <2>2, <2>3
  <2>5. r \in 1 .. Len(start.rows) /\ s.rows[r].idx = old
    <3>1. /\ r \in 0 .. Len(s.rows) /\ (r # 0 => s.rows[r].idx = old)
          /\ r = 0 => \A q \in 1 .. Len(s.rows) : s.rows[q].idx # old
      BY <1>2, RowWithIdx
    <3>2. r # 0
      BY <1>2, <2>3, <2>4, <3>1
    <3>3. Len(s.rows) \in Nat
      BY <1>2, LenProperties
    <3> HIDE DEF r, old
    <3>4. QED
      BY <1>2, <3>1, <3>2, <3>3
  <2>6. s.rows[r].iid = d
    <3>1. start.rows[r].iid \in DOMAIN start.byIid /\ s.rows[r].iid = start.rows[r].iid
      BY <1>2, <2>5 DEF Distinct
    <3>2. s.byIid[start.rows[r].iid] = old
      BY <2>2, <2>5, <3>1
    <3> DEFINE e == start.rows[r].iid
    <3>3. ASSUME NEW x \in DOMAIN start.byIid, x # sdl[n + 1]
          PROVE  s.byIid[x] # s.byIid[sdl[n + 1]]
      <4>1. s.byIid[sdl[n + 1]] # n
        BY <1>6
      <4> HIDE DEF d, old, r, id, e
      <4>2. QED
        BY <3>3, <4>1, Apart
    <3>4. e \in DOMAIN start.byIid /\ s.byIid[e] = s.byIid[sdl[n + 1]]
      BY <3>1, <3>2
    <3> HIDE DEF e
    <3>5. e = sdl[n + 1]
      BY <3>3, <3>4
    <3>6. QED
      BY <3>1, <3>5 DEF e
  <2>7. id = r - 1
    <3>1. s.rows[r].id = r - 1
      BY <1>2, <2>5 DEF Distinct, Numbered
    <3>2. QED
      BY <2>5, <3>1
  <2> HIDE DEF d, old, r, id
  <2>8. Len(start.rows) \in Nat /\ Len(start.rows) <= MaxPads
    BY LenProperties DEF Ready
  <2>9. r - 1 \in Slots
    BY <2>5, <2>8, Bounds DEF Slots
  <2>10. /\ \A i \in Slots : i # r - 1 => t.lines[i] = s.lines[i]
         /\ t.lines[r - 1].idx = n
    <3>1. s.lines[r - 1] \in Lines
      BY <1>2, <2>9
    <3>2. [s.lines[r - 1] EXCEPT !.idx = n].idx = n
      BY <3>1 DEF Lines, NoLine
    <3>3. t.lines = [s.lines EXCEPT ![r - 1] = [s.lines[r - 1] EXCEPT !.idx = n]]
      BY <2>1, <2>7
    <3>4. QED
      BY <1>2, <2>9, <3>2, <3>3
  <2>11. /\ DOMAIN t.rows = 1 .. Len(s.rows)
         /\ \A q \in 1 .. Len(s.rows) : q # r => t.rows[q] = s.rows[q]
         /\ t.rows[r].idx = n /\ t.rows[r].iid = d
    <3>1. s.rows[r] \in Rows
      BY <1>2, <2>5, ElementOfSeq
    <3>2. t.rows[r] = [s.rows[r] EXCEPT !.idx = n]
      BY <1>2, <2>1, <2>5
    <3>3. QED
      BY <2>1, <2>6, <3>1, <3>2 DEF Rows
  <2>12. t.byIid[d] = n /\ \A e \in DOMAIN start.byIid : e # d => t.byIid[e] = s.byIid[e]
    BY <1>1, <1>2, <2>1
  <2>13. Len(t.rows) = Len(s.rows)
    <3>1. t.rows \in Seq(Rows) /\ Len(t.rows) = Len(start.rows)
      BY TurnRows
    <3>2. QED
      BY <1>2, <3>1
  <2>14. ASSUME NEW q \in 1 .. Len(t.rows)
         PROVE  t.rows[q].idx = t.byIid[t.rows[q].iid] /\ t.lines[q - 1].idx = t.rows[q].idx
    <3>1. q \in 1 .. Len(start.rows) /\ q \in 1 .. Len(s.rows) /\ q \in Nat /\ r \in Nat
      BY <1>2, <2>5, <2>13
    <3>2. CASE q = r
      BY <2>10, <2>11, <2>12, <3>2
    <3>3. CASE q # r
      <4>1. s.rows[q].iid # d /\ s.rows[q].iid \in DOMAIN start.byIid
        BY <1>2, <2>5, <2>6, <3>1, <3>3 DEF Distinct
      <4>2. q - 1 \in Slots /\ q - 1 # r - 1
        BY <2>8, <3>1, <3>3, Bounds DEF Slots
      <4>3. t.rows[q] = s.rows[q] /\ t.lines[q - 1] = s.lines[q - 1]
        BY <2>10, <2>11, <3>1, <3>3, <4>2
      <4>4. t.byIid[s.rows[q].iid] = s.byIid[s.rows[q].iid]
        BY <2>12, <4>1
      <4>5. s.rows[q].idx = s.byIid[s.rows[q].iid] /\ s.lines[q - 1].idx = s.rows[q].idx
        BY <2>2, <3>1
      <4>6. QED
        BY <4>3, <4>4, <4>5
    <3>4. QED
      BY <3>2, <3>3
  <2>15. ASSUME NEW i \in Slots, i >= Len(start.rows) PROVE t.lines[i] = start.lines[i]
    <3>1. i # r - 1
      BY <2>5, <2>8, <2>15, Bounds
    <3>2. QED
      BY <2>10, <2>15, <3>1 DEF SameIndexes
  <2>16. QED
    BY <2>14, <2>15 DEF SameIndexes, Indexed
<1>7. QED
  BY <1>5, <1>6

(* While no removal is queued behind another one: the loop reaches every   *)
(* device of the maps, and they stay inverse to each other.                *)
LEMMA TurnMatches ==
  ASSUME NEW start, NEW s, NEW m, NEW n \in Nat, n < m, NEW junk \in Slots, sdl \in Seq(Devices),
         \A p, q \in 1 .. Len(sdl) : sdl[p] = sdl[q] => p = q,
         Ready(start, m), Turned(start, s, n),
         \A d \in DOMAIN start.byIid : \E p \in 1 .. m : d = sdl[p],
         MapsMatch(s.byIid, s.byIdx),
         NEW t, t = Reindex(s, n + 1, junk)
  PROVE  MapsMatch(t.byIid, t.byIdx)
<1> DEFINE d == sdl[n + 1]
           old == s.byIid[d]
<1>1. /\ n + 1 \in 1 .. m /\ d \in DOMAIN start.byIid
      /\ old \in Indexes /\ old >= n
      /\ \A k \in 1 .. n : s.byIid[sdl[k]] < n
      /\ \A k \in n + 2 .. m : s.byIid[sdl[k]] > old
  BY Neighbours
<1>2. s.byIid \in [DOMAIN start.byIid -> Indexes] /\ s.rows \in Seq(Rows)
  BY DEF Turned
<1>3. (n + 1) - 1 = n /\ n + 1 \in Nat \ {0}
  OBVIOUS
<1>4. Turn(s, n + 1, junk, t)
  BY <1>2, <1>3, OneTurn
<1>5. m \in Nat /\ Indexes \subseteq Int
  <2>1. Len(sdl) \in Nat
    BY SdlFacts
  <2>2. QED
    BY <2>1, Bounds DEF Ready, Indexes
<1>6. \A e \in DOMAIN start.byIid :
        s.byIid[e] \in DOMAIN s.byIdx /\ s.byIdx[s.byIid[e]] = e
  BY <1>2 DEF MapsMatch
<1>7. \A i \in DOMAIN s.byIdx :
        s.byIdx[i] \in DOMAIN start.byIid /\ s.byIid[s.byIdx[i]] = i
  BY <1>2 DEF MapsMatch
<1>8. CASE old = n
  <2>1. t = s
    BY <1>3, <1>4, <1>8 DEF Turn
  <2>2. QED
    BY <2>1
<1>9. CASE old # n
  <2>1. /\ t.byIid = [s.byIid EXCEPT ![d] = n]
        /\ DOMAIN t.byIdx = (DOMAIN s.byIdx \ {old}) \cup {n}
        /\ \A x \in DOMAIN s.byIdx \ {old} : t.byIdx[x] = s.byIdx[x]
        /\ n \notin DOMAIN s.byIdx \ {old} => t.byIdx[n] = d
    BY <1>3, <1>4, <1>9 DEF Turn
  <2> HIDE DEF d, old
  <2>2. n \notin DOMAIN s.byIdx
    <3> SUFFICES ASSUME n \in DOMAIN s.byIdx PROVE FALSE
      OBVIOUS
    <3>1. s.byIdx[n] \in DOMAIN start.byIid /\ s.byIid[s.byIdx[n]] = n
      BY <1>7
    <3>2. PICK k \in 1 .. m : s.byIdx[n] = sdl[k]
      BY <3>1
    <3>3. s.byIid[sdl[k]] = n
      BY <3>1, <3>2
    <3>4. k \in 1 .. n \/ k = n + 1 \/ k \in n + 2 .. m
      BY <1>5, <3>2
    <3>5. CASE k \in 1 .. n
      BY <1>1, <3>3, <3>5
    <3>6. CASE k = n + 1
      BY <1>9, <3>3, <3>6 DEF d, old
    <3>7. CASE k \in n + 2 .. m
      <4>1. n > old
        BY <1>1, <3>3, <3>7
      <4>2. QED
        BY <1>1, <1>5, <4>1
    <3>8. QED
      BY <3>4, <3>5, <3>6, <3>7
  <2>3. t.byIdx[n] = d /\ n \in DOMAIN t.byIdx
    BY <2>1, <2>2
  <2>4. /\ DOMAIN t.byIid = DOMAIN start.byIid /\ t.byIid[d] = n
        /\ \A e \in DOMAIN start.byIid : e # d => t.byIid[e] = s.byIid[e]
    BY <1>1, <1>2, <2>1
  <2>5. s.byIdx[old] = d
    BY <1>1, <1>6 DEF old
  <2>6. ASSUME NEW e \in DOMAIN t.byIid
        PROVE  t.byIid[e] \in DOMAIN t.byIdx /\ t.byIdx[t.byIid[e]] = e
    <3>1. CASE e = d
      BY <2>3, <2>4, <3>1
    <3>2. CASE e # d
      <4>1. t.byIid[e] = s.byIid[e] /\ s.byIid[e] \in DOMAIN s.byIdx
            /\ s.byIdx[s.byIid[e]] = e
        BY <1>6, <2>4, <3>2
      <4>2. s.byIid[e] # old
        BY <2>5, <3>2, <4>1
      <4>3. QED
        BY <2>1, <4>1, <4>2
    <3>3. QED
      BY <3>1, <3>2
  <2>7. ASSUME NEW i \in DOMAIN t.byIdx
        PROVE  t.byIdx[i] \in DOMAIN t.byIid /\ t.byIid[t.byIdx[i]] = i
    <3>1. CASE i = n
      BY <1>1, <2>3, <2>4, <3>1
    <3>2. CASE i # n
      <4>1. i \in DOMAIN s.byIdx /\ i # old /\ t.byIdx[i] = s.byIdx[i]
        BY <2>1, <3>2
      <4>2. s.byIdx[i] \in DOMAIN start.byIid /\ s.byIid[s.byIdx[i]] = i
        BY <1>7, <4>1
      <4>3. s.byIdx[i] # d
        BY <4>1, <4>2 DEF old
      <4>4. QED
        BY <2>4, <4>1, <4>2, <4>3
    <3>3. QED
      BY <3>1, <3>2
  <2>8. QED
    BY <2>6, <2>7 DEF MapsMatch
<1>10. QED
  BY <1>8, <1>9

-----------------------------------------------------------------------------
(* The whole loop.                                                         *)
LoopInv(start, s, m, n) ==
  /\ Turned(start, s, n)
  /\ Distinct(start, m) /\ SameIndexes(start, start) => SameIndexes(start, s)
  /\ (\A d \in DOMAIN start.byIid : \E p \in 1 .. m : d = sdl[p])
       /\ MapsMatch(start.byIid, start.byIdx)
     => MapsMatch(s.byIid, s.byIdx)

LEMMA LoopKeeps ==
  ASSUME NEW start, NEW m \in Nat, NEW junk \in Slots, sdl \in Seq(Devices),
         \A p, q \in 1 .. Len(sdl) : sdl[p] = sdl[q] => p = q,
         Ready(start, m)
  PROVE  LoopInv(start, Renumbered(start, m, junk), m, m)
<1>1. PICK t : /\ Renumbered(start, m, junk) = t[m]
               /\ t[0] = start
               /\ \A k \in 1 .. m : t[k] = Reindex(t[k - 1], k, junk)
  BY TurnsOf
<1> DEFINE Bad == {k \in 0 .. m : ~ LoopInv(start, t[k], m, k)}
<1>2. SUFFICES ASSUME Bad # {} PROVE FALSE
  BY <1>1
<1>3. PICK k \in Bad : \A j \in Bad : k <= j
  <2>1. Bad \in SUBSET Nat
    OBVIOUS
  <2> HIDE DEF Bad
  <2>2. QED
    BY <1>2, <2>1, Least
<1>4. CASE k = 0
  <2>1. Turned(start, start, 0)
    BY DEF Ready, Turned
  <2>2. LoopInv(start, t[k], m, k)
    BY <1>1, <1>4, <2>1 DEF LoopInv
  <2>3. QED
    BY <1>3, <2>2
<1>5. CASE k # 0
  <2>1. PICK n \in Nat : k = n + 1 /\ n < m /\ n \in 0 .. m /\ k - 1 = n /\ ~ (k <= n)
    <3>1. k - 1 \in Nat /\ k = (k - 1) + 1 /\ k - 1 < m /\ k - 1 \in 0 .. m /\ ~ (k <= k - 1)
      BY <1>3, <1>5
    <3>2. QED
      BY <3>1
  <2>2. LoopInv(start, t[n], m, n)
    BY <1>3, <2>1
  <2>3. k \in 1 .. m /\ t[k] = Reindex(t[n], n + 1, junk)
    BY <1>1, <1>3, <2>1
  <2>4. Turned(start, t[n], n)
    BY <2>2 DEF LoopInv
  <2>5. Turned(start, t[k], n + 1)
    BY <2>1, <2>3, <2>4, TurnKeeps
  <2>6. ASSUME Distinct(start, m), SameIndexes(start, start) PROVE SameIndexes(start, t[k])
    <3>1. SameIndexes(start, t[n])
      BY <2>2, <2>6 DEF LoopInv
    <3>2. QED
      BY <2>1, <2>3, <2>4, <2>6, <3>1, TurnIndexes
  <2>7. ASSUME \A d \in DOMAIN start.byIid : \E p \in 1 .. m : d = sdl[p],
               MapsMatch(start.byIid, start.byIdx)
        PROVE  MapsMatch(t[k].byIid, t[k].byIdx)
    <3>1. MapsMatch(t[n].byIid, t[n].byIdx)
      BY <2>2, <2>7 DEF LoopInv
    <3>2. QED
      BY <2>1, <2>3, <2>4, <2>7, <3>1, TurnMatches
  <2>8. LoopInv(start, t[k], m, k)
    BY <2>1, <2>5, <2>6, <2>7 DEF LoopInv
  <2>9. QED
    BY <1>3, <2>8
<1>6. QED
  BY <1>4, <1>5

-----------------------------------------------------------------------------
(* A removal takes the row and its line out of the middle.                 *)
SeatedRows ==
  /\ devices \in Seq(Rows) /\ lines \in [Slots -> Lines]
  /\ Len(devices) <= MaxPads /\ Numbered(devices, lines)
  /\ \A r \in 1 .. Len(devices) : devices[r].iid \in Devices

LEMMA UsedLines ==
  ASSUME SeatedRows
  PROVE  /\ Len(devices) \in Nat
         /\ \A r \in 1 .. Len(devices) :
              r - 1 \in Slots /\ devices[r] \in Rows /\ devices[r].id = r - 1
         /\ \A i \in 0 .. Len(devices) - 1 : i \in Slots /\ lines[i] # NoLine
<1>1. Len(devices) \in Nat
  BY LenProperties DEF SeatedRows
<1>2. ASSUME NEW r \in 1 .. Len(devices)
      PROVE  r - 1 \in Slots /\ devices[r] \in Rows /\ devices[r].id = r - 1
  BY <1>1, Bounds, ElementOfSeq DEF SeatedRows, Numbered, Slots
<1>3. ASSUME NEW i \in 0 .. Len(devices) - 1 PROVE i \in Slots /\ lines[i] # NoLine
  <2>1. i + 1 \in 1 .. Len(devices) /\ (i + 1) - 1 = i
    BY <1>1
  <2>2. lines[i].dev = devices[i + 1].iid /\ devices[i + 1].iid \in Devices
    BY <2>1 DEF SeatedRows, Numbered
  <2>3. lines[i].dev # NoDevice
    BY <2>2, Bounds
  <2>4. i \in Slots
    BY <1>2, <2>1
  <2>5. QED
    BY <2>3, <2>4 DEF NoLine
<1>4. QED
  BY <1>1, <1>2, <1>3

LEMMA RestOfRows ==
  ASSUME SeatedRows, NEW r \in 1 .. Len(devices), NEW rest, rest = RemoveAt(devices, r)
  PROVE  /\ rest \in Seq(Rows) /\ Len(rest) = Len(devices) - 1
         /\ \A q \in 1 .. Len(devices) - 1 :
              /\ rest[q] \in Rows
              /\ q < r => rest[q] = devices[q] /\ rest[q].id = q - 1
              /\ q >= r => rest[q] = devices[q + 1] /\ rest[q].id = q
<1>1. Len(devices) \in Nat
      /\ \A q \in 1 .. Len(devices) : devices[q] \in Rows /\ devices[q].id = q - 1
  BY UsedLines
<1>2. /\ rest \in Seq(Rows) /\ Len(rest) = Len(devices) - 1
      /\ \A j \in 1 .. Len(devices) - 1 :
           rest[j] = IF j < r THEN devices[j] ELSE devices[j + 1]
  BY RemovedAt DEF SeatedRows
<1>3. ASSUME NEW q \in 1 .. Len(devices) - 1
      PROVE  /\ rest[q] \in Rows
             /\ q < r => rest[q] = devices[q] /\ rest[q].id = q - 1
             /\ q >= r => rest[q] = devices[q + 1] /\ rest[q].id = q
  <2>1. q \in 1 .. Len(devices) /\ q + 1 \in 1 .. Len(devices) /\ (q + 1) - 1 = q
    BY <1>1
  <2>2. /\ devices[q] \in Rows /\ devices[q].id = q - 1
        /\ devices[q + 1] \in Rows /\ devices[q + 1].id = q
    BY <1>1, <2>1
  <2>3. CASE q < r
    BY <1>2, <2>2, <2>3
  <2>4. CASE ~ (q < r)
    BY <1>2, <2>2, <2>4
  <2>5. QED
    BY <2>3, <2>4
<1>4. QED
  BY <1>2, <1>3

LEMMA BehindRow ==
  ASSUME SeatedRows, NEW r \in 1 .. Len(devices)
  PROVE  /\ \A i \in LinesFrom(lines, r - 1) : r - 1 <= i /\ i < MaxPads /\ i \in Slots
         /\ \A i \in r - 1 .. Len(devices) - 1 : i \in LinesFrom(lines, r - 1)
<1>1. Len(devices) \in Nat /\ Len(devices) <= MaxPads
      /\ \A i \in 0 .. Len(devices) - 1 : i \in Slots /\ lines[i] # NoLine
  BY UsedLines DEF SeatedRows
<1>2. ASSUME NEW i \in r - 1 .. Len(devices) - 1 PROVE i \in LinesFrom(lines, r - 1)
  <2>1. i \in Slots /\ r - 1 <= i /\ i < MaxPads
    BY <1>1, Bounds
  <2>2. \A k \in r - 1 .. i : lines[k] # NoLine
    BY <1>1
  <2>3. QED
    BY <2>1, <2>2 DEF LinesFrom
<1>3. QED
  BY <1>2 DEF LinesFrom

LEMMA RemovalRows ==
  ASSUME SeatedRows, NEW r \in 1 .. Len(devices)
  PROVE  /\ RowsAfterRemoval(r) \in Seq(Rows) /\ Len(RowsAfterRemoval(r)) = Len(devices) - 1
         /\ \A q \in 1 .. Len(devices) - 1 :
              LET row == RowsAfterRemoval(r)[q]
                  old == IF q < r THEN devices[q] ELSE devices[q + 1]
              IN  row.id = q - 1 /\ row.iid = old.iid /\ row.idx = old.idx
<1> DEFINE rest == RemoveAt(devices, r)
           n == Len(devices) - 1
           moves(q) == /\ rest[q].id - 1 \in LinesFrom(lines, r - 1)
                       /\ rest[q].id < MaxPads
                       /\ FindById(rest, rest[q].id) = q
           new == [q \in DOMAIN rest |->
                     IF moves(q) THEN [rest[q] EXCEPT !.id = @ - 1] ELSE rest[q]]
<1>1. Len(devices) \in Nat /\ devices[r].id = r - 1 /\ Len(devices) <= MaxPads
      /\ \A q \in 1 .. Len(devices) : q - 1 \in Slots
  BY UsedLines DEF SeatedRows
<1>2. RowsAfterRemoval(r) = new
  BY <1>1 DEF RowsAfterRemoval
<1>3. /\ rest \in Seq(Rows) /\ Len(rest) = n
      /\ \A q \in 1 .. n :
           /\ rest[q] \in Rows
           /\ q < r => rest[q] = devices[q] /\ rest[q].id = q - 1
           /\ q >= r => rest[q] = devices[q + 1] /\ rest[q].id = q
  BY RestOfRows
<1>4. DOMAIN rest = 1 .. n /\ n \in Nat
  BY <1>1, <1>3, LenProperties
<1> HIDE DEF rest
<1>5. ASSUME NEW q \in 1 .. n
      PROVE  /\ new[q] \in Rows /\ new[q].id = q - 1
             /\ new[q].iid = rest[q].iid /\ new[q].idx = rest[q].idx
  <2>1. CASE q < r
    <3>1. rest[q] \in Rows /\ rest[q].id = q - 1
      BY <1>3, <2>1
    <3>2. ~ moves(q)
      <4>1. ~ (r - 1 <= rest[q].id - 1)
        BY <2>1, <3>1
      <4>2. QED
        BY <4>1, BehindRow
    <3>3. new[q] = rest[q]
      BY <1>4, <3>2
    <3>4. QED
      BY <3>1, <3>3
  <2>2. CASE q >= r
    <3>1. rest[q] \in Rows /\ rest[q].id = q
      BY <1>3, <2>2
    <3>2. q - 1 \in LinesFrom(lines, r - 1) /\ q < MaxPads
      <4>1. q - 1 \in r - 1 .. Len(devices) - 1 /\ q < MaxPads
        BY <1>1, <1>4, <2>2, Bounds
      <4>2. QED
        BY <4>1, BehindRow
    <3>3. FindById(rest, q) = q
      <4>1. /\ FindById(rest, q) \in 0 .. n
            /\ FindById(rest, q) # 0 => rest[FindById(rest, q)].id = q
            /\ FindById(rest, q) = 0 => \A k \in 1 .. n : rest[k].id # q
        BY <1>3, RowWithId
      <4> DEFINE k == FindById(rest, q)
      <4> HIDE DEF k
      <4>2. k \in 1 .. n /\ rest[k].id = q
        BY <1>4, <3>1, <4>1 DEF k
      <4>3. ~ (k < r)
        BY <1>3, <2>2, <4>2
      <4>4. k = q
        BY <1>3, <4>2, <4>3
      <4>5. QED
        BY <4>4 DEF k
    <3>4. moves(q)
      BY <3>1, <3>2, <3>3
    <3>5. new[q] = [rest[q] EXCEPT !.id = rest[q].id - 1]
      BY <1>4, <3>4
    <3>6. q - 1 \in Slots
      BY <1>1, <1>4
    <3> HIDE DEF new
    <3>7. QED
      BY <3>1, <3>5, <3>6 DEF Rows
  <2>3. QED
    BY <1>4, <2>1, <2>2
<1>6. new \in [1 .. n -> Rows]
  BY <1>4, <1>5
<1>7. new \in Seq(Rows) /\ Len(new) = n
  BY <1>4, <1>6
<1> HIDE DEF new, n
<1>8. ASSUME NEW q \in 1 .. n
      PROVE  rest[q] = IF q < r THEN devices[q] ELSE devices[q + 1]
  <2>1. CASE q < r
    BY <1>3, <2>1
  <2>2. CASE ~ (q < r)
    <3>1. q >= r
      BY <1>4, <2>2
    <3>2. QED
      BY <1>3, <2>2, <3>1
  <2>3. QED
    BY <2>1, <2>2
<1>9. QED
  BY <1>2, <1>5, <1>7, <1>8 DEF n

LEMMA RemovalLines ==
  ASSUME SeatedRows, NEW r \in 1 .. Len(devices)
  PROVE  /\ LinesAfterRemoval(r) \in [Slots -> Lines]
         /\ \A q \in 1 .. Len(devices) - 1 :
              /\ q < r => LinesAfterRemoval(r)[q - 1] = lines[q - 1]
              /\ q >= r => LinesAfterRemoval(r)[q - 1] = lines[q]
         /\ (\A i \in Len(devices) .. MaxPads - 1 : lines[i] = NoLine) =>
              \A i \in Len(devices) - 1 .. MaxPads - 1 : LinesAfterRemoval(r)[i] = NoLine
<1> DEFINE rest == RemoveAt(devices, r)
           n == Len(devices) - 1
           new == [i \in Slots |->
                     IF i \notin LinesFrom(lines, r - 1) THEN lines[i]
                     ELSE IF i # MaxPads - 1 /\ FindById(rest, i + 1) # 0 THEN lines[i + 1]
                     ELSE NoLine]
<1>1. Len(devices) \in Nat /\ devices[r].id = r - 1 /\ Len(devices) <= MaxPads
      /\ (\A i \in 0 .. Len(devices) - 1 : i \in Slots /\ lines[i] # NoLine)
      /\ lines \in [Slots -> Lines] /\ n \in Nat
  BY UsedLines DEF SeatedRows
<1>2. LinesAfterRemoval(r) = new
  BY <1>1 DEF LinesAfterRemoval
<1>3. /\ rest \in Seq(Rows) /\ Len(rest) = n
      /\ \A q \in 1 .. n :
           /\ q < r => rest[q].id = q - 1
           /\ q >= r => rest[q].id = q
  BY RestOfRows
<1>4. /\ \A i \in LinesFrom(lines, r - 1) : r - 1 <= i /\ i < MaxPads /\ i \in Slots
      /\ \A i \in r - 1 .. Len(devices) - 1 : i \in LinesFrom(lines, r - 1)
  BY BehindRow
<1> HIDE DEF rest
(* The number i + 1 belongs to a row behind r, or to none.                 *)
<1>5. ASSUME NEW i \in Slots, i >= r - 1
      PROVE  FindById(rest, i + 1) # 0 <=> i < n
  <2>1. /\ FindById(rest, i + 1) \in 0 .. n
        /\ FindById(rest, i + 1) # 0 => rest[FindById(rest, i + 1)].id = i + 1
        /\ FindById(rest, i + 1) = 0 => \A k \in 1 .. n : rest[k].id # i + 1
    BY <1>3, RowWithId
  <2>2. i \in Nat
    BY Bounds
  <2>3. ASSUME i < n PROVE FindById(rest, i + 1) # 0
    <3>1. i + 1 \in 1 .. n /\ i + 1 >= r
      BY <1>1, <1>5, <2>2, <2>3
    <3>2. rest[i + 1].id = i + 1
      BY <1>3, <3>1
    <3>3. QED
      BY <2>1, <3>1, <3>2
  <2>4. ASSUME FindById(rest, i + 1) # 0 PROVE i < n
    <3> DEFINE k == FindById(rest, i + 1)
    <3> HIDE DEF k
    <3>1. k \in 1 .. n /\ rest[k].id = i + 1
      BY <1>1, <2>1, <2>4 DEF k
    <3>2. CASE k < r
      <4>1. rest[k].id = k - 1
        BY <1>3, <3>1, <3>2
      <4>2. FALSE
        BY <1>1, <1>5, <2>2, <3>1, <3>2, <4>1
      <4>3. QED
        BY <4>2
    <3>3. CASE k >= r
      <4>1. rest[k].id = k
        BY <1>3, <3>1, <3>3
      <4>2. QED
        BY <1>1, <2>2, <3>1, <4>1
    <3>4. QED
      BY <1>1, <3>1, <3>2, <3>3
  <2>5. QED
    BY <2>3, <2>4
<1>6. ASSUME NEW i \in Slots
      PROVE  /\ i < r - 1 => new[i] = lines[i]
             /\ i >= r - 1 /\ i < n => new[i] = lines[i + 1]
             /\ i >= n /\ i \in LinesFrom(lines, r - 1) => new[i] = NoLine
             /\ i \notin LinesFrom(lines, r - 1) => new[i] = lines[i]
  <2>1. i \in Nat /\ MaxPads \in Nat
    BY Bounds
  <2>2. ASSUME i \notin LinesFrom(lines, r - 1) PROVE new[i] = lines[i]
    BY <2>2
  <2>3. ASSUME i < r - 1 PROVE new[i] = lines[i]
    <3>1. i \notin LinesFrom(lines, r - 1)
      BY <1>1, <1>4, <2>1, <2>3
    <3>2. QED
      BY <2>2, <3>1
  <2>4. ASSUME i >= r - 1, i < n PROVE new[i] = lines[i + 1]
    <3>1. i \in LinesFrom(lines, r - 1) /\ i # MaxPads - 1
      BY <1>1, <1>4, <2>1, <2>4
    <3>2. FindById(rest, i + 1) # 0
      BY <1>5, <2>4
    <3>3. QED
      BY <3>1, <3>2
  <2>5. ASSUME i >= n, i \in LinesFrom(lines, r - 1) PROVE new[i] = NoLine
    <3>1. i >= r - 1 /\ ~ (i < n)
      BY <1>1, <1>4, <2>1, <2>5
    <3>2. FindById(rest, i + 1) = 0
      BY <1>5, <3>1
    <3>3. QED
      BY <2>5, <3>2
  <2> HIDE DEF new
  <2>6. QED
    BY <2>2, <2>3, <2>4, <2>5
<1>7. new \in [Slots -> Lines]
  <2>1. ASSUME NEW i \in Slots PROVE new[i] \in Lines
    <3>1. CASE i \notin LinesFrom(lines, r - 1)
      BY <1>1, <1>6, <3>1
    <3>2. CASE i \in LinesFrom(lines, r - 1) /\ i < n
      <4>1. i >= r - 1 /\ i + 1 \in 0 .. Len(devices) - 1
        BY <1>1, <1>4, <3>2, Bounds
      <4>2. QED
        BY <1>1, <1>6, <3>2, <4>1
    <3>3. CASE i \in LinesFrom(lines, r - 1) /\ i >= n
      BY <1>6, <3>3 DEF Lines
    <3>4. QED
      BY <1>1, <3>1, <3>2, <3>3, Bounds
  <2>2. QED
    BY <2>1
<1> HIDE DEF new
<1>8. ASSUME NEW q \in 1 .. n
      PROVE  /\ q < r => new[q - 1] = lines[q - 1]
             /\ q >= r => new[q - 1] = lines[q]
  <2>1. q - 1 \in 0 .. Len(devices) - 1 /\ (q - 1) + 1 = q /\ q - 1 < n
    BY <1>1
  <2>2. q - 1 \in Slots
    BY <1>1, <2>1
  <2>3. q < r => q - 1 < r - 1
    BY <1>1
  <2>4. q >= r => q - 1 >= r - 1
    BY <1>1
  <2>5. QED
    BY <1>6, <2>1, <2>2, <2>3, <2>4
<1>9. ASSUME \A i \in Len(devices) .. MaxPads - 1 : lines[i] = NoLine,
             NEW i \in n .. MaxPads - 1
      PROVE  new[i] = NoLine
  <2>1. i \in Slots
    BY <1>1, Bounds DEF Slots
  <2>2. CASE i \in LinesFrom(lines, r - 1)
    BY <1>6, <2>1, <2>2
  <2>3. CASE i \notin LinesFrom(lines, r - 1)
    <3>1. i \in Len(devices) .. MaxPads - 1
      BY <1>1, <1>4, <2>3, Bounds
    <3>2. QED
      BY <1>6, <1>9, <2>1, <2>3, <3>1
  <2>4. QED
    BY <2>2, <2>3
<1>10. QED
  BY <1>2, <1>7, <1>8, <1>9 DEF n

-----------------------------------------------------------------------------
(* The invariant holds at the start.                                       *)
LEMMA NoMapFacts ==
  DOMAIN NoMap = {} /\ NoMap \in [{} -> Indexes] /\ ToSet(NoMap) = {}
BY DEF NoMap, ToSet

LEMMA InitInv == Init => IInv
<1> SUFFICES ASSUME Init PROVE IInv
  OBVIOUS
<1>1. /\ sdl = <<>> /\ removals = <<>> /\ additions = <<>> /\ devices = <<>>
      /\ iid_to_idx = NoMap /\ idx_to_iid = NoMap
      /\ lines \in Leftovers
      /\ recording = -1 /\ chosen = NoDevice /\ overlap = 0 /\ restarts = 0
      /\ ~ moved /\ ~ refused
  BY DEF Init
<1>2. lines \in [Slots -> Lines] /\ NoGaps(lines)
  BY <1>1, LeftoversAssumption
<1>3. TypeOK
  <2>1. moved \in BOOLEAN /\ refused \in BOOLEAN
    BY DEF Init
  <2>2. restarts \in 0 .. MaxRestarts /\ overlap \in 0 .. 2
    BY <1>1, BoundsAssumption
  <2>3. QED
    BY <1>1, <1>2, <2>1, <2>2, NoMapFacts DEF TypeOK
<1>4. Queues
  BY <1>1, Bounds DEF Queues, Mapped
<1>5. Seated = {}
  BY <1>1 DEF Seated
<1>6. Known = {} /\ iid_to_idx \in [Known -> Indexes]
  BY <1>1, NoMapFacts DEF Known
<1>7. Seats
  BY <1>1, <1>5, <1>6, Bounds DEF Seats, Mapped
<1>8. Order /\ Pair
  BY <1>1 DEF Order, Mapped, Pair
<1>9. Numbered(devices, lines) /\ Tables
  BY <1>1, <1>2 DEF Numbered, Tables, Indexed, Ended
<1>10. Inverses
  BY <1>1, NoMapFacts DEF Inverses, MapsMatch
<1>11. RecordsChosenPad
  BY <1>1 DEF RecordsChosenPad
<1>12. QED
  BY <1>3, <1>4, <1>7, <1>8, <1>9, <1>10, <1>11 DEF IInv

-----------------------------------------------------------------------------
(* What the invariant says while no controller was refused.                *)
LEMMA Facts ==
  ASSUME IInv, ~ refused
  PROVE  /\ Len(sdl) \in Nat /\ Len(additions) \in Nat /\ Len(removals) \in Nat
         /\ Mapped \in Nat /\ Mapped <= Len(sdl) /\ Len(devices) \in Nat
         /\ \A p \in 1 .. Len(sdl) : sdl[p] \in Devices
         /\ \A q \in 1 .. Len(removals) : removals[q] \in Devices
         /\ \A p \in 1 .. Mapped : sdl[p] \in Known
         /\ \A q \in 1 .. Len(removals) : removals[q] \in Known
         /\ \A p \in Mapped + 1 .. Len(sdl) : sdl[p] \notin Known
         /\ Known \subseteq Devices
         /\ \A d \in Known : iid_to_idx[d] \in Indexes
         /\ \A r \in 1 .. Len(devices) : devices[r].iid \in Known
         /\ SeatedRows
<1>1. Len(sdl) \in Nat /\ Len(additions) \in Nat /\ Len(removals) \in Nat /\ Len(devices) \in Nat
  BY LenProperties DEF IInv, TypeOK
<1>2. Mapped \in Nat /\ Mapped <= Len(sdl)
  BY <1>1 DEF IInv, Queues, Mapped
<1>3. /\ \A p \in 1 .. Len(sdl) : sdl[p] \in Devices
      /\ \A q \in 1 .. Len(removals) : removals[q] \in Devices
  BY ElementOfSeq DEF IInv, TypeOK
<1>4. Known \subseteq Devices
  BY DEF IInv, TypeOK, Known
<1>5. \A p \in 1 .. Mapped : p \in 1 .. Len(sdl)
  BY <1>1, <1>2
<1>6. /\ \A p \in 1 .. Mapped : sdl[p] \in Known
      /\ \A q \in 1 .. Len(removals) : removals[q] \in Known
  BY <1>3, <1>5 DEF IInv, Seats
<1>7. ASSUME NEW p \in Mapped + 1 .. Len(sdl) PROVE sdl[p] \notin Known
  <2>1. p \in 1 .. Len(sdl) /\ \A q \in 1 .. Mapped : q # p
    BY <1>1, <1>2
  <2>2. \A q \in 1 .. Mapped : sdl[p] # sdl[q]
    BY <1>5, <2>1 DEF IInv, Queues
  <2>3. \A q \in 1 .. Len(removals) : sdl[p] # removals[q]
    BY <2>1 DEF IInv, Queues
  <2>4. QED
    BY <1>3, <2>1, <2>2, <2>3 DEF IInv, Seats
<1>8. \A d \in Known : iid_to_idx[d] \in Indexes
  BY DEF IInv, Seats
<1>9. ASSUME NEW r \in 1 .. Len(devices) PROVE devices[r].iid \in Known
  <2>1. devices[r].iid \in Seated
    BY LenProperties DEF Seated, IInv, TypeOK
  <2>2. QED
    BY <2>1 DEF IInv, Seats
<1>10. SeatedRows
  <2>1. Len(devices) <= MaxPads
    <3>1. Len(devices) <= MaxPlugged
      BY DEF IInv, Seats
    <3>2. QED
      BY <1>1, <3>1, Bounds
  <2>2. QED
    BY <1>4, <1>9, <2>1 DEF SeatedRows, IInv, TypeOK
<1>11. QED
  BY <1>1, <1>2, <1>3, <1>4, <1>6, <1>7, <1>8, <1>9, <1>10

(* A device behind the ones that were added does not concern the seats.    *)
LEMMA SameSeats ==
  ASSUME IInv, ~ refused, Mapped' = Mapped,
         \A p \in 1 .. Mapped : sdl'[p] = sdl[p],
         UNCHANGED <<removals, maps, devices, lines, recVars, history>>
  PROVE  /\ Seats' /\ Order' /\ Pair' /\ Numbered(devices, lines)'
         /\ Tables' /\ Inverses' /\ RecordsChosenPad' /\ ~ refused'
<1>1. UNCHANGED <<removals, iid_to_idx, idx_to_iid, devices, lines>>
      /\ UNCHANGED <<recording, chosen, overlap>> /\ (moved' <=> moved) /\ (refused' <=> refused)
  BY DEF maps, recVars, history
<1>2. Known' = Known /\ Seated' = Seated
  BY <1>1 DEF Known, Seated
<1>3. Seats'
  <2>1. iid_to_idx' \in [Known' -> Indexes]
    BY <1>1, <1>2 DEF IInv, Seats
  <2>2. \A d \in Devices :
          d \in Known' <=> \/ \E p \in 1 .. Mapped' : d = sdl'[p]
                           \/ \E q \in 1 .. Len(removals') : d = removals'[q]
    BY <1>1, <1>2 DEF IInv, Seats
  <2>3. QED
    BY <1>1, <1>2, <2>1, <2>2 DEF IInv, Seats
<1>4. Order'
  BY <1>1 DEF IInv, Order
<1>5. Pair'
  BY <1>1 DEF IInv, Pair
<1>6. Numbered(devices, lines)' /\ Tables' /\ Inverses'
  BY <1>1 DEF IInv, Numbered, Tables, Indexed, NoGaps, Ended, Inverses, MapsMatch
<1>7. RecordsChosenPad' /\ ~ refused'
  BY <1>1 DEF IInv, RecordsChosenPad
<1>8. QED
  BY <1>3, <1>4, <1>5, <1>6, <1>7

LEMMA PlugFacts ==
  ASSUME IInv, ~ refused, NEW d \in Devices, Plug(d)
  PROVE  /\ Len(sdl) < MaxPlugged /\ sdl' = Append(sdl, d)
         /\ additions' = Append(additions, Len(sdl))
         /\ UNCHANGED <<removals, maps, devices, lines, recVars, history, restarts>>
         /\ \A p \in 1 .. Len(sdl) : sdl[p] # d
         /\ \A q \in 1 .. Len(removals) : removals[q] # d
<1> DEFINE free == Devices \ (ToSet(sdl) \cup ToSet(removals)
                              \cup DOMAIN iid_to_idx \cup Seated)
<1>1. free # {} /\ d = Min(free) /\ free \in SUBSET Nat
  BY DevicesAssumption DEF Plug
<1>2. d \in free
  <2> HIDE DEF free
  <2>1. \E x \in free : \A y \in free : x <= y
    BY <1>1, Least
  <2>2. QED
    BY <1>1, <2>1 DEF Min
<1>3. DOMAIN sdl = 1 .. Len(sdl) /\ DOMAIN removals = 1 .. Len(removals)
  BY LenProperties DEF IInv, TypeOK
<1>4. QED
  BY <1>2, <1>3 DEF Plug, ToSet

LEMMA PlugInv ==
  ASSUME IInv, ~ refused, NEW d \in Devices, Plug(d)
  PROVE  IInv'
<1>1. /\ Len(sdl) < MaxPlugged /\ sdl' = Append(sdl, d)
      /\ additions' = Append(additions, Len(sdl))
      /\ UNCHANGED <<removals, maps, devices, lines, recVars, history, restarts>>
      /\ \A p \in 1 .. Len(sdl) : sdl[p] # d
      /\ \A q \in 1 .. Len(removals) : removals[q] # d
  BY PlugFacts
<1>2. /\ Len(sdl) \in Nat /\ Len(additions) \in Nat /\ Mapped \in Nat /\ Mapped <= Len(sdl)
      /\ sdl \in Seq(Devices) /\ additions \in Seq(Indexes)
  BY Facts DEF IInv, TypeOK
<1>3. Len(sdl) \in Indexes
  BY <1>1, <1>2, Bounds DEF Indexes
<1>4. /\ sdl' \in Seq(Devices) /\ Len(sdl') = Len(sdl) + 1 /\ sdl'[Len(sdl) + 1] = d
      /\ \A p \in 1 .. Len(sdl) : sdl'[p] = sdl[p]
  BY <1>1, <1>2, AppendProperties
<1>5. /\ additions' \in Seq(Indexes) /\ Len(additions') = Len(additions) + 1
      /\ additions'[Len(additions) + 1] = Len(sdl)
      /\ \A i \in 1 .. Len(additions) : additions'[i] = additions[i]
  BY <1>1, <1>2, <1>3, AppendProperties
<1>6. Mapped' = Mapped
  BY <1>2, <1>4, <1>5 DEF Mapped
<1>7. \A p \in 1 .. Mapped : sdl'[p] = sdl[p]
  BY <1>2, <1>4
<1>8. /\ Seats' /\ Order' /\ Pair' /\ Numbered(devices, lines)'
      /\ Tables' /\ Inverses' /\ RecordsChosenPad' /\ ~ refused'
  BY <1>1, <1>6, <1>7, SameSeats
<1>9. Queues'
  <2>1. Len(sdl') <= MaxPlugged /\ Len(additions') <= Len(sdl')
    BY <1>1, <1>2, <1>4, <1>5, Bounds DEF IInv, Queues
  <2>2. \A p \in 1 .. Len(sdl') : p \in 1 .. Len(sdl) \/ p = Len(sdl) + 1
    BY <1>2, <1>4
  <2>3. \A p, q \in 1 .. Len(sdl') : sdl'[p] = sdl'[q] => p = q
    BY <1>1, <1>4, <2>2 DEF IInv, Queues
  <2>4. \A p, q \in 1 .. Len(removals') : removals'[p] = removals'[q] => p = q
    BY <1>1 DEF IInv, Queues
  <2>5. \A p \in 1 .. Len(sdl'), q \in 1 .. Len(removals') : sdl'[p] # removals'[q]
    BY <1>1, <1>4, <2>2 DEF IInv, Queues
  <2>6. ASSUME NEW i \in 1 .. Len(additions') PROVE additions'[i] = Mapped' + i - 1
    <3>1. CASE i = Len(additions) + 1
      BY <1>2, <1>5, <1>6, <3>1 DEF Mapped
    <3>2. CASE i # Len(additions) + 1
      <4>1. i \in 1 .. Len(additions)
        BY <1>2, <1>5, <3>2
      <4>2. QED
        BY <1>5, <1>6, <4>1 DEF IInv, Queues
    <3>3. QED
      BY <3>1, <3>2
  <2>7. QED
    BY <2>1, <2>3, <2>4, <2>5, <2>6 DEF Queues
<1>10. TypeOK'
  BY <1>1, <1>4, <1>5 DEF IInv, TypeOK, maps, recVars, history
<1>11. QED
  BY <1>8, <1>9, <1>10 DEF IInv

-----------------------------------------------------------------------------
(* The queued additions are renumbered with the devices of SDL.            *)
LEMMA UnplugQueues ==
  ASSUME IInv, ~ refused, NEW p \in DOMAIN sdl, Unplug(p)
  PROVE  /\ p \in 1 .. Len(sdl)
         /\ sdl' \in Seq(Devices) /\ Len(sdl') = Len(sdl) - 1
         /\ \A q \in 1 .. Len(sdl) - 1 :
              /\ q < p => sdl'[q] = sdl[q]
              /\ q >= p => sdl'[q] = sdl[q + 1]
         /\ additions' \in Seq(Indexes) /\ Len(additions') <= Len(sdl')
         /\ Mapped' = IF p <= Mapped THEN Mapped - 1 ELSE Mapped
         /\ \A i \in 1 .. Len(additions') : additions'[i] = Mapped' + i - 1
<1>1. /\ Len(sdl) \in Nat /\ Len(additions) \in Nat /\ Mapped \in Nat /\ Mapped <= Len(sdl)
      /\ sdl \in Seq(Devices) /\ additions \in Seq(Indexes) /\ Len(sdl) <= MaxPlugged
      /\ Mapped = Len(sdl) - Len(additions)
      /\ \A i \in 1 .. Len(additions) : additions[i] = Mapped + i - 1
  BY Facts DEF IInv, TypeOK, Queues, Mapped
<1>2. p \in 1 .. Len(sdl)
  BY <1>1, LenProperties
<1>3. sdl' = RemoveAt(sdl, p)
  BY DEF Unplug
<1>4. /\ RemoveAt(sdl, p) \in Seq(Devices) /\ Len(RemoveAt(sdl, p)) = Len(sdl) - 1
      /\ \A q \in 1 .. Len(sdl) - 1 :
           RemoveAt(sdl, p)[q] = IF q < p THEN sdl[q] ELSE sdl[q + 1]
  BY <1>1, <1>2, RemovedAt
<1>5. /\ sdl' \in Seq(Devices) /\ Len(sdl') = Len(sdl) - 1
      /\ \A q \in 1 .. Len(sdl) - 1 :
           /\ q < p => sdl'[q] = sdl[q]
           /\ q >= p => sdl'[q] = sdl[q + 1]
  <2>1. ASSUME NEW q \in 1 .. Len(sdl) - 1
        PROVE  /\ q < p => sdl'[q] = sdl[q]
               /\ q >= p => sdl'[q] = sdl[q + 1]
    <3>1. sdl'[q] = IF q < p THEN sdl[q] ELSE sdl[q + 1]
      BY <1>3, <1>4
    <3>2. q >= p => ~ (q < p)
      BY <1>2
    <3>3. QED
      BY <3>1, <3>2
  <2>2. QED
    BY <1>3, <1>4, <2>1
<1> DEFINE k == SelectInSeq(additions, LAMBDA i : i = p - 1)
           others == IF k = 0 THEN additions ELSE RemoveAt(additions, k)
<1>6. additions' = [i \in DOMAIN others |->
                      IF others[i] > p - 1 THEN others[i] - 1 ELSE others[i]]
  BY DEF Unplug
<1>7. /\ k \in 0 .. Len(additions) /\ (k # 0 => additions[k] = p - 1)
      /\ k = 0 => \A q \in 1 .. Len(additions) : additions[q] # p - 1
  BY <1>1, PositionOf
<1> HIDE DEF k
<1>8. CASE p <= Mapped
  <2>1. k = 0
    <3> SUFFICES ASSUME k # 0 PROVE FALSE
      OBVIOUS
    <3>1. k \in 1 .. Len(additions) /\ additions[k] = p - 1
      BY <1>1, <1>7
    <3>2. p - 1 = Mapped + k - 1
      BY <1>1, <3>1
    <3>3. QED
      BY <1>1, <1>2, <1>8, <3>1, <3>2
  <2>2. others = additions /\ DOMAIN additions = 1 .. Len(additions)
    BY <1>1, <2>1, LenProperties
  <2> HIDE DEF others
  <2>3. ASSUME NEW i \in 1 .. Len(additions)
        PROVE  additions'[i] = Mapped + i - 2 /\ additions'[i] \in Indexes
    <3>1. additions[i] = Mapped + i - 1
      BY <1>1
    <3>2. additions[i] > p - 1 /\ additions[i] - 1 = Mapped + i - 2
      BY <1>1, <1>2, <1>8, <3>1
    <3>3. additions'[i] = additions[i] - 1
      BY <1>6, <2>2, <3>2
    <3>4. Mapped + i - 2 \in Indexes
      BY <1>1, <1>2, <1>8, Bounds DEF Indexes
    <3>5. QED
      BY <3>2, <3>3, <3>4
  <2>4. additions' \in [1 .. Len(additions) -> Indexes]
    BY <1>6, <2>2, <2>3
  <2>5. additions' \in Seq(Indexes) /\ Len(additions') = Len(additions)
    BY <1>1, <2>4
  <2>6. Mapped' = Mapped - 1
    BY <1>1, <1>5, <2>5 DEF Mapped
  <2>7. Len(additions') <= Len(sdl')
    BY <1>1, <1>2, <1>5, <1>8, <2>5
  <2>8. ASSUME NEW i \in 1 .. Len(additions') PROVE additions'[i] = Mapped' + i - 1
    BY <1>1, <2>3, <2>5, <2>6
  <2>9. QED
    BY <1>2, <1>5, <1>8, <2>5, <2>6, <2>7, <2>8
<1>9. CASE p > Mapped
  <2>1. k = p - Mapped /\ k \in 1 .. Len(additions)
    <3> DEFINE i == p - Mapped
    <3>1. i \in 1 .. Len(additions) /\ Mapped + i - 1 = p - 1
      BY <1>1, <1>2, <1>9
    <3>2. additions[i] = p - 1
      BY <1>1, <3>1
    <3>3. k # 0
      BY <1>7, <3>1, <3>2
    <3>4. k \in 1 .. Len(additions) /\ additions[k] = p - 1
      BY <1>1, <1>7, <3>3
    <3>5. p - 1 = Mapped + k - 1
      BY <1>1, <3>4
    <3>6. QED
      BY <1>1, <1>2, <3>4, <3>5
  <2>2. others = RemoveAt(additions, k)
    BY <1>1, <2>1
  <2>3. /\ others \in Seq(Indexes) /\ Len(others) = Len(additions) - 1
        /\ \A j \in 1 .. Len(additions) - 1 :
             others[j] = IF j < k THEN additions[j] ELSE additions[j + 1]
    BY <1>1, <2>1, <2>2, RemovedAt
  <2> HIDE DEF others
  <2>4. DOMAIN others = 1 .. Len(additions) - 1 /\ Len(additions) - 1 \in Nat
    BY <1>1, <2>1, <2>3, LenProperties
  <2>5. ASSUME NEW i \in 1 .. Len(additions) - 1
        PROVE  additions'[i] = Mapped + i - 1 /\ additions'[i] \in Indexes
    <3>1. i \in 1 .. Len(additions) /\ i + 1 \in 1 .. Len(additions)
      BY <1>1
    <3>2. additions[i] = Mapped + i - 1 /\ additions[i + 1] = Mapped + i
      BY <1>1, <3>1
    <3>3. additions'[i] = IF others[i] > p - 1 THEN others[i] - 1 ELSE others[i]
      BY <1>6, <2>4
    <3>4. additions'[i] = Mapped + i - 1
      <4>1. CASE i < k
        <5>1. others[i] = Mapped + i - 1 /\ ~ (others[i] > p - 1)
          BY <1>1, <1>2, <2>1, <2>3, <3>2, <4>1
        <5>2. QED
          BY <3>3, <5>1
      <4>2. CASE ~ (i < k)
        <5>1. others[i] = Mapped + i /\ others[i] > p - 1
          BY <1>1, <1>2, <2>1, <2>3, <3>2, <4>2
        <5>2. QED
          BY <1>1, <3>3, <5>1
      <4>3. QED
        BY <4>1, <4>2
    <3>5. Mapped + i - 1 \in Indexes
      BY <1>1, <3>1, Bounds DEF Indexes
    <3>6. QED
      BY <3>4, <3>5
  <2>6. additions' \in [1 .. Len(additions) - 1 -> Indexes]
    BY <1>6, <2>4, <2>5
  <2>7. additions' \in Seq(Indexes) /\ Len(additions') = Len(additions) - 1
    BY <2>4, <2>6
  <2>8. Mapped' = Mapped
    BY <1>1, <1>5, <2>7 DEF Mapped
  <2>9. Len(additions') <= Len(sdl') /\ ~ (p <= Mapped)
    BY <1>1, <1>2, <1>5, <1>9, <2>7
  <2>10. QED
    BY <1>2, <1>5, <2>5, <2>7, <2>8, <2>9
<1>10. QED
  BY <1>1, <1>2, <1>8, <1>9

(* SDL stays without repetitions; the one that leaves is queued or gone.   *)
LEMMA UnplugDistinct ==
  ASSUME IInv, ~ refused, NEW p \in DOMAIN sdl, Unplug(p)
  PROVE  /\ \A q, k \in 1 .. Len(sdl') : sdl'[q] = sdl'[k] => q = k
         /\ \A q \in 1 .. Len(sdl') : sdl'[q] # sdl[p]
         /\ \A q \in 1 .. Len(sdl'), k \in 1 .. Len(removals) : sdl'[q] # removals[k]
         /\ \A q \in 1 .. Len(sdl') : \E k \in 1 .. Len(sdl) : sdl'[q] = sdl[k]
<1>1. /\ p \in 1 .. Len(sdl)
      /\ Len(sdl') = Len(sdl) - 1
      /\ \A q \in 1 .. Len(sdl) - 1 :
           /\ q < p => sdl'[q] = sdl[q]
           /\ q >= p => sdl'[q] = sdl[q + 1]
      /\ Len(sdl) \in Nat
  BY UnplugQueues, Facts
<1> DEFINE old(q) == IF q < p THEN q ELSE q + 1
<1>2. ASSUME NEW q \in 1 .. Len(sdl')
      PROVE  old(q) \in 1 .. Len(sdl) /\ sdl'[q] = sdl[old(q)] /\ old(q) # p
  <2>1. CASE q < p
    BY <1>1, <2>1
  <2>2. CASE ~ (q < p)
    <3>1. q >= p /\ q \in 1 .. Len(sdl) - 1
      BY <1>1, <2>2
    <3>2. QED
      BY <1>1, <2>2, <3>1
  <2>3. QED
    BY <2>1, <2>2
<1>3. ASSUME NEW q \in 1 .. Len(sdl'), NEW k \in 1 .. Len(sdl'), old(q) = old(k)
      PROVE  q = k
  <2>1. q \in Int /\ k \in Int /\ p \in Int
    BY <1>1
  <2>2. CASE q < p
    BY <1>3, <2>1, <2>2
  <2>3. CASE ~ (q < p)
    BY <1>3, <2>1, <2>3
  <2>4. QED
    BY <2>2, <2>3
<1> HIDE DEF old
<1>4. ASSUME NEW q \in 1 .. Len(sdl'), NEW k \in 1 .. Len(sdl'), sdl'[q] = sdl'[k]
      PROVE  q = k
  <2>1. sdl[old(q)] = sdl[old(k)]
    BY <1>2, <1>4
  <2>2. old(q) = old(k)
    BY <1>2, <2>1 DEF IInv, Queues
  <2>3. QED
    BY <1>3, <2>2
<1>5. \A q \in 1 .. Len(sdl') : sdl'[q] # sdl[p]
  BY <1>1, <1>2 DEF IInv, Queues
<1>6. \A q \in 1 .. Len(sdl'), k \in 1 .. Len(removals) : sdl'[q] # removals[k]
  BY <1>2 DEF IInv, Queues
<1>7. QED
  BY <1>2, <1>4, <1>5, <1>6

(* A device that was not added yet leaves no trace.                        *)
LEMMA UnplugWaiting ==
  ASSUME IInv, ~ refused, NEW p \in DOMAIN sdl, Unplug(p), p > Mapped
  PROVE  IInv'
<1>1. /\ p \in 1 .. Len(sdl)
      /\ sdl' \in Seq(Devices) /\ Len(sdl') = Len(sdl) - 1
      /\ \A q \in 1 .. Len(sdl) - 1 : q < p => sdl'[q] = sdl[q]
      /\ additions' \in Seq(Indexes) /\ Len(additions') <= Len(sdl')
      /\ Mapped' = IF p <= Mapped THEN Mapped - 1 ELSE Mapped
      /\ \A i \in 1 .. Len(additions') : additions'[i] = Mapped' + i - 1
  BY UnplugQueues
<1>2. /\ Len(sdl) \in Nat /\ Mapped \in Nat /\ Len(sdl) <= MaxPlugged
      /\ \A q \in Mapped + 1 .. Len(sdl) : sdl[q] \notin Known
  BY Facts DEF IInv, Queues
<1>3. sdl[p] \notin Known
  BY <1>1, <1>2
<1>4. UNCHANGED <<removals, maps, devices, lines, recVars, history, restarts>>
  BY <1>3 DEF Unplug, Known, history
<1>5. Mapped' = Mapped /\ \A q \in 1 .. Mapped : sdl'[q] = sdl[q]
  <2>1. p \in Nat /\ Mapped < p /\ ~ (p <= Mapped)
    BY <1>1, <1>2
  <2>2. Mapped' = Mapped
    BY <1>1, <2>1
  <2>3. \A q \in 1 .. Mapped : q \in 1 .. Len(sdl) - 1 /\ q < p
    BY <1>1, <1>2, <2>1
  <2>4. \A q \in 1 .. Mapped : sdl'[q] = sdl[q]
    BY <1>1, <2>3
  <2>5. QED
    BY <2>2, <2>4
<1>6. /\ Seats' /\ Order' /\ Pair' /\ Numbered(devices, lines)'
      /\ Tables' /\ Inverses' /\ RecordsChosenPad' /\ ~ refused'
  BY <1>4, <1>5, SameSeats
<1>7. Queues'
  <2>1. Len(sdl') <= MaxPlugged
    BY <1>1, <1>2, Bounds
  <2>2. removals' = removals
    BY <1>4
  <2>3. \A q, k \in 1 .. Len(removals) : removals[q] = removals[k] => q = k
    BY DEF IInv, Queues
  <2>4. QED
    BY <1>1, <2>1, <2>2, <2>3, UnplugDistinct DEF Queues
<1>8. TypeOK'
  BY <1>1, <1>4 DEF IInv, TypeOK, maps, recVars, history
<1>9. QED
  BY <1>6, <1>7, <1>8 DEF IInv

(* The removal of an added one is queued; its seat stays until then.       *)
LEMMA UnplugSeated ==
  ASSUME IInv, ~ refused, NEW p \in DOMAIN sdl, Unplug(p), p <= Mapped
  PROVE  IInv'
<1>1. /\ p \in 1 .. Len(sdl)
      /\ sdl' \in Seq(Devices) /\ Len(sdl') = Len(sdl) - 1
      /\ \A q \in 1 .. Len(sdl) - 1 :
           /\ q < p => sdl'[q] = sdl[q]
           /\ q >= p => sdl'[q] = sdl[q + 1]
      /\ additions' \in Seq(Indexes) /\ Len(additions') <= Len(sdl')
      /\ Mapped' = IF p <= Mapped THEN Mapped - 1 ELSE Mapped
      /\ \A i \in 1 .. Len(additions') : additions'[i] = Mapped' + i - 1
  BY UnplugQueues
<1>2. /\ Len(sdl) \in Nat /\ Len(removals) \in Nat /\ Len(devices) \in Nat
      /\ Mapped \in Nat /\ Mapped <= Len(sdl) /\ Len(sdl) <= MaxPlugged
      /\ \A q \in 1 .. Mapped : sdl[q] \in Known
      /\ \A d \in Known : iid_to_idx[d] \in Indexes
      /\ Known \subseteq Devices
  BY Facts DEF IInv, Queues
<1>3. p \in 1 .. Mapped /\ Mapped' = Mapped - 1
  BY <1>1, <1>2
<1>4. sdl[p] \in Known /\ sdl[p] \in Devices
  BY <1>2, <1>3
<1>5. /\ removals' = Append(removals, sdl[p])
      /\ UNCHANGED <<iid_to_idx, idx_to_iid, devices, lines>>
      /\ UNCHANGED <<recording, chosen, restarts>>
      /\ (moved' <=> moved) /\ (refused' <=> refused)
  BY <1>4 DEF Unplug, Known, maps, recVars
<1>6. /\ removals' \in Seq(Devices) /\ Len(removals') = Len(removals) + 1
      /\ removals'[Len(removals) + 1] = sdl[p]
      /\ \A q \in 1 .. Len(removals) : removals'[q] = removals[q]
  BY <1>4, <1>5, AppendProperties DEF IInv, TypeOK
<1>7. Known' = Known /\ Seated' = Seated
  BY <1>5 DEF Known, Seated
<1>8. \A q \in 1 .. Len(removals') : q \in 1 .. Len(removals) \/ q = Len(removals) + 1
  BY <1>2, <1>6
<1>9. /\ overlap' = IF Len(removals) > overlap
                    THEN (IF Len(removals) > 2 THEN 2 ELSE Len(removals)) ELSE overlap
      /\ overlap \in 0 .. 2
  BY <1>4 DEF Unplug, Known, IInv, TypeOK
<1>10. /\ overlap' \in 0 .. 2 /\ overlap <= overlap'
       /\ overlap' < 2 => overlap < 2 /\ Len(removals) < 2
       /\ overlap' = 0 => overlap = 0 /\ Len(removals) = 0
  <2>1. CASE Len(removals) > overlap /\ Len(removals) > 2
    <3>1. overlap' = 2
      BY <1>9, <2>1
    <3>2. QED
      BY <1>9, <3>1
  <2>2. CASE Len(removals) > overlap /\ Len(removals) <= 2
    <3>1. overlap' = Len(removals)
      BY <1>2, <1>9, <2>2
    <3>2. QED
      BY <1>2, <1>9, <2>2, <3>1
  <2>3. CASE Len(removals) <= overlap
    <3>1. overlap' = overlap
      BY <1>2, <1>9, <2>3
    <3>2. QED
      BY <1>2, <1>9, <2>3, <3>1
  <2>4. QED
    BY <1>2, <1>9, <2>1, <2>2, <2>3
<1>11. Queues'
  <2>1. Len(sdl') <= MaxPlugged
    BY <1>1, <1>2, Bounds
  <2>2. \A q, k \in 1 .. Len(removals) : removals[q] = removals[k] => q = k
    BY DEF IInv, Queues
  <2>3. \A q \in 1 .. Len(removals) : sdl[p] # removals[q]
    BY <1>1 DEF IInv, Queues
  <2>4. \A q, k \in 1 .. Len(removals') : removals'[q] = removals'[k] => q = k
    BY <1>6, <1>8, <2>2, <2>3
  <2>5. \A q \in 1 .. Len(sdl'), k \in 1 .. Len(removals') : sdl'[q] # removals'[k]
    BY <1>6, <1>8, UnplugDistinct
  <2>6. \A q, k \in 1 .. Len(sdl') : sdl'[q] = sdl'[k] => q = k
    BY UnplugDistinct
  <2>7. QED
    BY <1>1, <2>1, <2>4, <2>5, <2>6 DEF Queues
<1>12. ASSUME NEW q \in 1 .. Mapped'
       PROVE  /\ q \in 1 .. Mapped /\ q + 1 \in 1 .. Mapped
              /\ q < p => sdl'[q] = sdl[q]
              /\ q >= p => sdl'[q] = sdl[q + 1]
  <2>1. q \in 1 .. Len(sdl) - 1 /\ q \in 1 .. Mapped /\ q + 1 \in 1 .. Mapped
    BY <1>2, <1>3
  <2>2. QED
    BY <1>1, <2>1
<1>13. Seats'
  <2>1. iid_to_idx' \in [Known' -> Indexes]
    BY <1>5, <1>7 DEF IInv, Seats
  <2>2. ASSUME NEW d \in Devices
        PROVE  d \in Known' <=> \/ \E q \in 1 .. Mapped' : d = sdl'[q]
                                \/ \E q \in 1 .. Len(removals') : d = removals'[q]
    <3>1. d \in Known <=> \/ \E q \in 1 .. Mapped : d = sdl[q]
                          \/ \E q \in 1 .. Len(removals) : d = removals[q]
      BY DEF IInv, Seats
    <3>2. ASSUME d \in Known
          PROVE  \/ \E q \in 1 .. Mapped' : d = sdl'[q]
                 \/ \E q \in 1 .. Len(removals') : d = removals'[q]
      <4>1. CASE \E q \in 1 .. Len(removals) : d = removals[q]
        <5>1. PICK q \in 1 .. Len(removals) : d = removals[q]
          BY <4>1
        <5>2. q \in 1 .. Len(removals') /\ d = removals'[q]
          BY <1>2, <1>6, <5>1
        <5>3. QED
          BY <5>2
      <4>2. CASE \E q \in 1 .. Mapped : d = sdl[q]
        <5>1. PICK q \in 1 .. Mapped : d = sdl[q]
          BY <4>2
        <5>2. CASE q < p
          <6>1. q \in 1 .. Mapped'
            BY <1>2, <1>3, <5>1, <5>2
          <6>2. sdl'[q] = sdl[q]
            BY <1>12, <5>2, <6>1
          <6>3. QED
            BY <5>1, <6>1, <6>2
        <5>3. CASE q = p
          <6>1. Len(removals) + 1 \in 1 .. Len(removals')
            BY <1>2, <1>6
          <6>2. QED
            BY <1>6, <5>1, <5>3, <6>1
        <5>4. CASE q > p
          <6>1. q - 1 \in 1 .. Mapped' /\ q - 1 >= p /\ (q - 1) + 1 = q
                /\ q - 1 \in 1 .. Len(sdl) - 1
            BY <1>1, <1>2, <1>3, <5>1, <5>4
          <6>2. sdl'[q - 1] = sdl[q]
            BY <1>1, <6>1
          <6>3. QED
            BY <5>1, <6>1, <6>2
        <5>5. QED
          BY <1>1, <5>2, <5>3, <5>4
      <4>3. QED
        BY <3>1, <3>2, <4>1, <4>2
    <3>3. ASSUME \E q \in 1 .. Mapped' : d = sdl'[q] PROVE d \in Known
      <4>1. PICK q \in 1 .. Mapped' : d = sdl'[q]
        BY <3>3
      <4>2. \E k \in 1 .. Mapped : d = sdl[k]
        BY <1>1, <1>12, <4>1
      <4>3. QED
        BY <1>2, <4>2
    <3>4. ASSUME \E q \in 1 .. Len(removals') : d = removals'[q] PROVE d \in Known
      BY <1>4, <1>6, <1>8, <3>1, <3>4
    <3>5. QED
      BY <1>7, <3>2, <3>3, <3>4
  <2>3. Len(devices') = Mapped' + Len(removals')
    <3>1. Len(devices) = Mapped + Len(removals)
      BY DEF IInv, Seats
    <3>2. QED
      BY <1>2, <1>3, <1>5, <1>6, <3>1
  <2>4. QED
    BY <1>5, <1>7, <2>1, <2>2, <2>3 DEF IInv, Seats
<1>14. Order'
  <2>1. /\ \A q \in 1 .. Mapped : iid_to_idx[sdl[q]] >= q - 1 /\ iid_to_idx[sdl[q]] \in Int
        /\ \A q, k \in 1 .. Mapped : q < k => iid_to_idx[sdl[q]] < iid_to_idx[sdl[k]]
    BY <1>2, Bounds DEF IInv, Order, Indexes
  <2>2. ASSUME NEW q \in 1 .. Mapped' PROVE iid_to_idx'[sdl'[q]] >= q - 1
    <3>1. CASE q < p
      BY <1>5, <1>12, <2>1, <3>1
    <3>2. CASE q >= p
      <4>1. iid_to_idx'[sdl'[q]] = iid_to_idx[sdl[q + 1]]
        BY <1>5, <1>12, <3>2
      <4>2. iid_to_idx[sdl[q + 1]] >= (q + 1) - 1 /\ iid_to_idx[sdl[q + 1]] \in Int
        BY <1>12, <2>1
      <4>3. QED
        BY <4>1, <4>2
    <3>3. QED
      BY <1>1, <3>1, <3>2
  <2>3. ASSUME NEW q \in 1 .. Mapped', NEW k \in 1 .. Mapped', q < k
        PROVE  iid_to_idx'[sdl'[q]] < iid_to_idx'[sdl'[k]]
    <3>1. CASE k < p
      <4>1. q < p
        BY <1>1, <2>3, <3>1
      <4>2. sdl'[q] = sdl[q] /\ sdl'[k] = sdl[k]
        BY <1>12, <3>1, <4>1
      <4>3. QED
        BY <1>5, <1>12, <2>1, <2>3, <4>2
    <3>2. CASE q < p /\ k >= p
      <4>1. sdl'[q] = sdl[q] /\ sdl'[k] = sdl[k + 1] /\ q < k + 1
        BY <1>12, <2>3, <3>2
      <4>2. QED
        BY <1>5, <1>12, <2>1, <4>1
    <3>3. CASE q >= p
      <4>1. q \in Nat /\ k \in Nat /\ p \in Nat
        BY <1>1, <2>3
      <4>2. k >= p /\ q + 1 < k + 1
        BY <2>3, <3>3, <4>1
      <4>3. sdl'[q] = sdl[q + 1]
        BY <1>12, <3>3
      <4>4. sdl'[k] = sdl[k + 1]
        BY <1>12, <4>2
      <4>5. QED
        BY <1>5, <1>12, <2>1, <4>2, <4>3, <4>4
    <3>4. QED
      BY <1>1, <2>3, <3>1, <3>2, <3>3
  <2>4. removals' # <<>>
    BY <1>2, <1>6
  <2>5. QED
    BY <2>2, <2>3, <2>4 DEF Order
<1>15. Pair'
  <2> SUFFICES ASSUME overlap' < 2
               PROVE  /\ Len(removals') <= 2
                      /\ Len(removals') = 2 =>
                           \A q \in 1 .. Mapped' : iid_to_idx'[sdl'[q]] # iid_to_idx'[removals'[2]]
    BY DEF Pair
  <2>1. Len(removals') <= 2
    BY <1>2, <1>6, <1>10
  <2>2. ASSUME Len(removals') = 2, NEW q \in 1 .. Mapped'
        PROVE  iid_to_idx'[sdl'[q]] # iid_to_idx'[removals'[2]]
    <3>1. removals'[2] = sdl[p]
      BY <1>2, <1>6, <2>2
    <3>2. PICK k \in 1 .. Mapped : k # p /\ sdl'[q] = sdl[k]
      <4>1. CASE q < p
        BY <1>12, <4>1
      <4>2. CASE q >= p
        <5>1. q + 1 \in 1 .. Mapped /\ q + 1 # p /\ sdl'[q] = sdl[q + 1]
          BY <1>1, <1>12, <4>2
        <5>2. QED
          BY <5>1
      <4>3. QED
        BY <1>1, <4>1, <4>2
    <3>3. k < p \/ p < k
      BY <1>1, <3>2
    <3>4. iid_to_idx[sdl[k]] < iid_to_idx[sdl[p]] \/ iid_to_idx[sdl[p]] < iid_to_idx[sdl[k]]
      BY <1>3, <3>2, <3>3 DEF IInv, Order
    <3>5. iid_to_idx[sdl[k]] \in Int /\ iid_to_idx[sdl[p]] \in Int
      BY <1>2, <1>3, <3>2, Bounds DEF Indexes
    <3>6. QED
      BY <1>5, <3>1, <3>2, <3>4, <3>5
  <2>3. QED
    BY <2>1, <2>2
<1>16. Numbered(devices, lines)'
  BY <1>5 DEF IInv, Numbered
<1>17. Tables'
  BY <1>5, <1>10 DEF IInv, Tables, Indexed, NoGaps, Ended
<1>18. Inverses'
  <2>1. overlap' = 0 => Len(removals') <= 1
    BY <1>6, <1>10
  <2>2. QED
    BY <1>5, <1>10, <2>1 DEF IInv, Inverses, MapsMatch
<1>19. RecordsChosenPad'
  BY <1>5, <1>10 DEF IInv, RecordsChosenPad
<1>20. TypeOK'
  <2>1. moved' \in BOOLEAN /\ refused' \in BOOLEAN
    BY DEF Unplug, recVars, IInv, TypeOK
  <2>2. QED
    BY <1>1, <1>5, <1>6, <1>10, <2>1 DEF IInv, TypeOK
<1>21. QED
  BY <1>11, <1>13, <1>14, <1>15, <1>16, <1>17, <1>18, <1>19, <1>20 DEF IInv

-----------------------------------------------------------------------------
(* The device added is the first one behind those that were.               *)
LEMMA Added ==
  ASSUME IInv, ~ refused, AddController
  PROVE  /\ removals = <<>> /\ Len(additions) >= 1 /\ Mapped < Len(sdl)
         /\ Head(additions) = Mapped /\ Mapped \in Indexes /\ Mapped \in Slots
         /\ Mapped + 1 \in 1 .. Len(sdl)
         /\ sdl[Mapped + 1] \in Devices /\ sdl[Mapped + 1] \notin Known
         /\ Len(devices) = Mapped
         /\ iid_to_idx' = Emplace(iid_to_idx, sdl[Mapped + 1], Mapped)
         /\ idx_to_iid' = Emplace(idx_to_iid, Mapped, sdl[Mapped + 1])
         /\ Connect(Mapped, sdl[Mapped + 1])
         /\ additions' \in Seq(Indexes) /\ Len(additions') = Len(additions) - 1
         /\ Mapped' = Mapped + 1
         /\ \A i \in 1 .. Len(additions') : additions'[i] = Mapped' + i - 1
         /\ UNCHANGED <<sdl, removals, recVars, history, restarts>>
<1>1. /\ Len(sdl) \in Nat /\ Len(additions) \in Nat /\ Mapped \in Nat
      /\ Mapped = Len(sdl) - Len(additions) /\ Len(sdl) <= MaxPlugged
      /\ \A p \in Mapped + 1 .. Len(sdl) : sdl[p] \notin Known
      /\ \A p \in 1 .. Len(sdl) : sdl[p] \in Devices
      /\ \A i \in 1 .. Len(additions) : additions[i] = Mapped + i - 1
      /\ additions \in Seq(Indexes) /\ Len(devices) = Mapped + Len(removals)
  BY Facts DEF IInv, Queues, Mapped, TypeOK, Seats
<1>2. /\ removals = <<>> /\ additions # <<>> /\ additions' = Tail(additions)
      /\ UNCHANGED <<sdl, removals, recVars, history, restarts>>
  BY DEF AddController
<1>3. Len(additions) >= 1
  BY <1>1, <1>2, EmptySeq
<1>4. Head(additions) = Mapped
  <2>1. 1 \in 1 .. Len(additions) /\ Mapped + 1 - 1 = Mapped
    BY <1>1, <1>3
  <2>2. additions[1] = Mapped
    BY <1>1, <2>1
  <2>3. QED
    BY <1>1, <1>2, <2>2
<1>5. Mapped < Len(sdl) /\ Mapped + 1 \in 1 .. Len(sdl) /\ Mapped + 1 \in Mapped + 1 .. Len(sdl)
  BY <1>1, <1>3
<1>6. Mapped \in Indexes /\ Mapped \in Slots
  BY <1>1, <1>5, Bounds DEF Indexes
<1>7. /\ iid_to_idx' = Emplace(iid_to_idx, sdl[Mapped + 1], Mapped)
      /\ idx_to_iid' = Emplace(idx_to_iid, Mapped, sdl[Mapped + 1])
      /\ Connect(Mapped, sdl[Mapped + 1])
  BY <1>4 DEF AddController
<1>8. /\ additions' \in Seq(Indexes) /\ Len(additions') = Len(additions) - 1
      /\ \A i \in 1 .. Len(additions) - 1 : additions'[i] = additions[i + 1]
  BY <1>1, <1>2, <1>3, HeadTailProperties
<1>9. Mapped' = Mapped + 1
  BY <1>1, <1>2, <1>8 DEF Mapped
<1>10. ASSUME NEW i \in 1 .. Len(additions') PROVE additions'[i] = Mapped' + i - 1
  <2>1. i + 1 \in 1 .. Len(additions) /\ i \in 1 .. Len(additions) - 1
    BY <1>1, <1>3, <1>8
  <2>2. additions'[i] = Mapped + (i + 1) - 1
    BY <1>1, <1>8, <2>1
  <2>3. QED
    BY <1>1, <1>9, <2>2
<1>11. Len(devices) = Mapped
  BY <1>1, <1>2
<1>12. sdl[Mapped + 1] \in Devices /\ sdl[Mapped + 1] \notin Known
  BY <1>1, <1>5
<1>13. QED
  BY <1>2, <1>3, <1>4, <1>5, <1>6, <1>7, <1>8, <1>9, <1>10, <1>11, <1>12

(* Its line and row come behind the others; leftovers behind it go.        *)
LEMMA Connected ==
  ASSUME IInv, ~ refused, NEW n, n = Len(devices), n \in Indexes,
         NEW d \in Devices, d \notin Known, Connect(n, d)
  PROVE  /\ devices' \in Seq(Rows) /\ Len(devices') = n + 1
         /\ devices'[n + 1] = [id |-> n, iid |-> d, idx |-> n]
         /\ \A r \in 1 .. n : devices'[r] = devices[r]
         /\ Seated' = Known \cup {d}
         /\ lines' \in [Slots -> Lines]
         /\ lines'[n] = [dev |-> d, idx |-> n]
         /\ \A i \in 0 .. n - 1 : lines'[i] = lines[i]
         /\ NoGaps(lines) => NoGaps(lines') /\ Ended(devices', lines')
<1>1. /\ n \in Nat /\ n < MaxPlugged /\ n < MaxPads /\ n \in Slots /\ MaxPads \in Nat
  BY Facts, Bounds DEF Indexes
<1>2. /\ devices \in Seq(Rows) /\ lines \in [Slots -> Lines] /\ Seated = Known
      /\ \A i \in 0 .. n - 1 : i \in Slots /\ lines[i] # NoLine
  BY Facts, UsedLines DEF IInv, TypeOK, Seats
<1>3. /\ lines' = [i \in Slots |->
                     CASE i = n -> [dev |-> d, idx |-> n]
                       [] i \in LinesFrom(lines, n + 1) -> NoLine
                       [] OTHER -> lines[i]]
      /\ devices' = Append(devices, [id |-> n, iid |-> d, idx |-> n])
  BY <1>2 DEF Connect
<1>4. [id |-> n, iid |-> d, idx |-> n] \in Rows /\ [dev |-> d, idx |-> n] \in Lines
      /\ [dev |-> d, idx |-> n] # NoLine
  BY <1>1, Bounds DEF Rows, Lines, NoLine
<1>5. /\ devices' \in Seq(Rows) /\ Len(devices') = n + 1
      /\ devices'[n + 1] = [id |-> n, iid |-> d, idx |-> n]
      /\ \A r \in 1 .. n : devices'[r] = devices[r]
  BY <1>2, <1>3, <1>4, AppendProperties
<1>6. Seated' = Known \cup {d}
  <2>1. DOMAIN devices = 1 .. n /\ DOMAIN devices' = 1 .. n + 1
    BY <1>2, <1>5, LenProperties
  <2>2. Seated = {devices[r].iid : r \in 1 .. n} /\ Seated' = {devices'[r].iid : r \in 1 .. n + 1}
    BY <2>1 DEF Seated
  <2>3. \A r \in 1 .. n + 1 : r \in 1 .. n \/ r = n + 1
    BY <1>1
  <2>4. \A r \in 1 .. n : r \in 1 .. n + 1
    BY <1>1
  <2>5. n + 1 \in 1 .. n + 1
    BY <1>1
  <2>6. Seated' \subseteq Seated \cup {d}
    BY <1>5, <2>2, <2>3
  <2>7. Seated \subseteq Seated' /\ d \in Seated'
    BY <1>5, <2>2, <2>4, <2>5
  <2>8. QED
    BY <1>2, <2>6, <2>7
<1>7. ASSUME NEW i \in Slots
      PROVE  /\ i = n => lines'[i] = [dev |-> d, idx |-> n]
             /\ i # n /\ i \in LinesFrom(lines, n + 1) => lines'[i] = NoLine
             /\ i # n /\ i \notin LinesFrom(lines, n + 1) => lines'[i] = lines[i]
             /\ lines'[i] \in Lines
  <2> DEFINE new == [dev |-> d, idx |-> n]
             behind == LinesFrom(lines, n + 1)
  <2>1. i \in behind => i # n
    BY <1>1 DEF LinesFrom
  <2>2. lines'[i] = IF i = n THEN new ELSE IF i \in behind THEN NoLine ELSE lines[i]
    <3>1. lines'[i] = CASE i = n -> new [] i \in behind -> NoLine [] OTHER -> lines[i]
      BY <1>3
    <3> HIDE DEF new, behind
    <3>2. CASE i = n
      BY <2>1, <3>1, <3>2
    <3>3. CASE i # n /\ i \in behind
      BY <3>1, <3>3
    <3>4. CASE i # n /\ i \notin behind
      BY <3>1, <3>4
    <3>5. QED
      BY <3>2, <3>3, <3>4
  <2>3. NoLine \in Lines /\ lines[i] \in Lines
    BY <1>2 DEF Lines
  <2>4. QED
    BY <1>4, <2>2, <2>3
<1>8. lines' \in [Slots -> Lines] /\ lines'[n] = [dev |-> d, idx |-> n]
  <2>1. lines' = [i \in Slots |-> lines'[i]]
    BY <1>3
  <2>2. QED
    BY <1>1, <1>7, <2>1
<1>9. ASSUME NEW i \in 0 .. n - 1 PROVE lines'[i] = lines[i]
  <2>1. i # n /\ i \notin LinesFrom(lines, n + 1)
    BY <1>1 DEF LinesFrom
  <2>2. QED
    BY <1>2, <1>7, <2>1
<1>10. ASSUME NoGaps(lines), NEW i \in n + 1 .. MaxPads - 1 PROVE lines'[i] = NoLine
  <2>1. i \in Slots /\ i # n /\ i \in 0 .. MaxPads - 1
    BY <1>1 DEF Slots
  <2>2. CASE i \in LinesFrom(lines, n + 1)
    BY <1>7, <2>1, <2>2
  <2>3. CASE i \notin LinesFrom(lines, n + 1)
    <3>1. PICK k \in n + 1 .. i : lines[k] = NoLine
      BY <1>1, <2>1, <2>3 DEF LinesFrom
    <3>2. k \in 0 .. MaxPads - 1 /\ (k < i \/ k = i)
      BY <1>1, <2>1, <3>1
    <3>3. lines[i] = NoLine
      BY <1>10, <2>1, <3>1, <3>2 DEF NoGaps
    <3>4. QED
      BY <1>7, <2>1, <2>3, <3>3
  <2>4. QED
    BY <2>2, <2>3
<1>11. ASSUME NoGaps(lines) PROVE NoGaps(lines') /\ Ended(devices', lines')
  <2>1. ASSUME NEW i \in 0 .. MaxPads - 1, NEW j \in 0 .. MaxPads - 1,
               i < j, lines'[i] = NoLine
        PROVE  lines'[j] = NoLine
    <3>1. i # n
      BY <1>4, <1>8, <2>1
    <3>2. ~ (i < n)
      BY <1>1, <1>2, <1>9, <2>1
    <3>3. j \in n + 1 .. MaxPads - 1
      BY <1>1, <2>1, <3>1, <3>2
    <3>4. QED
      BY <1>10, <1>11, <3>3
  <2>2. Ended(devices', lines')
    BY <1>5, <1>10, <1>11 DEF Ended
  <2>3. QED
    BY <2>1, <2>2 DEF NoGaps
<1>12. QED
  BY <1>3, <1>5, <1>6, <1>8, <1>9, <1>11

LEMMA AddControllerInv ==
  ASSUME IInv, ~ refused, AddController
  PROVE  IInv'
<1> DEFINE n == Mapped
           d == sdl[Mapped + 1]
<1>1. /\ removals = <<>> /\ Len(additions) >= 1 /\ n < Len(sdl)
      /\ n \in Indexes /\ n \in Slots /\ n + 1 \in 1 .. Len(sdl)
      /\ d \in Devices /\ d \notin Known /\ Len(devices) = n
      /\ iid_to_idx' = Emplace(iid_to_idx, d, n)
      /\ idx_to_iid' = Emplace(idx_to_iid, n, d)
      /\ Connect(n, d)
      /\ additions' \in Seq(Indexes) /\ Len(additions') = Len(additions) - 1
      /\ Mapped' = n + 1
      /\ \A i \in 1 .. Len(additions') : additions'[i] = Mapped' + i - 1
      /\ UNCHANGED <<sdl, removals, recVars, history, restarts>>
  BY Added
<1>2. /\ UNCHANGED <<sdl, removals, recording, chosen, overlap, restarts>>
      /\ (moved' <=> moved) /\ (refused' <=> refused)
  BY <1>1 DEF recVars, history
<1>3. /\ Len(sdl) \in Nat /\ Len(additions) \in Nat /\ n \in Nat /\ Len(sdl) <= MaxPlugged
      /\ Known \subseteq Devices /\ \A e \in Known : iid_to_idx[e] \in Indexes
      /\ \A p \in 1 .. n : sdl[p] \in Known
      /\ \A r \in 1 .. Len(devices) : devices[r].iid \in Known
      /\ Len(removals) = 0
  BY <1>1, Facts DEF IInv, Queues
<1> HIDE DEF n, d
<1>4. /\ devices' \in Seq(Rows) /\ Len(devices') = n + 1
      /\ devices'[n + 1] = [id |-> n, iid |-> d, idx |-> n]
      /\ \A r \in 1 .. n : devices'[r] = devices[r]
      /\ Seated' = Known \cup {d}
      /\ lines' \in [Slots -> Lines]
      /\ lines'[n] = [dev |-> d, idx |-> n]
      /\ \A i \in 0 .. n - 1 : lines'[i] = lines[i]
      /\ NoGaps(lines) => NoGaps(lines') /\ Ended(devices', lines')
  BY <1>1, Connected
<1>5. /\ Known' = Known \cup {d} /\ Known' \subseteq Devices
      /\ iid_to_idx' \in [Known' -> Indexes] /\ ToSet(iid_to_idx') \subseteq Indexes
      /\ \A e \in Known : iid_to_idx'[e] = iid_to_idx[e]
      /\ iid_to_idx'[d] = n
  <2>1. /\ DOMAIN iid_to_idx' = DOMAIN iid_to_idx \cup {d}
        /\ iid_to_idx' = [x \in DOMAIN iid_to_idx' |-> iid_to_idx'[x]]
        /\ \A x \in DOMAIN iid_to_idx : iid_to_idx'[x] = iid_to_idx[x]
        /\ d \notin DOMAIN iid_to_idx => iid_to_idx'[d] = n
    <3>1. iid_to_idx' = Emplace(iid_to_idx, d, n)
      BY <1>1
    <3>2. QED
      BY <3>1 DEF Emplace
  <2>2. Known' = Known \cup {d} /\ iid_to_idx'[d] = n
        /\ \A e \in Known : iid_to_idx'[e] = iid_to_idx[e]
    BY <1>1, <2>1 DEF Known
  <2>3. \A e \in Known' : iid_to_idx'[e] \in Indexes
    BY <1>1, <1>3, <2>2
  <2>4. iid_to_idx' \in [Known' -> Indexes] /\ ToSet(iid_to_idx') \subseteq Indexes
    BY <2>1, <2>3 DEF Known, ToSet
  <2>5. QED
    BY <1>1, <1>3, <2>2, <2>4
<1>6. /\ DOMAIN idx_to_iid' = DOMAIN idx_to_iid \cup {n}
      /\ DOMAIN idx_to_iid' \subseteq Indexes /\ ToSet(idx_to_iid') \subseteq Devices
      /\ \A i \in DOMAIN idx_to_iid : idx_to_iid'[i] = idx_to_iid[i]
      /\ n \notin DOMAIN idx_to_iid => idx_to_iid'[n] = d
  <2>1. DOMAIN idx_to_iid \subseteq Indexes /\ \A i \in DOMAIN idx_to_iid : idx_to_iid[i] \in Devices
    BY DEF IInv, TypeOK, ToSet
  <2>2. /\ DOMAIN idx_to_iid' = DOMAIN idx_to_iid \cup {n}
        /\ \A x \in DOMAIN idx_to_iid : idx_to_iid'[x] = idx_to_iid[x]
        /\ \A x \in DOMAIN idx_to_iid \cup {n} :
             idx_to_iid'[x] = IF x \in DOMAIN idx_to_iid THEN idx_to_iid[x] ELSE d
    <3>1. idx_to_iid' = Emplace(idx_to_iid, n, d)
      BY <1>1
    <3>2. QED
      BY <3>1 DEF Emplace
  <2>3. \A x \in DOMAIN idx_to_iid' : idx_to_iid'[x] \in Devices
    BY <1>1, <2>1, <2>2
  <2>4. DOMAIN idx_to_iid' \subseteq Indexes /\ ToSet(idx_to_iid') \subseteq Devices
    BY <1>1, <2>1, <2>2, <2>3 DEF ToSet
  <2>5. QED
    BY <2>2, <2>4
<1>7. \A r \in 1 .. n + 1 : r \in 1 .. n \/ r = n + 1
  BY <1>3
<1>8. Queues'
  <2>1. Len(sdl') <= MaxPlugged /\ Len(additions') <= Len(sdl')
    <3>1. Len(additions) <= Len(sdl)
      BY DEF IInv, Queues
    <3>2. QED
      BY <1>1, <1>2, <1>3, <3>1
  <2>2. UNCHANGED <<sdl, removals>>
    BY <1>1
  <2>3. /\ \A p, q \in 1 .. Len(sdl') : sdl'[p] = sdl'[q] => p = q
        /\ \A p, q \in 1 .. Len(removals') : removals'[p] = removals'[q] => p = q
        /\ \A p \in 1 .. Len(sdl'), q \in 1 .. Len(removals') : sdl'[p] # removals'[q]
    BY <2>2 DEF IInv, Queues
  <2>4. \A i \in 1 .. Len(additions') : additions'[i] = Mapped' + i - 1
    BY <1>1
  <2>5. QED
    BY <2>1, <2>3, <2>4 DEF Queues
<1>9. /\ \A p \in 1 .. n : iid_to_idx[sdl[p]] = p - 1
      /\ \A p \in 1 .. n + 1 : iid_to_idx'[sdl'[p]] = p - 1
  <2>1. \A p \in 1 .. n : iid_to_idx[sdl[p]] = p - 1
    BY <1>1 DEF IInv, Order, n
  <2>2. sdl[n + 1] = d
    BY DEF n, d
  <2>3. QED
    <3> SUFFICES ASSUME NEW p \in 1 .. n + 1 PROVE iid_to_idx'[sdl'[p]] = p - 1
      BY <2>1
    <3>1. CASE p \in 1 .. n
      BY <1>2, <1>3, <1>5, <2>1, <3>1
    <3>2. CASE p = n + 1
      <4>1. p - 1 = n
        BY <1>3, <3>2
      <4>2. QED
        BY <1>2, <1>5, <2>2, <3>2, <4>1
    <3>3. QED
      BY <1>7, <3>1, <3>2
<1>10. Seats'
  <2>1. \A r \in 1 .. n : devices'[r].iid \in Known /\ devices'[n + 1].iid = d
    BY <1>1, <1>3, <1>4
  <2>2. \A r, q \in 1 .. Len(devices') : devices'[r].iid = devices'[q].iid => r = q
    <3>1. \A r, q \in 1 .. n : devices[r].iid = devices[q].iid => r = q
      BY <1>1 DEF IInv, Seats
    <3>2. \A r \in 1 .. n : devices'[r].iid = devices[r].iid
      BY <1>4
    <3>3. \A r \in 1 .. n : devices'[r].iid # d
      BY <1>1, <2>1
    <3>4. devices'[n + 1].iid = d
      BY <1>4
    <3>5. SUFFICES ASSUME NEW r \in 1 .. n + 1, NEW q \in 1 .. n + 1,
                          devices'[r].iid = devices'[q].iid
                   PROVE  r = q
      BY <1>4
    <3>6. QED
      BY <1>7, <3>1, <3>2, <3>3, <3>4, <3>5
  <2>3. ASSUME NEW e \in Devices
        PROVE  e \in Known' <=> \/ \E p \in 1 .. Mapped' : e = sdl'[p]
                                \/ \E q \in 1 .. Len(removals') : e = removals'[q]
    <3>1. e \in Known <=> \E p \in 1 .. n : e = sdl[p]
      BY <1>3 DEF IInv, Seats, n
    <3>2. (\E p \in 1 .. n + 1 : e = sdl[p]) <=> (\E p \in 1 .. n : e = sdl[p]) \/ e = sdl[n + 1]
      BY <1>3, <1>7
    <3>3. sdl[n + 1] = d
      BY DEF n, d
    <3>4. QED
      BY <1>1, <1>2, <1>3, <1>5, <3>1, <3>2, <3>3
  <2>4. Len(devices') = Mapped' + Len(removals') /\ Len(devices') <= MaxPlugged
    BY <1>1, <1>2, <1>3, <1>4, Bounds
  <2>5. Seated' = Known'
    BY <1>4, <1>5
  <2>6. QED
    BY <1>5, <2>2, <2>3, <2>4, <2>5 DEF Seats
<1>11. Order'
  BY <1>1, <1>3, <1>9 DEF Order
<1>12. Numbered(devices, lines)'
  <2>1. ASSUME NEW r \in 1 .. n + 1
        PROVE  devices'[r].id = r - 1 /\ lines'[r - 1].dev = devices'[r].iid
    <3>1. CASE r \in 1 .. n
      <4>1. r - 1 \in 0 .. n - 1
        BY <1>3, <3>1
      <4>2. QED
        BY <1>1, <1>4, <3>1, <4>1 DEF IInv, Numbered
    <3>2. CASE r = n + 1
      <4>1. r - 1 = n
        BY <1>3, <3>2
      <4>2. QED
        BY <1>4, <3>2, <4>1
    <3>3. QED
      BY <1>7, <3>1, <3>2
  <2>2. QED
    BY <1>4, <2>1 DEF Numbered
<1>13. Pair'
  BY <1>2, <1>3 DEF Pair
<1>14. Tables'
  <2> SUFFICES ASSUME overlap' < 2
               PROVE  /\ Indexed(devices', lines', iid_to_idx')
                      /\ NoGaps(lines') /\ Ended(devices', lines')
    BY DEF Tables
  <2>1. Indexed(devices, lines, iid_to_idx) /\ NoGaps(lines)
    BY <1>2 DEF IInv, Tables
  <2>2. ASSUME NEW r \in 1 .. n + 1
        PROVE  /\ devices'[r].idx = iid_to_idx'[devices'[r].iid]
               /\ lines'[r - 1].idx = devices'[r].idx
    <3>1. CASE r \in 1 .. n
      <4>1. r - 1 \in 0 .. n - 1 /\ devices[r].iid \in Known
        BY <1>1, <1>3, <3>1
      <4>2. devices[r].idx = iid_to_idx[devices[r].iid] /\ lines[r - 1].idx = devices[r].idx
        BY <1>1, <2>1, <3>1 DEF Indexed
      <4>3. QED
        BY <1>4, <1>5, <3>1, <4>1, <4>2
    <3>2. CASE r = n + 1
      <4>1. r - 1 = n
        BY <1>3, <3>2
      <4>2. QED
        BY <1>4, <1>5, <3>2, <4>1
    <3>3. QED
      BY <1>7, <3>1, <3>2
  <2>3. QED
    BY <1>4, <2>1, <2>2 DEF Indexed
<1>15. Inverses'
  <2> SUFFICES ASSUME overlap' = 0
               PROVE  Len(removals') <= 1 /\ MapsMatch(iid_to_idx', idx_to_iid')
    BY DEF Inverses
  <2>1. /\ \A e \in Known : iid_to_idx[e] \in DOMAIN idx_to_iid /\ idx_to_iid[iid_to_idx[e]] = e
        /\ \A i \in DOMAIN idx_to_iid : idx_to_iid[i] \in Known /\ iid_to_idx[idx_to_iid[i]] = i
    BY <1>2 DEF IInv, Inverses, MapsMatch, Known
  <2>2. n \notin DOMAIN idx_to_iid
    <3> SUFFICES ASSUME n \in DOMAIN idx_to_iid PROVE FALSE
      OBVIOUS
    <3>1. idx_to_iid[n] \in Known /\ iid_to_idx[idx_to_iid[n]] = n
      BY <2>1
    <3>2. PICK p \in 1 .. n : idx_to_iid[n] = sdl[p]
      BY <1>3, <3>1 DEF IInv, Seats, n
    <3>3. QED
      BY <1>3, <1>9, <3>1, <3>2
  <2>3. \A e \in Known' : e \in Known \/ e = d
    BY <1>5
  <2>4. \A i \in DOMAIN idx_to_iid' : i \in DOMAIN idx_to_iid \/ i = n
    BY <1>6
  <2>5. \A e \in Known' : iid_to_idx'[e] \in DOMAIN idx_to_iid' /\ idx_to_iid'[iid_to_idx'[e]] = e
    BY <1>5, <1>6, <2>1, <2>2, <2>3
  <2>6. \A i \in DOMAIN idx_to_iid' : idx_to_iid'[i] \in Known' /\ iid_to_idx'[idx_to_iid'[i]] = i
    BY <1>1, <1>5, <1>6, <2>1, <2>2, <2>4
  <2>7. QED
    BY <1>2, <1>3, <2>5, <2>6 DEF MapsMatch, Known
<1>16. RecordsChosenPad'
  BY <1>2, <1>5 DEF IInv, RecordsChosenPad, Known
<1>17. TypeOK'
  <2>1. moved' \in BOOLEAN /\ refused' \in BOOLEAN
    BY DEF AddController, recVars, history, IInv, TypeOK
  <2>2. QED
    BY <1>1, <1>2, <1>4, <1>5, <1>6, <2>1 DEF IInv, TypeOK, Known
<1>18. QED
  BY <1>8, <1>10, <1>11, <1>12, <1>13, <1>14, <1>15, <1>16, <1>17 DEF IInv

-----------------------------------------------------------------------------
(* What the loop of remove_pad_by_iid starts from, for the device d in the *)
(* row r: d has left the maps, the rows and the lines.                     *)
Start(d, r) ==
  [byIid |-> Erase(iid_to_idx, d),
   byIdx |-> Erase(idx_to_iid, iid_to_idx[d]),
   rows  |-> RowsAfterRemoval(r),
   lines |-> LinesAfterRemoval(r)]

(* The device whose removal is handled has a row.                          *)
LEMMA RemovedRow ==
  ASSUME IInv, ~ refused, removals # <<>>
  PROVE  /\ Len(removals) >= 1 /\ Head(removals) = removals[1]
         /\ removals[1] \in Known /\ removals[1] \in Devices
         /\ RowOf(removals[1]) \in 1 .. Len(devices)
         /\ devices[RowOf(removals[1])].iid = removals[1]
         /\ \A p \in 1 .. Len(sdl) : sdl[p] # removals[1]
<1>1. Len(removals) \in Nat /\ Len(removals) >= 1 /\ removals \in Seq(Devices)
  BY Facts, EmptySeq DEF IInv, TypeOK
<1>2. 1 \in 1 .. Len(removals) /\ Head(removals) = removals[1]
  BY <1>1
<1>3. removals[1] \in Known /\ removals[1] \in Devices
  BY <1>2, Facts
<1>4. \A p \in 1 .. Len(sdl) : sdl[p] # removals[1]
  BY <1>2 DEF IInv, Queues
<1>5. PICK q \in 1 .. Len(devices) : devices[q].iid = removals[1]
  <2>1. removals[1] \in Seated
    BY <1>3 DEF IInv, Seats
  <2>2. QED
    BY <2>1, LenProperties DEF Seated, IInv, TypeOK
<1>6. /\ FindByIid(devices, removals[1]) \in 0 .. Len(devices)
      /\ FindByIid(devices, removals[1]) # 0 =>
           devices[FindByIid(devices, removals[1])].iid = removals[1]
      /\ FindByIid(devices, removals[1]) = 0 =>
           \A r \in 1 .. Len(devices) : devices[r].iid # removals[1]
  BY RowWithIid DEF IInv, TypeOK
<1>7. RowOf(removals[1]) = FindByIid(devices, removals[1])
  BY DEF RowOf
<1>8. FindByIid(devices, removals[1]) # 0
  BY <1>5, <1>6
<1> DEFINE r == FindByIid(devices, removals[1])
<1> HIDE DEF r
<1>9. r \in 1 .. Len(devices)
  BY <1>6, <1>8, Facts DEF r
<1>10. QED
  BY <1>1, <1>2, <1>3, <1>4, <1>6, <1>7, <1>9 DEF r

Begins(s, d, r) == d = removals[1] /\ r = RowOf(d) /\ s = Start(d, r)

StartFacts(s, d, r) ==
  /\ DOMAIN s.byIid = Known \ {d}
  /\ s.byIid \in [Known \ {d} -> Indexes]
  /\ \A e \in Known \ {d} : s.byIid[e] = iid_to_idx[e]
  /\ DOMAIN s.byIdx = DOMAIN idx_to_iid \ {iid_to_idx[d]}
  /\ \A i \in DOMAIN s.byIdx : s.byIdx[i] = idx_to_iid[i]
  /\ s.rows = RowsAfterRemoval(r) /\ s.lines = LinesAfterRemoval(r)

LEMMA StartMaps ==
  ASSUME IInv, ~ refused, NEW d \in Known, NEW r
  PROVE  StartFacts(Start(d, r), d, r)
<1> DEFINE a == Erase(iid_to_idx, d)
           i == iid_to_idx[d]
           b == Erase(idx_to_iid, i)
           rows == RowsAfterRemoval(r)
           ls == LinesAfterRemoval(r)
           s == Start(d, r)
<1>1. s = [byIid |-> a, byIdx |-> b, rows |-> rows, lines |-> ls]
  BY DEF Start
<1>2. DOMAIN b = DOMAIN idx_to_iid \ {i} /\ \A x \in DOMAIN b : b[x] = idx_to_iid[x]
  BY DEF Erase
<1>3. /\ DOMAIN a = Known \ {d} /\ a = [x \in Known \ {d} |-> iid_to_idx[x]]
  BY DEF Erase, Known
<1>4. a \in [Known \ {d} -> Indexes] /\ \A e \in Known \ {d} : a[e] = iid_to_idx[e]
  BY <1>3, Facts
<1> HIDE DEF a, b, rows, ls, s
<1>5. s.byIid = a /\ s.byIdx = b /\ s.rows = rows /\ s.lines = ls
  BY <1>1
<1>6. StartFacts(s, d, r)
  BY <1>2, <1>3, <1>4, <1>5 DEF rows, ls, i, StartFacts
<1>7. QED
  BY <1>6 DEF s

(* The loop reaches the devices that were added, and no other.             *)
LEMMA Reaches ==
  ASSUME IInv, ~ refused, removals # <<>>,
         NEW map, DOMAIN map = Known \ {removals[1]}
  PROVE  Reached(map) = Mapped
<1>1. /\ Len(sdl) \in Nat /\ Mapped \in Nat /\ Mapped <= Len(sdl)
      /\ \A p \in 1 .. Mapped : sdl[p] \in Known
      /\ \A p \in Mapped + 1 .. Len(sdl) : sdl[p] \notin Known
  BY Facts
<1>2. \A p \in 1 .. Len(sdl) : sdl[p] # removals[1]
  BY RemovedRow
<1>3. \A p \in 1 .. Mapped : sdl[p] \in DOMAIN map
  BY <1>1, <1>2
<1>4. \A p \in Mapped + 1 .. Len(sdl) : sdl[p] \notin DOMAIN map
  BY <1>1
<1> DEFINE P(n) == /\ \A k \in 1 .. n : sdl[k] \in DOMAIN map
                   /\ n < Len(sdl) => sdl[n + 1] \notin DOMAIN map
<1>5. Mapped \in 0 .. Len(sdl) /\ P(Mapped)
  BY <1>1, <1>3, <1>4
<1>6. ASSUME NEW n \in 0 .. Len(sdl), P(n) PROVE n = Mapped
  <2>1. CASE n < Mapped
    <3>1. n + 1 \in 1 .. Mapped /\ n < Len(sdl)
      BY <1>1, <2>1
    <3>2. QED
      BY <1>3, <1>6, <3>1
  <2>2. CASE n > Mapped
    <3>1. Mapped + 1 \in 1 .. n /\ Mapped + 1 \in Mapped + 1 .. Len(sdl)
      BY <1>1, <2>2
    <3>2. QED
      BY <1>4, <1>6, <3>1
  <2>3. QED
    BY <1>1, <2>1, <2>2
<1>7. Reached(map) = CHOOSE n \in 0 .. Len(sdl) : P(n)
  BY DEF Reached
<1> HIDE DEF P
<1>8. QED
  BY <1>5, <1>6, <1>7

(* The step, spelled out.                                                  *)
Looped(s, d) ==
  \E junk \in Slots : \E end :
    /\ end = Renumbered(s, Mapped, junk)
    /\ iid_to_idx' = end.byIid /\ idx_to_iid' = end.byIdx
    /\ devices' = end.rows /\ lines' = end.lines
    /\ moved' = IF Cancels(d) THEN FALSE
                ELSE moved \/ (chosen \in DOMAIN s.byIid
                               /\ end.byIid[chosen] # s.byIid[chosen])

LEMMA RemovePadStep ==
  ASSUME IInv, ~ refused, RemovePad,
         NEW d, NEW r, NEW s, Begins(s, d, r)
  PROVE  /\ removals # <<>> /\ removals' = Tail(removals)
         /\ UNCHANGED <<sdl, additions, history, restarts>>
         /\ Looped(s, d)
         /\ recording' = IF Cancels(d) THEN -1 ELSE recording
         /\ chosen' = IF Cancels(d) THEN NoDevice ELSE chosen
<1>0. d = removals[1] /\ r = RowOf(d) /\ s = Start(d, r)
  BY DEF Begins
<1>1. removals # <<>> /\ removals' = Tail(removals)
      /\ UNCHANGED <<sdl, additions, history, restarts>>
  BY DEF RemovePad
<1>2. /\ Head(removals) = d /\ d \in Known /\ d \in DOMAIN iid_to_idx
      /\ r \in 1 .. Len(devices) /\ r # 0
  BY <1>0, <1>1, RemovedRow, Facts DEF Known
<1>3. s.byIid = Erase(iid_to_idx, d)
  BY <1>0 DEF Start
<1>4. Reached(Erase(iid_to_idx, d)) = Mapped
  <2>1. DOMAIN s.byIid = Known \ {removals[1]}
    <3>1. StartFacts(Start(d, r), d, r)
      BY <1>2, StartMaps
    <3>2. StartFacts(s, d, r)
      BY <1>0, <3>1
    <3>3. DOMAIN s.byIid = Known \ {d}
      BY <3>2 DEF StartFacts
    <3>4. QED
      BY <1>0, <3>3
  <2>2. QED
    BY <1>1, <1>3, <2>1, Reaches
<1>5. PICK junk \in Slots :
        LET byIid == Erase(iid_to_idx, d)
            start == [byIid |-> byIid,
                      byIdx |-> IF d \in DOMAIN iid_to_idx
                                THEN Erase(idx_to_iid, iid_to_idx[d]) ELSE idx_to_iid,
                      rows  |-> IF r = 0 THEN devices ELSE RowsAfterRemoval(r),
                      lines |-> IF r = 0 THEN lines ELSE LinesAfterRemoval(r)]
            end == Renumbered(start, Mapped, junk)
        IN /\ iid_to_idx' = end.byIid
           /\ idx_to_iid' = end.byIdx
           /\ devices' = end.rows
           /\ lines' = end.lines
           /\ recording' = IF Cancels(d) THEN -1 ELSE recording
           /\ chosen' = IF Cancels(d) THEN NoDevice ELSE chosen
           /\ moved' = IF Cancels(d) THEN FALSE
                       ELSE moved \/ (chosen \in DOMAIN byIid
                                      /\ end.byIid[chosen] # byIid[chosen])
  BY <1>0, <1>2, <1>4 DEF RemovePad
<1>6. s = [byIid |-> Erase(iid_to_idx, d),
           byIdx |-> IF d \in DOMAIN iid_to_idx
                     THEN Erase(idx_to_iid, iid_to_idx[d]) ELSE idx_to_iid,
           rows  |-> IF r = 0 THEN devices ELSE RowsAfterRemoval(r),
           lines |-> IF r = 0 THEN lines ELSE LinesAfterRemoval(r)]
  BY <1>0, <1>2 DEF Start
<1> DEFINE end == Renumbered(s, Mapped, junk)
<1>7. /\ iid_to_idx' = end.byIid /\ idx_to_iid' = end.byIdx
      /\ devices' = end.rows /\ lines' = end.lines
      /\ recording' = IF Cancels(d) THEN -1 ELSE recording
      /\ chosen' = IF Cancels(d) THEN NoDevice ELSE chosen
      /\ moved' = IF Cancels(d) THEN FALSE
                  ELSE moved \/ (chosen \in DOMAIN s.byIid
                                 /\ end.byIid[chosen] # s.byIid[chosen])
  BY <1>2, <1>3, <1>5, <1>6
<1> HIDE DEF end
<1>8. Looped(s, d)
  <2>1. end = Renumbered(s, Mapped, junk)
    BY DEF end
  <2>2. QED
    BY <1>7, <2>1 DEF Looped
<1>9. QED
  BY <1>1, <1>7, <1>8

(* The loop starts with rows and lines that are numbered and, unless too   *)
(* many removals are queued, with indexes that agree.                      *)
LEMMA StartSeats ==
  ASSUME IInv, ~ refused, removals # <<>>,
         NEW d, NEW r, NEW s, Begins(s, d, r)
  PROVE  /\ StartFacts(s, d, r)
         /\ d \in Known /\ r \in 1 .. Len(devices) /\ devices[r].iid = d
         /\ s.rows \in Seq(Rows) /\ Len(s.rows) = Len(devices) - 1
         /\ s.lines \in [Slots -> Lines]
         /\ Numbered(s.rows, s.lines)
         /\ \A q \in 1 .. Len(devices) - 1 :
              /\ q < r => s.rows[q].iid = devices[q].iid /\ s.rows[q].idx = devices[q].idx
              /\ q >= r => /\ s.rows[q].iid = devices[q + 1].iid
                           /\ s.rows[q].idx = devices[q + 1].idx
<1>0. d = removals[1] /\ r = RowOf(d) /\ s = Start(d, r)
  BY DEF Begins
<1>1. d \in Known /\ r \in 1 .. Len(devices) /\ devices[r].iid = d
  BY <1>0, RemovedRow
<1>2. StartFacts(s, d, r)
  <2>1. StartFacts(Start(d, r), d, r)
    BY <1>1, StartMaps
  <2>2. QED
    BY <1>0, <2>1
<1>3. s.rows = RowsAfterRemoval(r) /\ s.lines = LinesAfterRemoval(r)
  BY <1>2 DEF StartFacts
<1>4. SeatedRows /\ Len(devices) \in Nat
  BY Facts
<1> DEFINE rows == RowsAfterRemoval(r)
           ls == LinesAfterRemoval(r)
<1>5. /\ rows \in Seq(Rows) /\ Len(rows) = Len(devices) - 1
      /\ \A q \in 1 .. Len(devices) - 1 :
           LET row == rows[q]
               old == IF q < r THEN devices[q] ELSE devices[q + 1]
           IN  row.id = q - 1 /\ row.iid = old.iid /\ row.idx = old.idx
  BY <1>1, <1>4, RemovalRows
<1>6. /\ ls \in [Slots -> Lines]
      /\ \A q \in 1 .. Len(devices) - 1 :
           /\ q < r => ls[q - 1] = lines[q - 1]
           /\ q >= r => ls[q - 1] = lines[q]
  BY <1>1, <1>4, RemovalLines
<1> HIDE DEF rows, ls
<1>7. s.rows = rows /\ s.lines = ls
  BY <1>3 DEF rows, ls
<1>8. ASSUME NEW q \in 1 .. Len(devices) - 1
      PROVE  /\ rows[q].id = q - 1 /\ ls[q - 1].dev = rows[q].iid
             /\ q < r => rows[q].iid = devices[q].iid /\ rows[q].idx = devices[q].idx
             /\ q >= r => rows[q].iid = devices[q + 1].iid /\ rows[q].idx = devices[q + 1].idx
  <2>1. q \in 1 .. Len(devices) /\ q + 1 \in 1 .. Len(devices) /\ (q + 1) - 1 = q
    BY <1>4
  <2>2. lines[q - 1].dev = devices[q].iid /\ lines[(q + 1) - 1].dev = devices[q + 1].iid
    BY <2>1 DEF IInv, Numbered
  <2>3. CASE q < r
    <3>1. ~ (q >= r)
      BY <1>1, <1>4, <2>3
    <3>2. /\ rows[q].id = q - 1 /\ rows[q].iid = devices[q].iid
          /\ rows[q].idx = devices[q].idx
      BY <1>5, <2>3
    <3>3. ls[q - 1] = lines[q - 1]
      BY <1>6, <2>3
    <3>4. QED
      BY <2>2, <3>1, <3>2, <3>3
  <2>4. CASE ~ (q < r)
    <3>1. q >= r
      BY <1>1, <2>4
    <3>2. /\ rows[q].id = q - 1 /\ rows[q].iid = devices[q + 1].iid
          /\ rows[q].idx = devices[q + 1].idx
      BY <1>5, <2>4
    <3>3. ls[q - 1] = lines[q]
      BY <1>6, <3>1
    <3>4. QED
      BY <2>1, <2>2, <2>4, <3>2, <3>3
  <2>5. QED
    BY <2>3, <2>4
<1>9. Numbered(rows, ls)
  BY <1>5, <1>8 DEF Numbered
<1>10. QED
  BY <1>1, <1>2, <1>5, <1>6, <1>7, <1>8, <1>9

(* Where a row of the others was.                                          *)
LEMMA StartRow ==
  ASSUME IInv, ~ refused, removals # <<>>,
         NEW d, NEW r, NEW s, Begins(s, d, r),
         NEW q \in 1 .. Len(s.rows)
  PROVE  \E k \in 1 .. Len(devices) :
           /\ k # r /\ (k = q \/ k = q + 1)
           /\ s.rows[q].iid = devices[k].iid /\ s.rows[q].idx = devices[k].idx
           /\ devices[k].iid \in Known \ {d}
           /\ \A p \in 1 .. Len(devices) : devices[p].iid = devices[k].iid => p = k
<1>1. /\ r \in 1 .. Len(devices) /\ devices[r].iid = d
      /\ Len(s.rows) = Len(devices) - 1
      /\ \A i \in 1 .. Len(devices) - 1 :
           /\ i < r => s.rows[i].iid = devices[i].iid /\ s.rows[i].idx = devices[i].idx
           /\ i >= r => /\ s.rows[i].iid = devices[i + 1].iid
                        /\ s.rows[i].idx = devices[i + 1].idx
  BY StartSeats
<1>2. Len(devices) \in Nat /\ \A k \in 1 .. Len(devices) : devices[k].iid \in Known
  BY Facts
<1>3. \A k, p \in 1 .. Len(devices) : devices[k].iid = devices[p].iid => k = p
  BY DEF IInv, Seats
<1>4. q \in 1 .. Len(devices) - 1
  BY <1>1
<1>5. CASE q < r
  <2>1. q \in 1 .. Len(devices) /\ q # r
    BY <1>1, <1>2, <1>4, <1>5
  <2>2. s.rows[q].iid = devices[q].iid /\ s.rows[q].idx = devices[q].idx
    BY <1>1, <1>4, <1>5
  <2>3. QED
    BY <1>1, <1>2, <1>3, <2>1, <2>2
<1>6. CASE q >= r
  <2>1. q + 1 \in 1 .. Len(devices) /\ q + 1 # r
    BY <1>1, <1>2, <1>4, <1>6
  <2>2. s.rows[q].iid = devices[q + 1].iid /\ s.rows[q].idx = devices[q + 1].idx
    BY <1>1, <1>4, <1>6
  <2>3. QED
    BY <1>1, <1>2, <1>3, <2>1, <2>2
<1>7. q < r \/ q >= r
  BY <1>1, <1>4
<1>8. QED
  BY <1>5, <1>6, <1>7

LEMMA StartReady ==
  ASSUME IInv, ~ refused, removals # <<>>,
         NEW d, NEW r, NEW s, Begins(s, d, r)
  PROVE  Ready(s, Mapped)
<1>0. d = removals[1] /\ r = RowOf(d) /\ s = Start(d, r)
  BY DEF Begins
<1>1. /\ StartFacts(s, d, r)
      /\ s.rows \in Seq(Rows) /\ Len(s.rows) = Len(devices) - 1
      /\ s.lines \in [Slots -> Lines]
  BY StartSeats
<1>2. DOMAIN s.byIid = Known \ {d} /\ s.byIid \in [Known \ {d} -> Indexes]
      /\ \A e \in Known \ {d} : s.byIid[e] = iid_to_idx[e]
  BY <1>1 DEF StartFacts
<1>3. /\ Len(sdl) \in Nat /\ Mapped \in Nat /\ Mapped <= Len(sdl) /\ Len(sdl) <= MaxPlugged
      /\ Len(devices) \in Nat /\ Known \subseteq Devices
      /\ \A p \in 1 .. Mapped : sdl[p] \in Known
  BY Facts DEF IInv, Queues
<1>4. \A p \in 1 .. Len(sdl) : sdl[p] # d
  BY <1>0, RemovedRow
<1>5. \A p \in 1 .. Mapped : sdl[p] \in Known \ {d}
  BY <1>3, <1>4
<1>6. /\ \A p \in 1 .. Mapped : s.byIid[sdl[p]] >= p - 1
      /\ \A p, q \in 1 .. Mapped : p < q => s.byIid[sdl[p]] < s.byIid[sdl[q]]
  BY <1>2, <1>5 DEF IInv, Order
<1>7. /\ DOMAIN idx_to_iid \subseteq Indexes
      /\ \A i \in DOMAIN idx_to_iid : idx_to_iid[i] \in Devices
  BY DEF IInv, TypeOK, ToSet
<1>8. Len(s.rows) <= MaxPads
  BY <1>1, <1>3, Bounds DEF IInv, Seats
<1>9. Mapped \in 0 .. Len(sdl) /\ Mapped <= MaxPlugged
  BY <1>3, Bounds
<1>10. DOMAIN s.byIdx \subseteq Indexes /\ \A i \in DOMAIN s.byIdx : s.byIdx[i] \in Devices
  <2> DEFINE idxs == DOMAIN idx_to_iid
             one == iid_to_idx[d]
  <2>1. DOMAIN s.byIdx = idxs \ {one} /\ \A i \in DOMAIN s.byIdx : s.byIdx[i] = idx_to_iid[i]
    BY <1>1 DEF StartFacts
  <2>2. idxs \subseteq Indexes /\ \A i \in idxs : idx_to_iid[i] \in Devices
    BY <1>7
  <2> HIDE DEF idxs, one
  <2>3. QED
    BY <2>1, <2>2
<1>11. DOMAIN s.byIid \subseteq Devices /\ s.byIid \in [DOMAIN s.byIid -> Indexes]
  BY <1>2, <1>3
<1>12. QED
  BY <1>1, <1>2, <1>5, <1>6, <1>8, <1>9, <1>10, <1>11 DEF Ready

(* Every other device keeps a row of its own.                              *)
LEMMA StartCovers ==
  ASSUME IInv, ~ refused, removals # <<>>,
         NEW d, NEW r, NEW s, Begins(s, d, r)
  PROVE  /\ \A q \in 1 .. Len(s.rows) : s.rows[q].iid \in DOMAIN s.byIid
         /\ \A e \in DOMAIN s.byIid : \E q \in 1 .. Len(s.rows) : s.rows[q].iid = e
         /\ \A q, k \in 1 .. Len(s.rows) : s.rows[q].iid = s.rows[k].iid => q = k
<1>1. /\ r \in 1 .. Len(devices) /\ devices[r].iid = d
      /\ Len(s.rows) = Len(devices) - 1 /\ Numbered(s.rows, s.lines)
      /\ StartFacts(s, d, r)
      /\ \A q \in 1 .. Len(devices) - 1 :
           /\ q < r => s.rows[q].iid = devices[q].iid /\ s.rows[q].idx = devices[q].idx
           /\ q >= r => /\ s.rows[q].iid = devices[q + 1].iid
                        /\ s.rows[q].idx = devices[q + 1].idx
  BY StartSeats
<1>2. /\ DOMAIN s.byIid = Known \ {d}
      /\ \A e \in Known \ {d} : s.byIid[e] = iid_to_idx[e]
  BY <1>1 DEF StartFacts
<1>3. Len(devices) \in Nat
  BY Facts
<1>5. ASSUME NEW q \in 1 .. Len(s.rows)
      PROVE  s.rows[q].iid \in DOMAIN s.byIid
  <2>1. s.rows[q].iid \in Known \ {d}
    BY StartRow
  <2>2. QED
    BY <1>2, <2>1
<1>6. ASSUME NEW e \in DOMAIN s.byIid
      PROVE  \E q \in 1 .. Len(s.rows) : s.rows[q].iid = e
  <2>1. e \in Known /\ e # d
    BY <1>2
  <2>2. PICK k \in 1 .. Len(devices) : devices[k].iid = e
    BY <2>1, LenProperties DEF IInv, Seats, Seated, TypeOK
  <2>3. CASE k < r
    <3>1. k \in 1 .. Len(devices) - 1
      BY <1>1, <1>3, <2>3
    <3>2. QED
      BY <1>1, <2>2, <2>3, <3>1
  <2>4. CASE k > r
    <3>1. k - 1 \in 1 .. Len(devices) - 1 /\ k - 1 >= r /\ (k - 1) + 1 = k
      BY <1>1, <1>3, <2>4
    <3>2. s.rows[k - 1].iid = devices[(k - 1) + 1].iid
      BY <1>1, <3>1
    <3>3. QED
      BY <1>1, <2>2, <3>1, <3>2
  <2>5. k # r
    BY <1>1, <2>1, <2>2
  <2>6. QED
    BY <1>1, <2>3, <2>4, <2>5
<1>7. ASSUME NEW q \in 1 .. Len(s.rows), NEW k \in 1 .. Len(s.rows),
             s.rows[q].iid = s.rows[k].iid
      PROVE  q = k
  <2>1. q \in 1 .. Len(devices) - 1 /\ k \in 1 .. Len(devices) - 1
    BY <1>1
  <2>2. \A i, j \in 1 .. Len(devices) : devices[i].iid = devices[j].iid => i = j
    BY DEF IInv, Seats
  <2> DEFINE was(i) == IF i < r THEN i ELSE i + 1
  <2>3. ASSUME NEW i \in 1 .. Len(devices) - 1
        PROVE  was(i) \in 1 .. Len(devices) /\ s.rows[i].iid = devices[was(i)].iid
    <3>1. CASE i < r
      BY <1>1, <1>3, <3>1
    <3>2. CASE ~ (i < r)
      <4>1. i >= r /\ was(i) = i + 1 /\ i + 1 \in 1 .. Len(devices)
        BY <1>1, <1>3, <3>2
      <4>2. QED
        BY <1>1, <4>1
    <3>3. QED
      BY <3>1, <3>2
  <2>4. was(q) = was(k)
    <3> HIDE DEF was
    <3>1. was(q) \in 1 .. Len(devices) /\ was(k) \in 1 .. Len(devices)
      BY <2>1, <2>3
    <3>2. devices[was(q)].iid = devices[was(k)].iid
      BY <1>7, <2>1, <2>3
    <3>3. QED
      BY <2>2, <3>1, <3>2
  <2>5. q \in Int /\ k \in Int /\ r \in Int
    BY <1>1, <1>3, <2>1
  <2>6. CASE q < r
    BY <2>4, <2>5, <2>6
  <2>7. CASE ~ (q < r)
    BY <2>4, <2>5, <2>7
  <2>8. QED
    BY <2>6, <2>7
<1>8. QED
  BY <1>5, <1>6, <1>7

LEMMA StartDistinct ==
  ASSUME IInv, ~ refused, removals # <<>>, overlap < 2,
         NEW d, NEW r, NEW s, Begins(s, d, r)
  PROVE  Distinct(s, Mapped)
<1>0. d = removals[1] /\ r = RowOf(d) /\ s = Start(d, r)
  BY DEF Begins
<1>1. Numbered(s.rows, s.lines) /\ StartFacts(s, d, r)
  BY StartSeats
<1>2. /\ DOMAIN s.byIid = Known \ {d}
      /\ \A e \in Known \ {d} : s.byIid[e] = iid_to_idx[e]
  BY <1>1 DEF StartFacts
<1>3. /\ Len(devices) \in Nat /\ Len(removals) \in Nat /\ Known \subseteq Devices
      /\ \A p \in 1 .. Mapped : sdl[p] \in Known /\ p \in 1 .. Len(sdl)
  BY Facts
<1>4. \A p \in 1 .. Len(sdl) : sdl[p] # d
  BY <1>0, RemovedRow
<1>5. /\ \A q \in 1 .. Len(s.rows) : s.rows[q].iid \in DOMAIN s.byIid
      /\ \A e \in DOMAIN s.byIid : \E q \in 1 .. Len(s.rows) : s.rows[q].iid = e
      /\ \A q, k \in 1 .. Len(s.rows) : s.rows[q].iid = s.rows[k].iid => q = k
  BY StartCovers
<1>8. ASSUME NEW e \in DOMAIN s.byIid, \A p \in 1 .. Mapped : e # sdl[p],
             NEW p \in 1 .. Mapped
      PROVE  s.byIid[sdl[p]] # s.byIid[e]
  <2>1. /\ Len(removals) <= 2
        /\ Len(removals) = 2 =>
             \A k \in 1 .. Mapped : iid_to_idx[sdl[k]] # iid_to_idx[removals[2]]
    BY DEF IInv, Pair
  <2>2. e \in Known /\ e # d /\ e \in Devices
    BY <1>2, <1>3
  <2>3. PICK q \in 1 .. Len(removals) : e = removals[q]
    BY <1>8, <2>2 DEF IInv, Seats
  <2>4. q = 2 /\ Len(removals) = 2
    <3>1. q # 1
      BY <1>0, <2>2, <2>3
    <3> DEFINE n == Len(removals)
    <3>2. q \in 1 .. n /\ n \in Nat /\ n <= 2
      BY <1>3, <2>1
    <3> HIDE DEF n
    <3>3. q = 2 /\ n = 2
      BY <3>1, <3>2
    <3>4. QED
      BY <3>3 DEF n
  <2>5. iid_to_idx[sdl[p]] # iid_to_idx[e]
    BY <2>1, <2>3, <2>4
  <2>6. sdl[p] \in Known \ {d}
    BY <1>3, <1>4
  <2>7. QED
    BY <1>2, <2>2, <2>5, <2>6
<1>9. QED
  BY <1>1, <1>5, <1>8 DEF Distinct

LEMMA StartIndexed ==
  ASSUME IInv, ~ refused, removals # <<>>, overlap < 2,
         NEW d, NEW r, NEW s, Begins(s, d, r)
  PROVE  /\ SameIndexes(s, s)
         /\ \A i \in Len(devices) - 1 .. MaxPads - 1 : s.lines[i] = NoLine
<1>1. /\ r \in 1 .. Len(devices) /\ devices[r].iid = d
      /\ Len(s.rows) = Len(devices) - 1
      /\ StartFacts(s, d, r)
      /\ \A q \in 1 .. Len(devices) - 1 :
           /\ q < r => s.rows[q].idx = devices[q].idx
           /\ q >= r => s.rows[q].idx = devices[q + 1].idx
  BY StartSeats
<1>2. /\ \A e \in Known \ {d} : s.byIid[e] = iid_to_idx[e]
      /\ s.lines = LinesAfterRemoval(r)
  BY <1>1 DEF StartFacts
<1>3. Len(devices) \in Nat /\ SeatedRows
  BY Facts
<1>4. /\ \A k \in 1 .. Len(devices) : /\ devices[k].idx = iid_to_idx[devices[k].iid]
                                      /\ lines[k - 1].idx = devices[k].idx
      /\ devices # <<>> => \A i \in Len(devices) .. MaxPads - 1 : lines[i] = NoLine
  BY DEF IInv, Tables, Indexed, Ended
<1> DEFINE ls == LinesAfterRemoval(r)
<1>5. /\ \A q \in 1 .. Len(devices) - 1 :
           /\ q < r => ls[q - 1] = lines[q - 1]
           /\ q >= r => ls[q - 1] = lines[q]
      /\ (\A i \in Len(devices) .. MaxPads - 1 : lines[i] = NoLine) =>
           \A i \in Len(devices) - 1 .. MaxPads - 1 : ls[i] = NoLine
  BY <1>1, <1>3, RemovalLines
<1> HIDE DEF ls
<1>6. s.lines = ls
  BY <1>2 DEF ls
<1>7. devices # <<>>
  <2>1. Len(devices) # 0
    BY <1>1, <1>3
  <2>2. QED
    BY <2>1
<1>8. \A i \in Len(devices) - 1 .. MaxPads - 1 : s.lines[i] = NoLine
  BY <1>4, <1>5, <1>6, <1>7
<1>9. ASSUME NEW q \in 1 .. Len(s.rows) PROVE s.rows[q].idx = s.byIid[s.rows[q].iid]
  <2>1. PICK k \in 1 .. Len(devices) :
          /\ s.rows[q].iid = devices[k].iid /\ s.rows[q].idx = devices[k].idx
          /\ devices[k].iid \in Known \ {d}
    BY StartRow
  <2>2. QED
    BY <1>2, <1>4, <2>1
<1>10. ASSUME NEW q \in 1 .. Len(s.rows) PROVE s.lines[q - 1].idx = s.rows[q].idx
  <2>1. /\ q \in 1 .. Len(devices) - 1 /\ q \in 1 .. Len(devices)
        /\ q + 1 \in 1 .. Len(devices) /\ (q + 1) - 1 = q
    BY <1>1, <1>3
  <2>2. lines[q].idx = devices[q + 1].idx /\ lines[q - 1].idx = devices[q].idx
    BY <1>4, <2>1
  <2>3. CASE q < r
    BY <1>1, <1>5, <1>6, <2>1, <2>2, <2>3
  <2>4. CASE q >= r
    BY <1>1, <1>5, <1>6, <2>1, <2>2, <2>4
  <2>5. QED
    BY <1>1, <2>1, <2>3, <2>4
<1>11. QED
  BY <1>8, <1>9, <1>10 DEF SameIndexes, Indexed

LEMMA StartMatches ==
  ASSUME IInv, ~ refused, removals # <<>>, overlap = 0,
         NEW d, NEW r, NEW s, Begins(s, d, r)
  PROVE  /\ \A e \in DOMAIN s.byIid : \E p \in 1 .. Mapped : e = sdl[p]
         /\ MapsMatch(s.byIid, s.byIdx)
<1>0. d = removals[1] /\ r = RowOf(d) /\ s = Start(d, r)
  BY DEF Begins
<1> DEFINE one == iid_to_idx[d]
<1>1. d \in Known /\ StartFacts(s, d, r)
  BY StartSeats
<1>2. /\ DOMAIN s.byIid = Known \ {d}
      /\ \A e \in Known \ {d} : s.byIid[e] = iid_to_idx[e]
  BY <1>1 DEF StartFacts
<1>3. /\ DOMAIN s.byIdx = DOMAIN idx_to_iid \ {one}
      /\ \A i \in DOMAIN s.byIdx : s.byIdx[i] = idx_to_iid[i]
  BY <1>1 DEF StartFacts
<1>4. /\ Len(removals) = 1
      /\ \A e \in Known : iid_to_idx[e] \in DOMAIN idx_to_iid /\ idx_to_iid[iid_to_idx[e]] = e
      /\ \A i \in DOMAIN idx_to_iid : idx_to_iid[i] \in Known /\ iid_to_idx[idx_to_iid[i]] = i
  <2>1. Len(removals) <= 1 /\ MapsMatch(iid_to_idx, idx_to_iid)
    BY DEF IInv, Inverses
  <2>2. Len(removals) >= 1 /\ Len(removals) \in Nat
    BY RemovedRow, Facts
  <2>3. Len(removals) = 1
    <3> DEFINE n == Len(removals)
    <3>1. n \in Nat /\ n >= 1 /\ n <= 1
      BY <2>1, <2>2
    <3> HIDE DEF n
    <3>2. n = 1
      BY <3>1
    <3>3. QED
      BY <3>2 DEF n
  <2>4. QED
    BY <2>1, <2>3 DEF MapsMatch, Known
<1>5. ASSUME NEW e \in DOMAIN s.byIid PROVE \E p \in 1 .. Mapped : e = sdl[p]
  <2>1. e \in Known /\ e # d /\ e \in Devices
    BY <1>2, Facts
  <2>2. \A q \in 1 .. Len(removals) : q = 1
    BY <1>4
  <2>3. \A q \in 1 .. Len(removals) : e # removals[q]
    BY <1>0, <2>1, <2>2
  <2>4. QED
    BY <2>1, <2>3 DEF IInv, Seats
<1>6. ASSUME NEW e \in DOMAIN s.byIid
      PROVE  s.byIid[e] \in DOMAIN s.byIdx /\ s.byIdx[s.byIid[e]] = e
  <2>1. e \in Known /\ e # d /\ s.byIid[e] = iid_to_idx[e]
    BY <1>2
  <2>2. iid_to_idx[e] \in DOMAIN idx_to_iid /\ idx_to_iid[iid_to_idx[e]] = e
    BY <1>4, <2>1
  <2>3. iid_to_idx[e] # one
    BY <1>1, <1>4, <2>1, <2>2
  <2> HIDE DEF one
  <2>4. QED
    BY <1>3, <2>1, <2>2, <2>3
<1>7. ASSUME NEW i \in DOMAIN s.byIdx
      PROVE  s.byIdx[i] \in DOMAIN s.byIid /\ s.byIid[s.byIdx[i]] = i
  <2>1. i \in DOMAIN idx_to_iid /\ i # one /\ s.byIdx[i] = idx_to_iid[i]
    <3> HIDE DEF one
    <3>1. QED
      BY <1>3
  <2>2. idx_to_iid[i] \in Known /\ iid_to_idx[idx_to_iid[i]] = i
    BY <1>4, <2>1
  <2>3. idx_to_iid[i] # d
    BY <2>1, <2>2
  <2>4. QED
    BY <1>2, <2>1, <2>2, <2>3
<1>8. QED
  BY <1>5, <1>6, <1>7 DEF MapsMatch

(* What the step leaves.                                                   *)
Leaves(s, d) ==
  /\ UNCHANGED <<sdl, additions, overlap, restarts>> /\ (refused' <=> refused)
  /\ Known' = Known \ {d} /\ iid_to_idx' \in [Known \ {d} -> Indexes]
  /\ \A p \in 1 .. Mapped : iid_to_idx'[sdl[p]] = p - 1
  /\ \A e \in Known \ {d} :
       (\A p \in 1 .. Mapped : e # sdl[p]) => iid_to_idx'[e] = iid_to_idx[e]
  /\ DOMAIN idx_to_iid' \subseteq Indexes
  /\ \A i \in DOMAIN idx_to_iid' : idx_to_iid'[i] \in Devices
  /\ devices' \in Seq(Rows) /\ Len(devices') = Len(devices) - 1
  /\ \A q \in 1 .. Len(devices') : devices'[q].iid = s.rows[q].iid
  /\ lines' \in [Slots -> Lines]
  /\ Numbered(devices', lines')
  /\ overlap < 2 =>
       /\ Indexed(devices', lines', iid_to_idx')
       /\ \A i \in Len(devices') .. MaxPads - 1 : lines'[i] = NoLine
  /\ overlap = 0 => MapsMatch(iid_to_idx', idx_to_iid')
  /\ moved' <=> /\ ~ Cancels(d)
                /\ moved \/ (chosen \in Known \ {d}
                             /\ iid_to_idx'[chosen] # iid_to_idx[chosen])

LEMMA Removed ==
  ASSUME IInv, ~ refused, RemovePad,
         NEW d, NEW r, NEW s, Begins(s, d, r)
  PROVE  Leaves(s, d)
<1>1. /\ removals # <<>>
      /\ UNCHANGED <<sdl, additions, history, restarts>>
  BY RemovePadStep
<1>2. PICK junk \in Slots : \E end :
        /\ end = Renumbered(s, Mapped, junk)
        /\ iid_to_idx' = end.byIid /\ idx_to_iid' = end.byIdx
        /\ devices' = end.rows /\ lines' = end.lines
        /\ moved' = IF Cancels(d) THEN FALSE
                    ELSE moved \/ (chosen \in DOMAIN s.byIid
                                   /\ end.byIid[chosen] # s.byIid[chosen])
  <2>1. Looped(s, d)
    BY RemovePadStep
  <2>2. QED
    BY <2>1 DEF Looped
<1>3. PICK end :
        /\ end = Renumbered(s, Mapped, junk)
        /\ iid_to_idx' = end.byIid /\ idx_to_iid' = end.byIdx
        /\ devices' = end.rows /\ lines' = end.lines
        /\ moved' = IF Cancels(d) THEN FALSE
                    ELSE moved \/ (chosen \in DOMAIN s.byIid
                                   /\ end.byIid[chosen] # s.byIid[chosen])
  BY <1>2
<1>5. /\ StartFacts(s, d, r)
      /\ s.rows \in Seq(Rows) /\ Len(s.rows) = Len(devices) - 1
      /\ Numbered(s.rows, s.lines)
  BY <1>1, StartSeats
<1>6. LoopInv(s, end, Mapped, Mapped)
  <2>1. Ready(s, Mapped)
    BY <1>1, StartReady
  <2>2. sdl \in Seq(Devices) /\ \A p, q \in 1 .. Len(sdl) : sdl[p] = sdl[q] => p = q
    BY DEF IInv, TypeOK, Queues
  <2>3. Mapped \in Nat
    BY Facts
  <2>4. LoopInv(s, Renumbered(s, Mapped, junk), Mapped, Mapped)
    BY <2>1, <2>2, <2>3, LoopKeeps
  <2>5. QED
    BY <1>3, <2>4
<1>7. Turned(s, end, Mapped)
  BY <1>6 DEF LoopInv
<1>8. DOMAIN s.byIid = Known \ {d} /\ \A e \in Known \ {d} : s.byIid[e] = iid_to_idx[e]
  BY <1>5 DEF StartFacts
<1>9. /\ iid_to_idx' \in [Known \ {d} -> Indexes]
      /\ \A p \in 1 .. Mapped : iid_to_idx'[sdl[p]] = p - 1
      /\ \A e \in Known \ {d} :
           (\A p \in 1 .. Mapped : e # sdl[p]) => iid_to_idx'[e] = iid_to_idx[e]
  <2>1. /\ end.byIid \in [DOMAIN s.byIid -> Indexes]
        /\ \A p \in 1 .. Mapped : end.byIid[sdl[p]] = p - 1
        /\ \A e \in DOMAIN s.byIid :
             (\A p \in 1 .. Mapped : e # sdl[p]) => end.byIid[e] = s.byIid[e]
    BY <1>7 DEF Turned
  <2>2. QED
    BY <1>3, <1>8, <2>1
<1>10. Known' = Known \ {d}
  BY <1>9 DEF Known
<1>11. /\ DOMAIN idx_to_iid' \subseteq Indexes
       /\ \A i \in DOMAIN idx_to_iid' : idx_to_iid'[i] \in Devices
  BY <1>3, <1>7 DEF Turned
<1>12. /\ devices' \in Seq(Rows) /\ Len(devices') = Len(devices) - 1
       /\ \A q \in 1 .. Len(devices') :
            devices'[q].id = s.rows[q].id /\ devices'[q].iid = s.rows[q].iid
       /\ lines' \in [Slots -> Lines] /\ \A i \in Slots : lines'[i].dev = s.lines[i].dev
  BY <1>3, <1>5, <1>7 DEF Turned
<1>13. Len(devices) \in Nat /\ Len(devices) <= MaxPads /\ MaxPads \in Nat
  BY Facts, Bounds DEF IInv, Seats
<1>14. Numbered(devices', lines')
  <2> SUFFICES ASSUME NEW q \in 1 .. Len(devices')
               PROVE  devices'[q].id = q - 1 /\ lines'[q - 1].dev = devices'[q].iid
    BY DEF Numbered
  <2>1. q \in 1 .. Len(s.rows) /\ q - 1 \in Slots
    BY <1>5, <1>12, <1>13 DEF Slots
  <2>2. s.rows[q].id = q - 1 /\ s.lines[q - 1].dev = s.rows[q].iid
    BY <1>5, <2>1 DEF Numbered
  <2>3. QED
    BY <1>12, <2>1, <2>2
<1>15. ASSUME overlap < 2
       PROVE  /\ Indexed(devices', lines', iid_to_idx')
              /\ \A i \in Len(devices') .. MaxPads - 1 : lines'[i] = NoLine
  <2>1. Distinct(s, Mapped)
    BY <1>1, <1>15, StartDistinct
  <2>2. /\ SameIndexes(s, s)
        /\ \A i \in Len(devices) - 1 .. MaxPads - 1 : s.lines[i] = NoLine
    BY <1>1, <1>15, StartIndexed
  <2>3. SameIndexes(s, end)
    BY <1>6, <2>1, <2>2 DEF LoopInv
  <2>4. Indexed(end.rows, end.lines, end.byIid)
    BY <2>3 DEF SameIndexes
  <2>5. \A i \in Slots : i >= Len(s.rows) => end.lines[i] = s.lines[i]
    BY <2>3 DEF SameIndexes
  <2>6. ASSUME NEW i \in Len(devices') .. MaxPads - 1 PROVE lines'[i] = NoLine
    <3>1. i \in Len(devices) - 1 .. MaxPads - 1 /\ i \in Slots /\ i >= Len(s.rows)
      BY <1>5, <1>12, <1>13, <2>6 DEF Slots
    <3>2. QED
      BY <1>3, <2>2, <2>5, <3>1
  <2>7. QED
    BY <1>3, <2>4, <2>6
<1>16. ASSUME overlap = 0 PROVE MapsMatch(iid_to_idx', idx_to_iid')
  <2>1. /\ \A e \in DOMAIN s.byIid : \E p \in 1 .. Mapped : e = sdl[p]
        /\ MapsMatch(s.byIid, s.byIdx)
    BY <1>1, <1>16, StartMatches
  <2>2. MapsMatch(end.byIid, end.byIdx)
    BY <1>6, <2>1 DEF LoopInv
  <2>3. QED
    BY <1>3, <2>2
<1>17. moved' <=> /\ ~ Cancels(d)
                  /\ moved \/ (chosen \in Known \ {d}
                               /\ iid_to_idx'[chosen] # iid_to_idx[chosen])
  <2>1. chosen \in DOMAIN s.byIid <=> chosen \in Known \ {d}
    BY <1>8
  <2>2. chosen \in Known \ {d} =>
          (end.byIid[chosen] # s.byIid[chosen] <=> iid_to_idx'[chosen] # iid_to_idx[chosen])
    BY <1>3, <1>8
  <2>3. moved' = IF Cancels(d) THEN FALSE
                 ELSE moved \/ (chosen \in DOMAIN s.byIid
                                /\ end.byIid[chosen] # s.byIid[chosen])
    BY <1>3
  <2>4. QED
    BY <2>1, <2>2, <2>3
<1>18. QED
  BY <1>1, <1>9, <1>10, <1>11, <1>12, <1>14, <1>15, <1>16, <1>17 DEF history, Leaves

LEMMA RemovePadInv ==
  ASSUME IInv, ~ refused, RemovePad
  PROVE  IInv'
<1>1. PICK d, r, s : Begins(s, d, r) /\ d = removals[1]
  BY DEF Begins
<1>2. /\ removals # <<>> /\ removals' = Tail(removals)
      /\ recording' = IF Cancels(d) THEN -1 ELSE recording
      /\ chosen' = IF Cancels(d) THEN NoDevice ELSE chosen
  BY <1>1, RemovePadStep
<1>3. /\ UNCHANGED <<sdl, additions, overlap, restarts>> /\ (refused' <=> refused)
      /\ Known' = Known \ {d} /\ iid_to_idx' \in [Known \ {d} -> Indexes]
      /\ \A p \in 1 .. Mapped : iid_to_idx'[sdl[p]] = p - 1
      /\ \A e \in Known \ {d} :
           (\A p \in 1 .. Mapped : e # sdl[p]) => iid_to_idx'[e] = iid_to_idx[e]
      /\ DOMAIN idx_to_iid' \subseteq Indexes
      /\ \A i \in DOMAIN idx_to_iid' : idx_to_iid'[i] \in Devices
      /\ devices' \in Seq(Rows) /\ Len(devices') = Len(devices) - 1
      /\ \A q \in 1 .. Len(devices') : devices'[q].iid = s.rows[q].iid
      /\ lines' \in [Slots -> Lines]
      /\ Numbered(devices', lines')
      /\ overlap < 2 =>
           /\ Indexed(devices', lines', iid_to_idx')
           /\ \A i \in Len(devices') .. MaxPads - 1 : lines'[i] = NoLine
      /\ overlap = 0 => MapsMatch(iid_to_idx', idx_to_iid')
      /\ moved' <=> /\ ~ Cancels(d)
                    /\ moved \/ (chosen \in Known \ {d}
                                 /\ iid_to_idx'[chosen] # iid_to_idx[chosen])
  <2>1. Leaves(s, d)
    BY <1>1, Removed
  <2>2. QED
    BY <2>1 DEF Leaves
<1>4. /\ Len(sdl) \in Nat /\ Len(additions) \in Nat /\ Len(removals) \in Nat
      /\ Mapped \in Nat /\ Len(devices) \in Nat
      /\ Known \subseteq Devices /\ Mapped' = Mapped
  BY <1>3, Facts DEF Mapped
<1>5. d \in Known /\ d \in Devices /\ \A p \in 1 .. Len(sdl) : sdl[p] # d
  BY <1>1, <1>2, RemovedRow
<1>6. /\ removals' \in Seq(Devices) /\ Len(removals') = Len(removals) - 1
      /\ \A q \in 1 .. Len(removals) - 1 : removals'[q] = removals[q + 1]
  BY <1>2, <1>4, HeadTailProperties DEF IInv, TypeOK
<1>7. Len(removals) >= 1
  BY <1>2, RemovedRow
<1>8. ASSUME NEW q \in 1 .. Len(removals')
      PROVE  /\ q + 1 \in 1 .. Len(removals) /\ q + 1 # 1 /\ removals'[q] = removals[q + 1]
  <2> DEFINE n == Len(removals)
  <2>1. n \in Nat /\ q \in 1 .. n - 1 /\ \A k \in 1 .. n - 1 : removals'[k] = removals[k + 1]
    BY <1>4, <1>6
  <2> HIDE DEF n
  <2>2. q + 1 \in 1 .. n /\ q + 1 # 1 /\ removals'[q] = removals[q + 1]
    BY <2>1
  <2>3. QED
    BY <2>2 DEF n
<1>9. Queues'
  <2>1. \A q, k \in 1 .. Len(removals') : removals'[q] = removals'[k] => q = k
    <3> SUFFICES ASSUME NEW q \in 1 .. Len(removals'), NEW k \in 1 .. Len(removals'),
                        removals'[q] = removals'[k]
                 PROVE  q = k
      OBVIOUS
    <3>1. q + 1 = k + 1
      BY <1>8 DEF IInv, Queues
    <3>2. QED
      BY <3>1
  <2>2. \A p \in 1 .. Len(sdl), q \in 1 .. Len(removals') : sdl[p] # removals'[q]
    BY <1>8 DEF IInv, Queues
  <2>3. QED
    BY <1>3, <1>4, <2>1, <2>2 DEF IInv, Queues
<1>10. Seats'
  <2>1. iid_to_idx' \in [Known' -> Indexes]
    BY <1>3
  <2>2. ASSUME NEW e \in Devices
        PROVE  e \in Known' <=> \/ \E p \in 1 .. Mapped' : e = sdl'[p]
                                \/ \E q \in 1 .. Len(removals') : e = removals'[q]
    <3>1. e \in Known <=> \/ \E p \in 1 .. Mapped : e = sdl[p]
                          \/ \E q \in 1 .. Len(removals) : e = removals[q]
      BY DEF IInv, Seats
    <3>2. (\E q \in 1 .. Len(removals') : e = removals'[q]) <=>
            e # d /\ \E q \in 1 .. Len(removals) : e = removals[q]
      <4>1. ASSUME NEW q \in 1 .. Len(removals), e = removals[q], e # d
            PROVE  \E k \in 1 .. Len(removals') : e = removals'[k]
        <5>1. q # 1
          BY <1>1, <4>1
        <5>2. q - 1 \in 1 .. Len(removals') /\ (q - 1) + 1 = q
          BY <1>4, <1>6, <5>1
        <5>3. e = removals'[q - 1]
          BY <1>8, <4>1, <5>2
        <5>4. QED
          BY <5>2, <5>3
      <4>2. ASSUME NEW q \in 1 .. Len(removals'), e = removals'[q]
            PROVE  e # d /\ \E k \in 1 .. Len(removals) : e = removals[k]
        <5>1. q + 1 \in 1 .. Len(removals) /\ q + 1 # 1 /\ e = removals[q + 1]
          BY <1>8, <4>2
        <5>2. 1 \in 1 .. Len(removals)
          BY <1>4, <1>7
        <5>3. removals[q + 1] # removals[1]
          BY <5>1, <5>2 DEF IInv, Queues
        <5>4. QED
          BY <1>1, <5>1, <5>3
      <4>3. QED
        BY <4>1, <4>2
    <3>3. (\E p \in 1 .. Mapped' : e = sdl'[p]) <=> e # d /\ \E p \in 1 .. Mapped : e = sdl[p]
      <4>1. \A p \in 1 .. Mapped : sdl[p] # d
        <5>1. Mapped <= Len(sdl)
          BY Facts
        <5>2. QED
          BY <1>4, <1>5, <5>1
      <4>2. QED
        BY <1>3, <1>4, <4>1
    <3>4. e \in Known' <=> e \in Known /\ e # d
      BY <1>3
    <3>5. QED
      BY <3>1, <3>2, <3>3, <3>4
  <2>3. /\ Seated' = Known'
        /\ \A q, k \in 1 .. Len(devices') : devices'[q].iid = devices'[k].iid => q = k
    <3>1. /\ StartFacts(s, d, r) /\ Len(s.rows) = Len(devices) - 1
      BY <1>1, <1>2, StartSeats
    <3>2. /\ \A q \in 1 .. Len(s.rows) : s.rows[q].iid \in DOMAIN s.byIid
          /\ \A e \in DOMAIN s.byIid : \E q \in 1 .. Len(s.rows) : s.rows[q].iid = e
          /\ \A q, k \in 1 .. Len(s.rows) : s.rows[q].iid = s.rows[k].iid => q = k
      BY <1>1, <1>2, StartCovers
    <3>3. DOMAIN s.byIid = Known'
      BY <1>3, <3>1 DEF StartFacts
    <3>4. Seated' = {devices'[q].iid : q \in 1 .. Len(devices')}
      BY <1>3, LenProperties DEF Seated
    <3>5. Len(devices') = Len(s.rows) /\ \A q \in 1 .. Len(s.rows) : devices'[q].iid = s.rows[q].iid
      BY <1>3, <3>1
    <3>6. Seated' = {s.rows[q].iid : q \in 1 .. Len(s.rows)}
      BY <3>4, <3>5
    <3>7. QED
      BY <3>2, <3>3, <3>5, <3>6
  <2>4. Len(devices') = Mapped' + Len(removals') /\ Len(devices') <= MaxPlugged
    <3>1. Len(devices) = Mapped + Len(removals) /\ Len(devices) <= MaxPlugged
      BY DEF IInv, Seats
    <3>2. MaxPlugged \in Int
      BY Bounds
    <3>3. QED
      BY <1>3, <1>4, <1>6, <3>1, <3>2
  <2>5. QED
    BY <2>1, <2>2, <2>3, <2>4 DEF Seats
<1>11. Order'
  BY <1>3, <1>4 DEF Order
<1>12. Pair'
  <2>1. overlap' < 2 => Len(removals') <= 1
    BY <1>3, <1>4, <1>6 DEF IInv, Pair
  <2>2. Len(removals') \in Nat
    BY <1>6, LenProperties
  <2>3. Len(removals') <= 1 => Len(removals') <= 2 /\ Len(removals') # 2
    BY <2>2
  <2>4. QED
    BY <2>1, <2>3 DEF Pair
<1>13. Tables'
  <2> SUFFICES ASSUME overlap' < 2
               PROVE  /\ Indexed(devices', lines', iid_to_idx')
                      /\ NoGaps(lines') /\ Ended(devices', lines')
    BY DEF Tables
  <2>1. /\ Indexed(devices', lines', iid_to_idx')
        /\ \A i \in Len(devices') .. MaxPads - 1 : lines'[i] = NoLine
    BY <1>3
  <2>2. NoGaps(lines')
    <3> SUFFICES ASSUME NEW i \in 0 .. MaxPads - 1, NEW j \in 0 .. MaxPads - 1,
                        i < j, lines'[i] = NoLine
                 PROVE  lines'[j] = NoLine
      BY DEF NoGaps
    <3>1. Len(devices') \in Nat /\ MaxPads \in Nat
      BY <1>3, LenProperties, Bounds
    <3>2. i >= Len(devices')
      <4> SUFFICES ASSUME i < Len(devices') PROVE FALSE
        BY <3>1
      <4>1. i + 1 \in 1 .. Len(devices') /\ (i + 1) - 1 = i
        BY <3>1
      <4>2. lines'[i].dev = devices'[i + 1].iid
        BY <1>3, <4>1 DEF Numbered
      <4>3. devices'[i + 1].iid \in Known'
        <5>1. DOMAIN devices' = 1 .. Len(devices')
          BY <1>3, LenProperties
        <5>2. devices'[i + 1].iid \in Seated'
          BY <4>1, <5>1 DEF Seated
        <5>3. Seated' = Known'
          BY <1>10 DEF Seats
        <5>4. QED
          BY <5>2, <5>3
      <4>4. devices'[i + 1].iid # NoDevice
        BY <1>3, <1>4, <4>3, Bounds
      <4>5. NoLine.dev = NoDevice
        BY DEF NoLine
      <4>6. QED
        BY <4>2, <4>4, <4>5
    <3>3. j \in Len(devices') .. MaxPads - 1
      BY <3>1, <3>2
    <3>4. QED
      BY <2>1, <3>3
  <2>3. QED
    BY <1>3, <2>1, <2>2 DEF Ended
<1>14. Inverses'
  <2>1. overlap' = 0 => Len(removals') <= 1
    BY <1>3, <1>4, <1>6 DEF IInv, Inverses
  <2>2. QED
    BY <1>3, <2>1 DEF Inverses
<1>15. RecordsChosenPad'
  <2> SUFFICES ASSUME overlap' < 2, recording' # -1, ~ moved'
               PROVE  chosen' \in Known' /\ iid_to_idx'[chosen'] = recording'
    BY DEF RecordsChosenPad, Known
  <2>1. ~ Cancels(d) /\ recording' = recording /\ chosen' = chosen
    BY <1>2
  <2>2. /\ ~ moved
        /\ chosen \in Known \ {d} => iid_to_idx'[chosen] = iid_to_idx[chosen]
    BY <1>3, <2>1
  <2>3. chosen \in Known /\ iid_to_idx[chosen] = recording
    BY <1>3, <2>1, <2>2 DEF IInv, RecordsChosenPad, Known
  <2>4. chosen # d
    BY <1>5, <2>1, <2>3 DEF Cancels, Known
  <2>5. QED
    BY <1>3, <2>1, <2>2, <2>3, <2>4
<1>16. TypeOK'
  <2>1. moved' \in BOOLEAN /\ refused' \in BOOLEAN
    <3>1. moved' \in BOOLEAN
      BY <1>2 DEF RemovePad, IInv, TypeOK
    <3>2. QED
      BY <3>1 DEF RemovePad, history, IInv, TypeOK
  <2>2. DOMAIN iid_to_idx' \subseteq Devices /\ ToSet(iid_to_idx') \subseteq Indexes
    BY <1>3, <1>4 DEF ToSet
  <2>3. DOMAIN idx_to_iid' \subseteq Indexes /\ ToSet(idx_to_iid') \subseteq Devices
    BY <1>3 DEF ToSet
  <2>4. recording' \in {-1} \cup Slots /\ chosen' \in Devices \cup {NoDevice}
    BY <1>2 DEF IInv, TypeOK
  <2>5. QED
    BY <1>3, <1>6, <2>1, <2>2, <2>3, <2>4 DEF IInv, TypeOK
<1>17. QED
  BY <1>3, <1>9, <1>10, <1>11, <1>12, <1>13, <1>14, <1>15, <1>16 DEF IInv

-----------------------------------------------------------------------------
(* A swap finds both rows and exchanges the gamepads of two players.       *)
Exchanged(i, j) ==
  /\ devices' \in Seq(Rows) /\ Len(devices') = Len(devices)
  /\ devices'[i + 1].id = i /\ devices'[j + 1].id = j
  /\ devices'[i + 1].iid = devices[j + 1].iid /\ devices'[i + 1].idx = devices[j + 1].idx
  /\ devices'[j + 1].iid = devices[i + 1].iid /\ devices'[j + 1].idx = devices[i + 1].idx
  /\ \A q \in 1 .. Len(devices) : q # i + 1 /\ q # j + 1 => devices'[q] = devices[q]
  /\ lines' \in [Slots -> Lines]
  /\ lines'[i] = lines[j] /\ lines'[j] = lines[i]
  /\ \A k \in Slots : k # i /\ k # j => lines'[k] = lines[k]
  /\ UNCHANGED <<sdlVars, maps, recVars, history, restarts>>

LEMMA SwapStep ==
  ASSUME IInv, ~ refused,
         NEW i \in 0 .. Len(devices) - 1, NEW j \in 0 .. Len(devices) - 1, i # j,
         Swap(i, j)
  PROVE  Exchanged(i, j)
<1>1. /\ Len(devices) \in Nat /\ devices \in Seq(Rows) /\ lines \in [Slots -> Lines]
      /\ \A r \in 1 .. Len(devices) :
           r - 1 \in Slots /\ devices[r] \in Rows /\ devices[r].id = r - 1
  BY Facts, UsedLines DEF IInv, TypeOK
<1>2. /\ i + 1 \in 1 .. Len(devices) /\ j + 1 \in 1 .. Len(devices)
      /\ (i + 1) - 1 = i /\ (j + 1) - 1 = j
  BY <1>1
<1>3. /\ i \in Slots /\ j \in Slots /\ devices[i + 1] \in Rows /\ devices[j + 1] \in Rows
      /\ devices[i + 1].id = i /\ devices[j + 1].id = j
  BY <1>1, <1>2
<1>4. ASSUME NEW k \in 0 .. Len(devices) - 1 PROVE FindById(devices, k) = k + 1
  <2> DEFINE r == FindById(devices, k)
  <2>1. /\ r \in 0 .. Len(devices) /\ (r # 0 => devices[r].id = k)
        /\ r = 0 => \A q \in 1 .. Len(devices) : devices[q].id # k
    BY <1>1, RowWithId
  <2> HIDE DEF r
  <2>2. k + 1 \in 1 .. Len(devices) /\ (k + 1) - 1 = k
    BY <1>1
  <2>3. devices[k + 1].id = k
    BY <1>1, <2>2
  <2>4. r # 0
    BY <2>1, <2>2, <2>3
  <2>5. r \in 1 .. Len(devices) /\ r - 1 = k
    BY <1>1, <2>1, <2>4
  <2>6. r = k + 1
    BY <2>5
  <2>7. QED
    BY <2>6 DEF r
<1>5. FindById(devices, i) = i + 1 /\ FindById(devices, j) = j + 1
  BY <1>4
<1> DEFINE a == i + 1
           b == j + 1
           Given(rows, r, iid, idx) ==
             IF r = 0 THEN rows ELSE [rows EXCEPT ![r].iid = iid, ![r].idx = idx]
<1>6. a # 0 /\ b # 0 /\ a # b /\ a \in 1 .. Len(devices) /\ b \in 1 .. Len(devices)
  BY <1>1, <1>2
<1>7. /\ lines' = [lines EXCEPT ![i] = lines[j], ![j] = lines[i]]
      /\ devices' = Given(Given(devices, a, devices[b].iid, devices[b].idx), b,
                          devices[a].iid, devices[a].idx)
      /\ UNCHANGED <<sdlVars, maps, recVars, history, restarts>>
  <2>1. i + 1 # 0 /\ j + 1 # 0
    BY <1>6
  <2>2. QED
    BY <1>5, <2>1 DEF Swap
<1> DEFINE rowA == [devices[a] EXCEPT !.iid = devices[b].iid, !.idx = devices[b].idx]
           rowB == [devices[b] EXCEPT !.iid = devices[a].iid, !.idx = devices[a].idx]
<1>8. /\ rowA \in Rows /\ rowA.id = i
      /\ rowA.iid = devices[b].iid /\ rowA.idx = devices[b].idx
      /\ rowB \in Rows /\ rowB.id = j
      /\ rowB.iid = devices[a].iid /\ rowB.idx = devices[a].idx
  BY <1>3 DEF Rows
<1>9. DOMAIN devices = 1 .. Len(devices)
  BY <1>1, LenProperties
<1>10. devices' = [q \in 1 .. Len(devices) |->
                     IF q = b THEN rowB ELSE IF q = a THEN rowA ELSE devices[q]]
  <2>1. Given(devices, a, devices[b].iid, devices[b].idx) =
          [devices EXCEPT ![a] = rowA]
    BY <1>6, <1>9
  <2>2. QED
    BY <1>1, <1>6, <1>7, <1>9, <2>1
<1> HIDE DEF a, b, rowA, rowB, Given
<1>11. /\ devices'[b] = rowB /\ devices'[a] = rowA
       /\ \A q \in 1 .. Len(devices) : q # a /\ q # b => devices'[q] = devices[q]
  BY <1>6, <1>10
<1>12. devices' \in Seq(Rows) /\ Len(devices') = Len(devices)
  <2>1. devices' \in [1 .. Len(devices) -> Rows]
    BY <1>1, <1>8, <1>10
  <2>2. QED
    BY <1>1, <2>1
<1>13. /\ lines' \in [Slots -> Lines]
       /\ lines'[i] = lines[j] /\ lines'[j] = lines[i]
       /\ \A k \in Slots : k # i /\ k # j => lines'[k] = lines[k]
  BY <1>1, <1>3, <1>7
<1>14. QED
  BY <1>7, <1>8, <1>11, <1>12, <1>13 DEF Exchanged, a, b

LEMMA SwapInv ==
  ASSUME IInv, ~ refused,
         NEW i \in 0 .. Len(devices) - 1, NEW j \in 0 .. Len(devices) - 1, i # j,
         Swap(i, j)
  PROVE  IInv'
<1>1. Exchanged(i, j)
  BY SwapStep
<1>2. /\ devices' \in Seq(Rows) /\ Len(devices') = Len(devices)
      /\ devices'[i + 1].id = i /\ devices'[j + 1].id = j
      /\ devices'[i + 1].iid = devices[j + 1].iid /\ devices'[i + 1].idx = devices[j + 1].idx
      /\ devices'[j + 1].iid = devices[i + 1].iid /\ devices'[j + 1].idx = devices[i + 1].idx
      /\ \A q \in 1 .. Len(devices) : q # i + 1 /\ q # j + 1 => devices'[q] = devices[q]
      /\ lines' \in [Slots -> Lines]
      /\ lines'[i] = lines[j] /\ lines'[j] = lines[i]
      /\ \A k \in Slots : k # i /\ k # j => lines'[k] = lines[k]
  BY <1>1 DEF Exchanged
<1>3. /\ UNCHANGED <<sdl, removals, additions, iid_to_idx, idx_to_iid, recording,
                     chosen, overlap, restarts>>
      /\ (moved' <=> moved) /\ (refused' <=> refused)
      /\ Mapped' = Mapped /\ Known' = Known
  BY <1>1 DEF Exchanged, sdlVars, maps, recVars, history, Mapped, Known
<1>4. /\ Len(devices) \in Nat /\ devices \in Seq(Rows)
      /\ \A r \in 1 .. Len(devices) : r - 1 \in Slots
      /\ \A k \in 0 .. Len(devices) - 1 : lines[k] # NoLine /\ k \in Slots
  BY Facts, UsedLines DEF IInv, TypeOK
<1>5. /\ i + 1 \in 1 .. Len(devices) /\ j + 1 \in 1 .. Len(devices)
      /\ (i + 1) - 1 = i /\ (j + 1) - 1 = j /\ i + 1 # j + 1
  BY <1>4
<1>6. /\ \A r \in 1 .. Len(devices) :
           devices[r].id = r - 1 /\ lines[r - 1].dev = devices[r].iid
      /\ \A q, r \in 1 .. Len(devices) : devices[q].iid = devices[r].iid => q = r
  BY DEF IInv, Numbered, Seats
<1> DEFINE was(q) == IF q = i + 1 THEN j + 1 ELSE IF q = j + 1 THEN i + 1 ELSE q
<1>7. ASSUME NEW q \in 1 .. Len(devices)
      PROVE  /\ was(q) \in 1 .. Len(devices) /\ was(was(q)) = q
             /\ devices'[q].id = q - 1
             /\ devices'[q].iid = devices[was(q)].iid
             /\ devices'[q].idx = devices[was(q)].idx
             /\ lines'[q - 1] = lines[was(q) - 1]
  <2>1. CASE q = i + 1
    BY <1>2, <1>5, <2>1
  <2>2. CASE q = j + 1
    BY <1>2, <1>5, <2>2
  <2>3. CASE q # i + 1 /\ q # j + 1
    <3>1. was(q) = q
      BY <2>3
    <3>2. devices'[q] = devices[q]
      BY <1>2, <2>3
    <3>3. q - 1 # i /\ q - 1 # j /\ q - 1 \in Slots
      BY <1>4, <2>3
    <3>4. QED
      BY <1>2, <1>6, <3>1, <3>2, <3>3
  <2>4. QED
    BY <2>1, <2>2, <2>3
<1> HIDE DEF was
<1>8. Seated' = Seated
  <2>1. Seated = {devices[q].iid : q \in 1 .. Len(devices)}
    BY <1>4, LenProperties DEF Seated
  <2>2. Seated' = {devices'[q].iid : q \in 1 .. Len(devices)}
    BY <1>2, LenProperties DEF Seated
  <2>3. ASSUME NEW q \in 1 .. Len(devices)
        PROVE  devices'[q].iid \in Seated /\ devices[q].iid \in Seated'
    BY <1>7, <2>1, <2>2
  <2>4. QED
    BY <2>1, <2>2, <2>3
<1>9. Queues'
  BY <1>3 DEF IInv, Queues
<1>10. Seats'
  <2>1. ASSUME NEW q \in 1 .. Len(devices), NEW r \in 1 .. Len(devices),
               devices'[q].iid = devices'[r].iid
        PROVE  q = r
    <3>1. PICK v \in 1 .. Len(devices) :
            v = was(q) /\ was(v) = q /\ devices'[q].iid = devices[v].iid
      BY <1>7
    <3>2. PICK w \in 1 .. Len(devices) :
            w = was(r) /\ was(w) = r /\ devices'[r].iid = devices[w].iid
      BY <1>7
    <3>3. v = w
      BY <1>6, <2>1, <3>1, <3>2
    <3>4. QED
      BY <3>1, <3>2, <3>3
  <2>2. QED
    BY <1>2, <1>3, <1>8, <2>1 DEF IInv, Seats
<1>11. Order' /\ Pair'
  BY <1>3 DEF IInv, Order, Pair
<1>12. Numbered(devices, lines)'
  <2>1. ASSUME NEW q \in 1 .. Len(devices)
        PROVE  devices'[q].id = q - 1 /\ lines'[q - 1].dev = devices'[q].iid
    <3>1. PICK v \in 1 .. Len(devices) :
            /\ devices'[q].id = q - 1
            /\ devices'[q].iid = devices[v].iid /\ devices'[q].idx = devices[v].idx
            /\ lines'[q - 1] = lines[v - 1]
      BY <1>7
    <3>2. QED
      BY <1>6, <3>1
  <2>2. QED
    BY <1>2, <2>1 DEF Numbered
<1>13. Tables'
  <2> SUFFICES ASSUME overlap' < 2
               PROVE  /\ Indexed(devices', lines', iid_to_idx')
                      /\ NoGaps(lines') /\ Ended(devices', lines')
    BY DEF Tables
  <2>1. /\ \A r \in 1 .. Len(devices) : /\ devices[r].idx = iid_to_idx[devices[r].iid]
                                        /\ lines[r - 1].idx = devices[r].idx
        /\ NoGaps(lines)
        /\ devices # <<>> => \A k \in Len(devices) .. MaxPads - 1 : lines[k] = NoLine
    BY <1>3 DEF IInv, Tables, Indexed, Ended
  <2>2. ASSUME NEW q \in 1 .. Len(devices)
        PROVE  /\ devices'[q].idx = iid_to_idx'[devices'[q].iid]
               /\ lines'[q - 1].idx = devices'[q].idx
    <3>1. PICK v \in 1 .. Len(devices) :
            /\ devices'[q].id = q - 1
            /\ devices'[q].iid = devices[v].iid /\ devices'[q].idx = devices[v].idx
            /\ lines'[q - 1] = lines[v - 1]
      BY <1>7
    <3>2. QED
      BY <1>3, <2>1, <3>1
  <2>3. ASSUME NEW k \in Len(devices) .. MaxPads - 1 PROVE lines'[k] = NoLine
    <3>1. k \in Slots /\ k # i /\ k # j
      BY <1>4, Bounds DEF Slots
    <3>2. devices # <<>>
      <4>1. Len(devices) # 0
        BY <1>4, <1>5
      <4>2. QED
        BY <4>1
    <3>3. QED
      BY <1>2, <2>1, <3>1, <3>2
  <2>4. NoGaps(lines')
    <3> SUFFICES ASSUME NEW k \in 0 .. MaxPads - 1, NEW l \in 0 .. MaxPads - 1,
                        k < l, lines'[k] = NoLine
                 PROVE  lines'[l] = NoLine
      BY DEF NoGaps
    <3>1. ~ (k < Len(devices))
      <4> SUFFICES ASSUME k < Len(devices) PROVE FALSE
        OBVIOUS
      <4>1. k + 1 \in 1 .. Len(devices) /\ (k + 1) - 1 = k
        BY <1>4
      <4>2. was(k + 1) \in 1 .. Len(devices) /\ lines'[k] = lines[was(k + 1) - 1]
        BY <1>7, <4>1
      <4>3. was(k + 1) - 1 \in 0 .. Len(devices) - 1
        BY <1>4, <4>2
      <4>4. QED
        BY <1>4, <4>2, <4>3
    <3>2. l \in Len(devices) .. MaxPads - 1
      BY <1>4, <3>1, Bounds
    <3>3. QED
      BY <2>3, <3>2
  <2>5. QED
    BY <1>2, <1>3, <2>1, <2>2, <2>3, <2>4 DEF Indexed, Ended
<1>14. Inverses'
  BY <1>3 DEF IInv, Inverses, MapsMatch
<1>15. RecordsChosenPad'
  BY <1>3 DEF IInv, RecordsChosenPad
<1>16. TypeOK'
  <2>1. moved' \in BOOLEAN /\ refused' \in BOOLEAN
    BY <1>1 DEF Exchanged, recVars, history, IInv, TypeOK
  <2>2. QED
    BY <1>2, <1>3, <2>1 DEF IInv, TypeOK
<1>17. QED
  BY <1>3, <1>9, <1>10, <1>11, <1>12, <1>13, <1>14, <1>15, <1>16 DEF IInv

-----------------------------------------------------------------------------
(* What a recording and a restart leave alone.                             *)
LEMMA RecordingOnly ==
  ASSUME IInv, ~ refused,
         UNCHANGED <<sdlVars, maps, devices, lines, history, restarts>>,
         RecordsChosenPad', moved' \in BOOLEAN,
         recording' \in {-1} \cup Slots, chosen' \in Devices \cup {NoDevice}
  PROVE  IInv'
<1>1. /\ UNCHANGED <<sdl, removals, additions, iid_to_idx, idx_to_iid, devices, lines,
                     overlap, restarts>>
      /\ (refused' <=> refused) /\ Mapped' = Mapped /\ Known' = Known /\ Seated' = Seated
  BY DEF sdlVars, maps, history, Mapped, Known, Seated
<1>2. Queues' /\ Order' /\ Pair'
  BY <1>1 DEF IInv, Queues, Order, Pair
<1>3. Seats'
  BY <1>1 DEF IInv, Seats
<1>4. Numbered(devices, lines)' /\ Tables' /\ Inverses'
  BY <1>1 DEF IInv, Numbered, Tables, Indexed, NoGaps, Ended, Inverses, MapsMatch
<1>5. TypeOK'
  <2>1. refused' \in BOOLEAN
    BY DEF history, IInv, TypeOK
  <2>2. QED
    BY <1>1, <2>1 DEF IInv, TypeOK
<1>6. QED
  BY <1>2, <1>3, <1>4, <1>5 DEF IInv

LEMMA StartRecordingInv ==
  ASSUME IInv, ~ refused, NEW r \in DOMAIN devices, StartRecording(r)
  PROVE  IInv'
<1>1. /\ recording' = devices[r].idx /\ chosen' = devices[r].iid /\ ~ moved'
      /\ UNCHANGED <<sdlVars, maps, devices, lines, history, restarts>>
      /\ moved' \in BOOLEAN
  BY DEF StartRecording
<1>2. r \in 1 .. Len(devices)
  BY LenProperties DEF IInv, TypeOK
<1>3. devices[r] \in Rows /\ devices[r].iid \in Known /\ Known \subseteq Devices
  BY <1>2, Facts, ElementOfSeq DEF IInv, TypeOK
<1>4. recording' \in {-1} \cup Slots /\ chosen' \in Devices \cup {NoDevice}
  BY <1>1, <1>3 DEF Rows
<1>5. RecordsChosenPad'
  <2>1. overlap < 2 => devices[r].idx = iid_to_idx[devices[r].iid]
    BY <1>2 DEF IInv, Tables, Indexed
  <2>2. iid_to_idx' = iid_to_idx /\ overlap' = overlap
    BY <1>1 DEF maps, history
  <2>3. QED
    BY <1>1, <1>3, <2>1, <2>2 DEF RecordsChosenPad, Known
<1>6. QED
  BY <1>1, <1>4, <1>5, RecordingOnly

LEMMA FinishRecordingInv ==
  ASSUME IInv, ~ refused, NEW d \in Devices, FinishRecording(d)
  PROVE  IInv'
<1>1. /\ recording' = -1 /\ chosen' = NoDevice
      /\ UNCHANGED <<sdlVars, maps, devices, lines, history, restarts>>
      /\ moved' \in BOOLEAN
  BY DEF FinishRecording
<1>2. RecordsChosenPad'
  BY <1>1 DEF RecordsChosenPad
<1>3. QED
  BY <1>1, <1>2, RecordingOnly

LEMMA RestartInv ==
  ASSUME IInv, ~ refused, Restart
  PROVE  IInv'
<1>1. /\ removals' = <<>> /\ additions' = [p \in DOMAIN sdl |-> p - 1]
      /\ iid_to_idx' = NoMap /\ idx_to_iid' = NoMap
      /\ devices' = <<>> /\ lines' \in Leftovers /\ recording' = -1 /\ chosen' = NoDevice
      /\ sdl' = sdl /\ overlap' = 0 /\ (refused' <=> refused)
      /\ restarts < MaxRestarts /\ restarts' = restarts + 1
  BY DEF Restart
<1>2. /\ Len(sdl) \in Nat /\ sdl \in Seq(Devices) /\ Len(sdl) <= MaxPlugged
      /\ DOMAIN sdl = 1 .. Len(sdl)
  BY Facts, LenProperties DEF IInv, TypeOK, Queues
<1>3. /\ additions' \in Seq(Indexes) /\ Len(additions') = Len(sdl)
      /\ \A p \in 1 .. Len(sdl) : additions'[p] = p - 1
  <2>1. \A p \in 1 .. Len(sdl) : p - 1 \in Indexes
    BY <1>2, Bounds DEF Indexes
  <2>2. additions' \in [1 .. Len(sdl) -> Indexes]
    BY <1>1, <1>2, <2>1
  <2>3. \A p \in 1 .. Len(sdl) : additions'[p] = p - 1
    BY <1>1, <1>2
  <2>4. QED
    BY <1>2, <2>2, <2>3
<1>4. Mapped' = 0 /\ Len(removals') = 0 /\ Len(devices') = 0
  BY <1>1, <1>2, <1>3, EmptySeq DEF Mapped
<1>5. Known' = {} /\ Seated' = {}
  BY <1>1, NoMapFacts DEF Known, Seated
<1>6. Queues'
  BY <1>1, <1>2, <1>3, <1>4 DEF IInv, Queues
<1>7. Seats'
  BY <1>1, <1>4, <1>5, NoMapFacts, Bounds DEF Seats
<1>8. Order' /\ Pair' /\ Numbered(devices, lines)'
  BY <1>4 DEF Order, Pair, Numbered
<1>9. lines' \in [Slots -> Lines] /\ Tables'
  BY <1>1, <1>4, LeftoversAssumption DEF Tables, Indexed, Ended
<1>10. Inverses'
  BY <1>1, <1>4, NoMapFacts DEF Inverses, MapsMatch
<1>11. RecordsChosenPad'
  BY <1>1 DEF RecordsChosenPad
<1>12. TypeOK'
  <2>1. moved' \in BOOLEAN /\ refused' \in BOOLEAN
    BY DEF Restart, IInv, TypeOK
  <2>2. /\ DOMAIN iid_to_idx' \subseteq Devices /\ ToSet(iid_to_idx') \subseteq Indexes
        /\ DOMAIN idx_to_iid' \subseteq Indexes /\ ToSet(idx_to_iid') \subseteq Devices
    BY <1>1, NoMapFacts
  <2>3. restarts' \in 0 .. MaxRestarts
    BY <1>1, BoundsAssumption DEF IInv, TypeOK
  <2>4. removals' \in Seq(Devices) /\ devices' \in Seq(Rows)
    BY <1>1
  <2>5. QED
    BY <1>1, <1>3, <1>9, <2>1, <2>2, <2>3, <2>4 DEF IInv, TypeOK
<1>13. QED
  BY <1>1, <1>6, <1>7, <1>8, <1>9, <1>10, <1>11, <1>12 DEF IInv

LEMMA RefuseInv ==
  ASSUME IInv, ~ refused, RefuseController
  PROVE  IInv'
<1>1. /\ additions # <<>> /\ additions' = Tail(additions) /\ refused'
      /\ UNCHANGED <<sdl, removals, iid_to_idx, idx_to_iid, devices, lines,
                     recording, chosen, overlap, restarts>>
  BY DEF RefuseController, maps, recVars
<1>2. additions' \in Seq(Indexes)
  BY <1>1, HeadTailProperties DEF IInv, TypeOK
<1>3. moved' \in BOOLEAN /\ refused' \in BOOLEAN
  BY DEF RefuseController, recVars, IInv, TypeOK
<1>4. TypeOK'
  BY <1>1, <1>2, <1>3 DEF IInv, TypeOK
<1>5. QED
  BY <1>1, <1>4 DEF IInv

-----------------------------------------------------------------------------
LEMMA NextInv == IInv /\ [Next]_vars => IInv'
<1> SUFFICES ASSUME IInv, [Next]_vars PROVE IInv'
  OBVIOUS
<1>1. CASE UNCHANGED vars
  <2>1. /\ UNCHANGED <<sdl, removals, additions, iid_to_idx, idx_to_iid, devices, lines,
                       recording, chosen, overlap, restarts>>
        /\ (moved' <=> moved) /\ (refused' <=> refused)
        /\ Mapped' = Mapped /\ Known' = Known /\ Seated' = Seated
    BY <1>1 DEF vars, Mapped, Known, Seated
  <2>2. TypeOK'
    <3>1. moved' \in BOOLEAN /\ refused' \in BOOLEAN
      BY <1>1 DEF vars, IInv, TypeOK
    <3>2. QED
      BY <2>1, <3>1 DEF IInv, TypeOK
  <2>3. CASE ~ refused
    <3>1. Queues' /\ Order' /\ Pair'
      BY <2>1, <2>3 DEF IInv, Queues, Order, Pair
    <3>2. Seats'
      BY <2>1, <2>3 DEF IInv, Seats
    <3>3. Numbered(devices, lines)' /\ Tables' /\ Inverses'
      BY <2>1, <2>3 DEF IInv, Numbered, Tables, Indexed, NoGaps, Ended, Inverses, MapsMatch
    <3>4. RecordsChosenPad'
      BY <2>1, <2>3 DEF IInv, RecordsChosenPad
    <3>5. QED
      BY <2>2, <3>1, <3>2, <3>3, <3>4 DEF IInv
  <2>4. CASE refused
    BY <2>1, <2>2, <2>4 DEF IInv
  <2>5. QED
    BY <2>3, <2>4
<1>2. CASE ~ refused /\ (Poll \/ Others)
  <2>1. CASE AddController
    BY <1>2, <2>1, AddControllerInv
  <2>2. CASE RefuseController
    BY <1>2, <2>2, RefuseInv
  <2>3. CASE RemovePad
    BY <1>2, <2>3, RemovePadInv
  <2>4. ASSUME NEW d \in Devices, Plug(d) PROVE IInv'
    BY <1>2, <2>4, PlugInv
  <2>5. ASSUME NEW d \in Devices, FinishRecording(d) PROVE IInv'
    BY <1>2, <2>5, FinishRecordingInv
  <2>6. ASSUME NEW p \in DOMAIN sdl, Unplug(p) PROVE IInv'
    <3>1. CASE p > Mapped
      BY <1>2, <2>6, <3>1, UnplugWaiting
    <3>2. CASE p <= Mapped
      BY <1>2, <2>6, <3>2, UnplugSeated
    <3>3. p \in Int /\ Mapped \in Int
      BY <1>2, Facts, LenProperties DEF IInv, TypeOK
    <3>4. QED
      BY <3>1, <3>2, <3>3
  <2>7. CASE SwapRows
    <3>1. PICK row \in 1 .. Len(devices) - 1 : Swap(row, row - 1) \/ Swap(row - 1, row)
      BY <2>7 DEF SwapRows
    <3>2. /\ row \in 0 .. Len(devices) - 1 /\ row - 1 \in 0 .. Len(devices) - 1
          /\ row # row - 1 /\ row - 1 # row
      BY <1>2, <3>1, Facts
    <3> DEFINE before == row - 1
    <3>3. before \in 0 .. Len(devices) - 1 /\ row # before /\ before # row
          /\ (Swap(row, before) \/ Swap(before, row))
      BY <3>1, <3>2
    <3> HIDE DEF before
    <3>4. QED
      BY <1>2, <3>2, <3>3, SwapInv
  <2>8. ASSUME NEW r \in DOMAIN devices, StartRecording(r) PROVE IInv'
    BY <1>2, <2>8, StartRecordingInv
  <2>9. CASE Restart
    BY <1>2, <2>9, RestartInv
  <2>10. QED
    BY <1>2, <2>1, <2>2, <2>3, <2>4, <2>5, <2>6, <2>7, <2>8, <2>9 DEF Poll, Others
<1>3. QED
  BY <1>1, <1>2 DEF Next

(* Everything the seats rest on, at any time.                              *)
THEOREM Invariant == Spec => []IInv
<1>1. Init => IInv
  BY InitInv
<1>2. IInv /\ [Next]_vars => IInv'
  BY NextInv
<1>3. QED
  BY <1>1, <1>2, PTL DEF Spec

(* The variables keep their types; no index or player leaves the lines.    *)
THEOREM TypeCorrect == Spec => []TypeOK
<1>1. IInv => TypeOK
  BY DEF IInv
<1>2. QED
  BY <1>1, Invariant, PTL

(* Players, rows and lines keep the same numbers, each line names the      *)
(* gamepad of its player and, while no removal is queued behind two        *)
(* others, has its index and no line is left over: whatever is plugged,    *)
(* unplugged, swapped, saved and restarted (bkOnConnected, bkOnRemoved,    *)
(* bkOnIndexChanged, swap).                                                *)
THEOREM LinesFollow == Spec => []LinesFollowRows
<1>1. IInv => LinesFollowRows
  <2> SUFFICES ASSUME IInv, ~ refused
               PROVE  /\ \A r \in DOMAIN devices :
                           devices[r].id = r - 1 /\ lines[r - 1].dev = devices[r].iid
                      /\ overlap < 2 =>
                           /\ \A r \in DOMAIN devices : lines[r - 1].idx = devices[r].idx
                           /\ devices # <<>> =>
                                \A i \in Len(devices) .. MaxPads - 1 : lines[i] = NoLine
    BY DEF LinesFollowRows
  <2>1. DOMAIN devices = 1 .. Len(devices)
    BY LenProperties DEF IInv, TypeOK
  <2>2. QED
    BY <2>1 DEF IInv, Numbered, Tables, Indexed, Ended
<1>2. QED
  BY <1>1, Invariant, PTL

(* Each gamepad has one row.                                               *)
LEMMA OneRowEach ==
  ASSUME IInv, ~ refused
  PROVE  Cardinality(Seated) = Len(devices)
<1>1. /\ Len(devices) \in Nat /\ DOMAIN devices = 1 .. Len(devices)
      /\ \A q, r \in 1 .. Len(devices) : devices[q].iid = devices[r].iid => q = r
  BY Facts, LenProperties DEF IInv, TypeOK, Seats
<1> DEFINE S == 1 .. Len(devices)
           iids == [r \in S |-> devices[r].iid]
<1>2. iids \in Bijection(S, Seated)
  <2>1. Seated = {devices[r].iid : r \in S}
    BY <1>1 DEF Seated
  <2>2. iids \in [S -> Seated]
    BY <2>1
  <2>3. \A q, r \in S : iids[q] = iids[r] => q = r
    BY <1>1
  <2>4. \A d \in Seated : \E r \in S : iids[r] = d
    BY <2>1
  <2>5. QED
    BY <2>2, <2>3, <2>4 DEF Bijection, Injection, Surjection, IsInjective
<1>3. ExistsBijection(S, Seated)
  BY <1>2 DEF ExistsBijection
<1>4. IsFiniteSet(S) /\ Cardinality(S) = Len(devices)
  <2>1. /\ IsFiniteSet(1 .. Len(devices))
        /\ Cardinality(1 .. Len(devices)) =
             IF 1 > Len(devices) THEN 0 ELSE Len(devices) - 1 + 1
    BY <1>1, FS_Interval
  <2>2. QED
    BY <1>1, <2>1
<1>5. QED
  BY <1>3, <1>4, FS_Bijection

(* When no removal is queued: the rows are the gamepads the backend knows, *)
(* one each; row, map and SDL agree on the index of each while no removal  *)
(* was queued behind two others, the other map while none was queued       *)
(* behind another (add_controller_by_idx, remove_pad_by_iid).              *)
THEOREM AgreeOnIndexes == Spec => []IndexesAgree
<1>1. IInv => IndexesAgree
  <2> SUFFICES ASSUME IInv, ~ refused, removals = <<>>
               PROVE  /\ Seated = DOMAIN iid_to_idx
                      /\ Cardinality(Seated) = Len(devices)
                      /\ \A r \in DOMAIN devices :
                           /\ overlap < 2 =>
                                /\ iid_to_idx[devices[r].iid] = devices[r].idx
                                /\ devices[r].idx + 1 \in DOMAIN sdl
                                /\ sdl[devices[r].idx + 1] = devices[r].iid
                           /\ overlap = 0 =>
                                /\ devices[r].idx \in DOMAIN idx_to_iid
                                /\ idx_to_iid[devices[r].idx] = devices[r].iid
    BY DEF IndexesAgree
  <2>1. /\ DOMAIN devices = 1 .. Len(devices) /\ DOMAIN sdl = 1 .. Len(sdl)
        /\ Len(removals) = 0 /\ Len(sdl) \in Nat
    BY LenProperties DEF IInv, TypeOK
  <2>2. Seated = DOMAIN iid_to_idx
    BY DEF IInv, Seats, Known
  <2>3. Cardinality(Seated) = Len(devices)
    BY OneRowEach
  <2>4. ASSUME NEW r \in 1 .. Len(devices), overlap < 2
        PROVE  iid_to_idx[devices[r].iid] = devices[r].idx
    BY <2>4 DEF IInv, Tables, Indexed
  <2>5. ASSUME NEW r \in 1 .. Len(devices), overlap < 2
        PROVE  devices[r].idx + 1 \in DOMAIN sdl /\ sdl[devices[r].idx + 1] = devices[r].iid
    <3>1. devices[r].iid \in Known /\ devices[r].iid \in Devices
      BY Facts
    <3>2. PICK p \in 1 .. Mapped : devices[r].iid = sdl[p]
      BY <2>1, <3>1 DEF IInv, Seats
    <3>3. iid_to_idx[sdl[p]] = p - 1
      BY DEF IInv, Order
    <3>4. devices[r].idx = p - 1
      BY <2>4, <2>5, <3>2, <3>3
    <3>5. devices[r].idx + 1 = p /\ p \in 1 .. Len(sdl)
      <4>1. Mapped \in Nat /\ Mapped <= Len(sdl)
        BY Facts
      <4>2. QED
        BY <2>1, <3>4, <4>1
    <3>6. QED
      BY <2>1, <3>2, <3>5
  <2>6. ASSUME NEW r \in 1 .. Len(devices), overlap = 0
        PROVE  /\ devices[r].idx \in DOMAIN idx_to_iid
               /\ idx_to_iid[devices[r].idx] = devices[r].iid
    <3>1. devices[r].iid \in DOMAIN iid_to_idx
      BY Facts DEF Known
    <3>2. devices[r].idx = iid_to_idx[devices[r].iid]
      BY <2>4, <2>6
    <3>3. QED
      BY <2>6, <3>1, <3>2 DEF IInv, Inverses, MapsMatch
  <2>7. QED
    BY <2>1, <2>2, <2>3, <2>4, <2>5, <2>6
<1>2. QED
  BY <1>1, Invariant, PTL

(* A recording waits for the pad whose page asked for it and ends when     *)
(* that pad is removed, unless a removal gave it another index             *)
(* (remove_pad_by_iid, cancel_recording), while no removal was queued      *)
(* behind two others.                                                      *)
THEOREM RecordsChosen == Spec => []RecordsChosenPad
<1>1. IInv => RecordsChosenPad
  BY DEF IInv, RecordsChosenPad
<1>2. QED
  BY <1>1, Invariant, PTL

-----------------------------------------------------------------------------
(* The seat of a gamepad is the one row it has.                            *)
LEMMA SeatOf ==
  ASSUME NEW rows \in Seq(Rows),
         \A q, k \in 1 .. Len(rows) : rows[q].iid = rows[k].iid => q = k,
         NEW r \in 1 .. Len(rows), NEW d, rows[r].iid = d
  PROVE  Seat(rows, d) = r
<1> DEFINE f == FindByIid(rows, d)
<1>1. /\ f \in 0 .. Len(rows) /\ (f # 0 => rows[f].iid = d)
      /\ f = 0 => \A q \in 1 .. Len(rows) : rows[q].iid # d
  BY RowWithIid
<1> HIDE DEF f
<1>2. f # 0
  BY <1>1
<1>3. f \in 1 .. Len(rows)
  BY <1>1, <1>2, LenProperties
<1>4. f = r
  BY <1>1, <1>2, <1>3
<1>5. QED
  BY <1>4 DEF f, Seat

InSameOrder ==
  \A q, k \in 1 .. Len(devices'), i, j \in 1 .. Len(devices) :
    q < k /\ devices'[q].iid = devices[i].iid /\ devices'[k].iid = devices[j].iid => i < j

LEMMA OrderOfSeats ==
  ASSUME IInv, ~ refused, IInv', ~ refused', InSameOrder,
         NEW d \in Seated \cap Seated', NEW e \in Seated \cap Seated',
         Seat(devices, d) < Seat(devices, e)
  PROVE  Seat(devices', d) < Seat(devices', e)
<1>1. /\ devices \in Seq(Rows) /\ DOMAIN devices = 1 .. Len(devices)
      /\ \A q, k \in 1 .. Len(devices) : devices[q].iid = devices[k].iid => q = k
  BY LenProperties DEF IInv, TypeOK, Seats
<1>2. /\ devices' \in Seq(Rows) /\ DOMAIN devices' = 1 .. Len(devices')
      /\ \A q, k \in 1 .. Len(devices') : devices'[q].iid = devices'[k].iid => q = k
  <2>1. devices' \in Seq(Rows)
    BY DEF IInv, TypeOK
  <2>2. QED
    BY <2>1, LenProperties DEF IInv, Seats
<1>3. PICK i \in 1 .. Len(devices) : devices[i].iid = d
  BY <1>1 DEF Seated
<1>4. PICK j \in 1 .. Len(devices) : devices[j].iid = e
  BY <1>1 DEF Seated
<1>5. PICK q \in 1 .. Len(devices') : devices'[q].iid = d
  BY <1>2 DEF Seated
<1>6. PICK k \in 1 .. Len(devices') : devices'[k].iid = e
  BY <1>2 DEF Seated
<1>7. Seat(devices, d) = i /\ Seat(devices, e) = j
  BY <1>1, <1>3, <1>4, SeatOf
<1>8. Seat(devices', d) = q
  BY <1>2, <1>5, SeatOf
<1>9. Seat(devices', e) = k
  BY <1>2, <1>6, SeatOf
<1>10. i < j
  BY <1>7
<1>11. q # k
  BY <1>1, <1>3, <1>4, <1>5, <1>6, <1>10
<1>12. ~ (k < q)
  <2>1. ASSUME k < q PROVE j < i
    BY <1>3, <1>4, <1>5, <1>6, <2>1 DEF InSameOrder
  <2>2. QED
    BY <1>10, <2>1
<1>13. q < k
  BY <1>11, <1>12
<1>14. QED
  BY <1>8, <1>9, <1>13

LEMMA AddKeepsSeats ==
  ASSUME IInv, ~ refused, IInv', ~ refused', AddController
  PROVE  Seated \subseteq Seated' /\ InSameOrder
<1> DEFINE n == Mapped
           d == sdl[Mapped + 1]
<1>1. /\ n \in Indexes /\ d \in Devices /\ d \notin Known /\ Len(devices) = n
      /\ Connect(n, d)
  BY Added
<1> HIDE DEF n, d
<1>2. /\ Len(devices') = n + 1
      /\ devices'[n + 1] = [id |-> n, iid |-> d, idx |-> n]
      /\ \A r \in 1 .. n : devices'[r] = devices[r]
      /\ Seated' = Known \cup {d}
  BY <1>1, Connected
<1>3. Seated = Known /\ n \in Nat /\ \A r \in 1 .. n : devices[r].iid \in Known
  BY <1>1, Facts DEF IInv, Seats
<1>4. \A q, r \in 1 .. n : devices[q].iid = devices[r].iid => q = r
  BY <1>1 DEF IInv, Seats
<1>5. ASSUME NEW q \in 1 .. n + 1, NEW i \in 1 .. n, devices'[q].iid = devices[i].iid
      PROVE  q = i
  <2>1. q # n + 1
    BY <1>1, <1>2, <1>3, <1>5
  <2>2. q \in 1 .. n
    BY <1>3, <2>1
  <2>3. QED
    BY <1>2, <1>4, <1>5, <2>2
<1>6. InSameOrder
  BY <1>1, <1>2, <1>5 DEF InSameOrder
<1>7. QED
  BY <1>2, <1>3, <1>6

LEMMA RemoveKeepsSeats ==
  ASSUME IInv, ~ refused, IInv', RemovePad
  PROVE  /\ \A d \in Seated \ Seated' : removals # <<>> /\ Head(removals) = d
         /\ InSameOrder
<1>1. PICK d, r, s : Begins(s, d, r) /\ d = removals[1]
  BY DEF Begins
<1>2. removals # <<>>
  BY DEF RemovePad
<1>3. Leaves(s, d)
  BY <1>1, Removed
<1>4. /\ Known' = Known \ {d} /\ Len(devices') = Len(devices) - 1
      /\ \A q \in 1 .. Len(devices') : devices'[q].iid = s.rows[q].iid
      /\ refused' = refused
  <2>1. refused' = refused
    BY DEF RemovePad, history
  <2>2. QED
    BY <1>3, <2>1 DEF Leaves
<1>5. Seated = Known /\ Seated' = Known' /\ Len(devices) \in Nat
  BY <1>4, Facts DEF IInv, Seats
<1>6. Head(removals) = d
  BY <1>1, <1>2, RemovedRow
<1>7. Len(s.rows) = Len(devices')
  BY <1>1, <1>2, <1>4, StartSeats
<1>8. ASSUME NEW q \in 1 .. Len(devices'), NEW i \in 1 .. Len(devices),
             devices'[q].iid = devices[i].iid
      PROVE  i = q \/ i = q + 1
  <2>1. q \in 1 .. Len(s.rows)
    BY <1>7
  <2>2. PICK k \in 1 .. Len(devices) :
          /\ k = q \/ k = q + 1
          /\ s.rows[q].iid = devices[k].iid
          /\ \A p \in 1 .. Len(devices) : devices[p].iid = devices[k].iid => p = k
    BY <1>1, <1>2, <2>1, StartRow
  <2>3. i = k
    BY <1>4, <1>8, <2>2
  <2>4. QED
    BY <2>2, <2>3
<1>9. InSameOrder
  <2> SUFFICES ASSUME NEW q \in 1 .. Len(devices'), NEW k \in 1 .. Len(devices'),
                      NEW i \in 1 .. Len(devices), NEW j \in 1 .. Len(devices),
                      q < k, devices'[q].iid = devices[i].iid, devices'[k].iid = devices[j].iid
               PROVE  i < j
    BY DEF InSameOrder
  <2>1. (i = q \/ i = q + 1) /\ (j = k \/ j = k + 1)
    BY <1>8
  <2>2. i # j
    <3>1. \A x, y \in 1 .. Len(devices') : devices'[x].iid = devices'[y].iid => x = y
      BY <1>4 DEF IInv, Seats
    <3>2. q # k
      OBVIOUS
    <3>3. QED
      BY <3>1, <3>2
  <2>3. QED
    BY <2>1, <2>2
<1>10. QED
  BY <1>2, <1>4, <1>5, <1>6, <1>9

LEMMA SwapKeepsSeats ==
  ASSUME IInv, ~ refused, IInv', SwapRows
  PROVE  Seated' = Seated /\ sdlVars' = sdlVars
<1>1. sdlVars' = sdlVars /\ iid_to_idx' = iid_to_idx /\ refused' = refused
  BY DEF SwapRows, Swap, maps, history
<1>2. QED
  BY <1>1 DEF IInv, Seats, Known

LEMMA SameRowsKeepSeats ==
  ASSUME devices' = devices
  PROVE  KeepSeats
<1>1. Seated' = Seated
  BY DEF Seated
<1>2. \A d : Seat(devices', d) = Seat(devices, d)
  OBVIOUS
<1>3. QED
  BY <1>1, <1>2 DEF KeepSeats

(* A gamepad leaves the rows only when its own removal is handled or the   *)
(* program restarts, and two players change order only by a swap           *)
(* (bkOnConnected, bkOnRemoved, swap).                                     *)
THEOREM KeepsSeats == Spec => SeatsKept
<1>1. IInv /\ IInv' /\ [Next]_vars => [KeepSeats]_vars
  <2> SUFFICES ASSUME IInv, IInv', Next PROVE KeepSeats
    BY DEF vars
  <2>1. CASE UNCHANGED vars
    BY <2>1, SameRowsKeepSeats DEF vars
  <2>2. CASE ~ refused /\ (Poll \/ Others)
    <3>1. CASE AddController
      <4>1. ~ refused'
        BY <2>2, <3>1 DEF AddController, history
      <4>2. Seated \subseteq Seated' /\ InSameOrder
        BY <2>2, <3>1, <4>1, AddKeepsSeats
      <4>3. \A d, e \in Seated \cap Seated' :
              Seat(devices, d) < Seat(devices, e) => Seat(devices', d) < Seat(devices', e)
        BY <2>2, <4>1, <4>2, OrderOfSeats
      <4>4. QED
        BY <4>2, <4>3 DEF KeepSeats
    <3>2. CASE RefuseController
      BY <3>2, SameRowsKeepSeats DEF RefuseController
    <3>3. CASE RemovePad
      <4>1. ~ refused'
        BY <2>2, <3>3 DEF RemovePad, history
      <4>2. /\ \A d \in Seated \ Seated' : removals # <<>> /\ Head(removals) = d
            /\ InSameOrder
        BY <2>2, <3>3, RemoveKeepsSeats
      <4>3. \A d, e \in Seated \cap Seated' :
              Seat(devices, d) < Seat(devices, e) => Seat(devices', d) < Seat(devices', e)
        BY <2>2, <4>1, <4>2, OrderOfSeats
      <4>4. QED
        BY <4>2, <4>3 DEF KeepSeats
    <3>4. ASSUME NEW d \in Devices, Plug(d) \/ FinishRecording(d) PROVE KeepSeats
      BY <3>4, SameRowsKeepSeats DEF Plug, FinishRecording
    <3>5. ASSUME NEW p \in DOMAIN sdl, Unplug(p) PROVE KeepSeats
      BY <3>5, SameRowsKeepSeats DEF Unplug
    <3>6. CASE SwapRows
      BY <2>2, <3>6, SwapKeepsSeats DEF KeepSeats
    <3>7. ASSUME NEW r \in DOMAIN devices, StartRecording(r) PROVE KeepSeats
      BY <3>7, SameRowsKeepSeats DEF StartRecording
    <3>8. CASE Restart
      <4>1. restarts' # restarts
        BY <3>8 DEF Restart, IInv, TypeOK
      <4>2. QED
        BY <4>1 DEF KeepSeats
    <3>9. QED
      BY <2>2, <3>1, <3>2, <3>3, <3>4, <3>5, <3>6, <3>7, <3>8 DEF Poll, Others
  <2>3. QED
    BY <2>1, <2>2 DEF Next
<1>2. QED
  BY <1>1, Invariant, PTL DEF Spec, SeatsKept

=============================================================================
