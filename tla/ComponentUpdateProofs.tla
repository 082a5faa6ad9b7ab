----------------------- MODULE ComponentUpdateProofs -----------------------
(***************************************************************************)
(* The update of a component, for any files, any number of launches and    *)
(* redirections: unless a timer fires during a transfer there is one       *)
(* transfer at a time, its counters agree with the queue, and the script   *)
(* is started only when every file is there.                               *)
(***************************************************************************)
EXTENDS ComponentUpdate, SequenceTheorems, TLAPS

(* The type invariant in two parts: Boolean variables are better apart     *)
(* from arithmetic.                                                        *)
FlagsOK ==
  /\ starting \in BOOLEAN /\ open \in BOOLEAN /\ error \in BOOLEAN
  /\ sane \in [Files -> BOOLEAN] /\ loops \in Seq(BOOLEAN)
  /\ crashed \in BOOLEAN /\ overlapped \in BOOLEAN /\ hasty \in BOOLEAN

ValuesOK ==
  /\ queue \in Seq(Items) /\ timers \in Nat
  /\ current \in Items \union {NoItem} /\ live \subseteq Items
  /\ size \in [Files -> 0 .. 3]
  /\ downloaded \in Nat /\ total \in Nat
  /\ step \in 0 .. 4 /\ scripts \in Nat
  /\ launches \in 0 .. MaxLaunches /\ redirects \in 0 .. MaxRedirects
  /\ mangled \subseteq Files

-----------------------------------------------------------------------------
(* The items of a launch, and the one of a redirected file.                *)
Assets(n) == [i \in DOMAIN Batch |-> [file |-> Batch[i], launch |-> n, hop |-> 0]]

LEMMA AssetsType ==
  ASSUME NEW n \in 1 .. MaxLaunches
  PROVE  /\ Assets(n) \in Seq(Items) /\ Len(Assets(n)) = Len(Batch)
         /\ Len(Batch) \in Nat \ {0}
         /\ \A f \in Files : \E i \in 1 .. Len(Assets(n)) : Assets(n)[i].file = f
<1>1. Len(Batch) \in Nat \ {0} /\ DOMAIN Batch = 1 .. Len(Batch)
  BY FilesAssumption, EmptySeq
<1>2. \A i \in 1 .. Len(Batch) : Batch[i] \in Files
  BY FilesAssumption
<1>3. \A i \in 1 .. Len(Batch) :
        [file |-> Batch[i], launch |-> n, hop |-> 0] \in Items
  BY <1>2, BoundsAssumption DEF Items
<1>4. Assets(n) \in [1 .. Len(Batch) -> Items]
  BY <1>1, <1>3 DEF Assets
<1>5. Assets(n) \in Seq(Items)
  BY <1>1, <1>4, SeqDef
<1>6. Len(Assets(n)) = Len(Batch)
  BY <1>1, <1>4, <1>5, LenProperties
<1>7. \A f \in Files : \E i \in 1 .. Len(Assets(n)) : Assets(n)[i].file = f
  BY <1>1, <1>6, FilesAssumption DEF Assets
<1>8. QED
  BY <1>1, <1>5, <1>6, <1>7

(* What a launch does to the queue.                                        *)
LEMMA LaunchQueue ==
  ASSUME Launch
  PROVE  /\ queue' = queue \o Assets(launches')
         /\ timers' = IF queue = <<>> THEN timers + 1 ELSE timers
         /\ launches' = launches + 1 /\ launches < MaxLaunches
  BY DEF Launch, AppendAll, Assets

LEMMA InitTypes == Init => FlagsOK /\ ValuesOK
<1> SUFFICES ASSUME Init PROVE FlagsOK /\ ValuesOK
  OBVIOUS
<1>1. FlagsOK
  <2>1. sane \in [Files -> BOOLEAN]
    BY DEF Init
  <2>2. loops \in Seq(BOOLEAN)
    BY DEF Init
  <2>3. /\ starting = FALSE /\ open = FALSE /\ error = FALSE
        /\ crashed = FALSE /\ overlapped = FALSE /\ hasty = FALSE
    BY DEF Init
  <2>4. QED
    BY <2>1, <2>2, <2>3 DEF FlagsOK
<1>2. ValuesOK
  BY BoundsAssumption DEF Init, ValuesOK
<1>3. QED
  BY <1>1, <1>2

LEMMA FlagsNext == FlagsOK /\ [Next]_vars => FlagsOK'
<1> SUFFICES ASSUME FlagsOK, [Next]_vars PROVE FlagsOK'
  OBVIOUS
<1> USE DEF FlagsOK
<1>1. CASE Launch
  <2>1. sane' = [sane EXCEPT ![Batch[1]] = TRUE]
    BY <1>1 DEF Launch, RemoveScript
  <2>2. sane' \in [Files -> BOOLEAN]
    BY <2>1
  <2>3. loops' = Append(loops, FALSE)
    BY <1>1 DEF Launch
  <2>4. loops' \in Seq(BOOLEAN)
    BY <2>3
  <2>5. hasty' \in BOOLEAN
    BY <1>1 DEF Launch
  <2>6. UNCHANGED <<starting, open, crashed, overlapped>> /\ error' = FALSE
    BY <1>1 DEF Launch
  <2>7. QED
    BY <2>2, <2>4, <2>5, <2>6
<1>2. CASE TimerFires
  <2>1. overlapped' \in BOOLEAN
    BY <1>2 DEF TimerFires
  <2>2. UNCHANGED <<open, error, sane, loops, crashed, hasty>> /\ starting' = TRUE
    BY <1>2 DEF TimerFires, disk, status, update
  <2>3. QED
    BY <2>1, <2>2
<1>3. CASE QueueDone
  <2>1. [i \in 1 .. Len(loops) |-> TRUE] \in [1 .. Len(loops) -> BOOLEAN]
    OBVIOUS
  <2>2. DOMAIN loops = 1 .. Len(loops) /\ Len(loops) \in Nat
    BY LenProperties
  <2>3. [i \in DOMAIN loops |-> TRUE] \in Seq(BOOLEAN)
    BY <2>1, <2>2, SeqDef
  <2>4. QED
    BY <1>3, <2>3 DEF QueueDone, disk, status, misc
<1>4. CASE OpenFails \/ AlreadyThere
  BY <1>4 DEF OpenFails, AlreadyThere, disk, update, misc
<1>5. CASE StartTransfer
  BY <1>5 DEF StartTransfer, disk, status, update, misc
<1>6. ASSUME NEW e \in live, NEW resumed \in BOOLEAN, TransferSucceeds(e, resumed)
      PROVE  FlagsOK'
  BY <1>6 DEF TransferSucceeds, EndTransfer, update
<1>7. ASSUME NEW e \in live, NEW n \in 0 .. 3, NEW page \in BOOLEAN,
             TransferFails(e, n, page)
      PROVE  FlagsOK'
  BY <1>7 DEF TransferFails, EndTransfer, update
<1>8. ASSUME NEW e \in live, TransferRedirected(e) PROVE FlagsOK'
  BY <1>8 DEF TransferRedirected, EndTransfer, update, status
<1>9. ASSUME NEW e \in live, NEW n \in 0 .. 2, StrayFinished(e, n) PROVE FlagsOK'
  BY <1>9 DEF StrayFinished, manager, disk, status, update
<1>10. CASE LoopReturns
  <2>1. SubSeq(loops, 1, Len(loops) - 1) \in Seq(BOOLEAN)
    BY <1>10 DEF LoopReturns
  <2>2. QED
    BY <1>10, <2>1 DEF LoopReturns, manager, disk, status, misc
<1>11. CASE ScriptEnds
  BY <1>11 DEF ScriptEnds, manager, disk, status, misc
<1>12. CASE UNCHANGED vars
  BY <1>12 DEF vars, manager, disk, status, update, misc
<1>13. QED
  BY <1>1, <1>2, <1>3, <1>4, <1>5, <1>6, <1>7, <1>8, <1>9, <1>10, <1>11, <1>12
     DEF Next, StartNextDownload, ReplyFinishes

LEMMA ValuesNext == ValuesOK /\ [Next]_vars => ValuesOK'
<1> SUFFICES ASSUME ValuesOK, [Next]_vars PROVE ValuesOK'
  OBVIOUS
<1> USE DEF ValuesOK
<1>1. CASE Launch
  <2>1. launches' \in 1 .. MaxLaunches
    BY <1>1, LaunchQueue, BoundsAssumption
  <2>2. queue' = queue \o Assets(launches')
    BY <1>1, LaunchQueue
  <2>3. queue' \in Seq(Items) /\ Len(Batch) \in Nat
    BY <2>1, <2>2, AssetsType
  <2>4. timers' \in Nat
    BY <1>1, LaunchQueue
  <2>5. size' = [size EXCEPT ![Batch[1]] = 0] /\ mangled' = mangled \ {Batch[1]}
    BY <1>1 DEF Launch, RemoveScript, SetSize
  <2>6. /\ UNCHANGED <<current, live, scripts, redirects>>
        /\ step' = 1 /\ downloaded' = 0 /\ total' = Len(Batch)
    BY <1>1 DEF Launch
  <2>7. size' \in [Files -> 0 .. 3]
    <3>1. size' = [size EXCEPT ![Batch[1]] = 0]
      BY <2>5
    <3>2. 0 \in 0 .. 3 /\ size \in [Files -> 0 .. 3]
      OBVIOUS
    <3>3. QED
      BY <3>1, <3>2, Zenon
  <2>8. mangled' \subseteq Files
    BY <2>5
  <2>9. QED
    BY <2>1, <2>3, <2>4, <2>6, <2>7, <2>8, BoundsAssumption
<1>2. CASE TimerFires
  BY <1>2 DEF TimerFires, disk, status, update
<1>3. CASE QueueDone
  BY <1>3 DEF QueueDone, disk, status, misc
<1>4. CASE OpenFails \/ AlreadyThere
  <2>1. queue' \in Seq(Items)
    BY <1>4 DEF OpenFails, AlreadyThere
  <2>2. /\ UNCHANGED <<timers, current, live, size, mangled, total, step, scripts,
                       launches, redirects>>
        /\ downloaded' = downloaded \/ downloaded' = downloaded + 1
    BY <1>4 DEF OpenFails, AlreadyThere, disk, update, misc
  <2>3. QED
    BY <2>1, <2>2
<1>5. CASE StartTransfer
  <2>1. Head(queue) \in Items /\ queue' \in Seq(Items)
    BY <1>5 DEF StartTransfer
  <2>2. size' \in [Files -> 0 .. 3] /\ mangled' \subseteq Files
    BY <1>5 DEF StartTransfer, SetSize, disk
  <2>3. current' \in Items /\ live' \subseteq Items
    BY <1>5, <2>1 DEF StartTransfer
  <2>4. UNCHANGED <<timers, downloaded, total, step, scripts, launches, redirects>>
    BY <1>5 DEF StartTransfer, status, update, misc
  <2>5. QED
    BY <2>1, <2>2, <2>3, <2>4
<1>6. ASSUME NEW e \in live, NEW resumed \in BOOLEAN, TransferSucceeds(e, resumed)
      PROVE  ValuesOK'
  <2>1. \/ size' = [size EXCEPT ![e.file] = 2]
        \/ size' = [size EXCEPT ![e.file] = 0]
    BY <1>6 DEF TransferSucceeds, SetSize
  <2>2. mangled' \subseteq Files /\ downloaded' \in Nat
    BY <1>6 DEF TransferSucceeds
  <2>3. UNCHANGED <<queue, timers, total, redirects, current, step, scripts, launches>>
    BY <1>6 DEF TransferSucceeds, EndTransfer, update
  <2>4. live' \subseteq Items
    BY <1>6 DEF TransferSucceeds, EndTransfer
  <2>5. size' \in [Files -> 0 .. 3]
    BY <2>1
  <2>6. QED
    BY <2>2, <2>3, <2>4, <2>5
<1>7. ASSUME NEW e \in live, NEW n \in 0 .. 3, NEW page \in BOOLEAN,
             TransferFails(e, n, page)
      PROVE  ValuesOK'
  <2>1. e.file \in Files
    BY DEF Items
  <2>2. mangled' \subseteq Files /\ size' \in [Files -> 0 .. 3]
    BY <1>7, <2>1 DEF TransferFails, SetSize
  <2>3. QED
    BY <1>7, <2>2 DEF TransferFails, EndTransfer, update
<1>8. ASSUME NEW e \in live, TransferRedirected(e) PROVE ValuesOK'
  <2> DEFINE again == [e EXCEPT !.hop = redirects']
  <2>1. redirects' \in 0 .. MaxRedirects
    BY <1>8, BoundsAssumption DEF TransferRedirected
  <2>2. again \in Items
    BY <2>1 DEF Items
  <2>3. queue' \in Seq(Items) /\ timers' \in Nat
    BY <1>8, <2>2 DEF TransferRedirected, AppendAll
  <2>4. size' = [size EXCEPT ![e.file] = 0] /\ mangled' = mangled \ {e.file}
    BY <1>8 DEF TransferRedirected, SetSize
  <2>5. live' \subseteq Items
        /\ UNCHANGED <<current, downloaded, total, step, scripts, launches>>
    BY <1>8 DEF TransferRedirected, EndTransfer, status, update
  <2>6. size' \in [Files -> 0 .. 3] /\ mangled' \subseteq Files
    <3>1. size' = [size EXCEPT ![e.file] = 0]
      BY <2>4
    <3>2. 0 \in 0 .. 3 /\ size \in [Files -> 0 .. 3]
      OBVIOUS
    <3>3. size' \in [Files -> 0 .. 3]
      BY <3>1, <3>2, Zenon
    <3>4. QED
      BY <2>4, <3>3
  <2>7. QED
    BY <2>1, <2>3, <2>5, <2>6
<1>9. ASSUME NEW e \in live, NEW n \in 0 .. 2, StrayFinished(e, n) PROVE ValuesOK'
  BY <1>9 DEF StrayFinished, SetSize, manager, disk, status, update
<1>10. CASE LoopReturns
  BY <1>10 DEF LoopReturns, manager, disk, status, misc
<1>11. CASE ScriptEnds
  BY <1>11 DEF ScriptEnds, manager, disk, status, misc
<1>12. CASE UNCHANGED vars
  BY <1>12 DEF vars, manager, disk, status, update, misc
<1>13. QED
  BY <1>1, <1>2, <1>3, <1>4, <1>5, <1>6, <1>7, <1>8, <1>9, <1>10, <1>11, <1>12
     DEF Next, StartNextDownload, ReplyFinishes

(* Every variable keeps its type, the counters included.                   *)
THEOREM TypeCorrect == Spec => []TypeOK
<1>1. FlagsOK /\ ValuesOK => TypeOK
  BY DEF FlagsOK, ValuesOK, TypeOK
<1>2. QED
  BY <1>1, InitTypes, FlagsNext, ValuesNext, PTL DEF Spec

-----------------------------------------------------------------------------
(* A reply that is not the current one ends only when transfers overlap.   *)
LEMMA NoStray ==
  ASSUME OneTransfer, ~overlapped, NEW e \in live, NEW n \in 0 .. 2,
         StrayFinished(e, n)
  PROVE  FALSE
  BY DEF OneTransfer, StrayFinished

(* OneTransfer is inductive by itself.                                     *)
LEMMA OneTransferNext == OneTransfer /\ [Next]_vars => OneTransfer'
<1> SUFFICES ASSUME OneTransfer, [Next]_vars, ~overlapped' PROVE OneTransfer'
  BY DEF OneTransfer
<1> USE DEF OneTransfer
<1>1. CASE Launch
  BY <1>1 DEF Launch
<1>2. CASE TimerFires
  BY <1>2 DEF TimerFires
<1>3. CASE QueueDone
  BY <1>3 DEF QueueDone, misc
<1>4. CASE OpenFails \/ AlreadyThere
  BY <1>4 DEF OpenFails, AlreadyThere, misc
<1>5. CASE StartTransfer
  BY <1>5 DEF StartTransfer, misc
<1>6. ASSUME NEW e \in live, EndTransfer(e) PROVE OneTransfer'
  BY <1>6 DEF EndTransfer
<1>7. ASSUME NEW e \in live, NEW n \in 0 .. 2, StrayFinished(e, n)
      PROVE  OneTransfer'
  BY <1>7, NoStray DEF StrayFinished
<1>8. CASE LoopReturns \/ ScriptEnds \/ UNCHANGED vars
  BY <1>8 DEF LoopReturns, ScriptEnds, vars, manager, misc
<1>9. QED
  BY <1>1, <1>2, <1>3, <1>4, <1>5, <1>6, <1>7, <1>8
     DEF Next, StartNextDownload, ReplyFinishes, TransferSucceeds,
         TransferFails, TransferRedirected

LEMMA InitOneTransfer == Init => OneTransfer
  BY DEF Init, OneTransfer

(* Whatever the network does and however often the player retries, replies *)
(* do not overlap before a timer fires during a transfer.                  *)
THEOREM TransfersAreSingle == Spec => []OneTransfer
  BY InitOneTransfer, OneTransferNext, PTL DEF Spec

-----------------------------------------------------------------------------
(* The innermost nested loop has not been quit.                            *)
Waits == loops # <<>> /\ ~loops[Len(loops)]

(* finished() quits the loops only when nothing is queued or transferred.  *)
WaitInv ==
  /\ loops # <<>> => launches > 0
  /\ ~overlapped /\ (queue # <<>> \/ live # {}) => Waits

LEMMA WaitNext ==
  FlagsOK /\ ValuesOK /\ OneTransfer /\ WaitInv /\ [Next]_vars => WaitInv'
<1> SUFFICES ASSUME FlagsOK, ValuesOK, OneTransfer, WaitInv, [Next]_vars
             PROVE  WaitInv'
  OBVIOUS
<1>0. /\ loops \in Seq(BOOLEAN) /\ queue \in Seq(Items)
      /\ launches \in 0 .. MaxLaunches /\ MaxLaunches \in Nat
  BY BoundsAssumption DEF FlagsOK, ValuesOK
<1>1. CASE Launch
  <2>1. loops' = Append(loops, FALSE)
    BY <1>1 DEF Launch
  <2>2. Waits'
    <3>1. Append(loops, FALSE)[Len(Append(loops, FALSE))] = FALSE
      BY <1>0, AppendProperties
    <3>2. Append(loops, FALSE) # <<>>
      <4>1. FALSE \in BOOLEAN
        OBVIOUS
      <4>2. QED
        BY <1>0, <4>1, AppendProperties, Zenon
    <3>3. QED
      BY <2>1, <3>1, <3>2 DEF Waits
  <2>3. launches' > 0
    BY <1>0, <1>1 DEF Launch
  <2>4. QED
    BY <2>2, <2>3 DEF WaitInv
<1>2. CASE TimerFires
  BY <1>2 DEF TimerFires, WaitInv, Waits, update
<1>3. CASE QueueDone
  <2>1. queue' = <<>> /\ live' = live /\ launches' = launches
        /\ overlapped' = overlapped /\ starting
    BY <1>3 DEF QueueDone, misc
  <2>2. loops = <<>> => loops' = <<>>
    BY <1>3 DEF QueueDone
  <2>3. QED
    BY <2>1, <2>2 DEF WaitInv, OneTransfer
<1>4. CASE OpenFails \/ AlreadyThere
  BY <1>4 DEF OpenFails, AlreadyThere, WaitInv, Waits, update, misc
<1>5. CASE StartTransfer
  BY <1>5 DEF StartTransfer, WaitInv, Waits, update, misc
<1>6. ASSUME NEW e \in live, EndTransfer(e) PROVE WaitInv'
  <2>1. UNCHANGED <<loops, launches, overlapped>>
    BY <1>6 DEF EndTransfer, update
  <2>2. QED
    BY <1>6, <2>1 DEF WaitInv, Waits
<1>7. ASSUME NEW e \in live, NEW n \in 0 .. 2, StrayFinished(e, n) PROVE WaitInv'
  <2>1. UNCHANGED <<loops, launches, overlapped>>
    BY <1>7 DEF StrayFinished, update
  <2>2. QED
    BY <1>7, <2>1, NoStray DEF WaitInv, Waits
<1>8. CASE LoopReturns
  <2>1. ~Waits /\ loops # <<>> /\ UNCHANGED <<queue, live, launches, overlapped>>
    BY <1>8 DEF LoopReturns, Waits, manager, misc
  <2>2. QED
    BY <2>1 DEF WaitInv
<1>9. CASE ScriptEnds \/ UNCHANGED vars
  BY <1>9 DEF ScriptEnds, WaitInv, Waits, vars, manager, update, misc
<1>10. QED
  BY <1>1, <1>2, <1>3, <1>4, <1>5, <1>6, <1>7, <1>8, <1>9
     DEF Next, StartNextDownload, ReplyFinishes, TransferSucceeds,
         TransferFails, TransferRedirected

-----------------------------------------------------------------------------
(* A file without an error page in it holds a prefix of the asset.         *)
SoundInv == \A f \in Files \ mangled : sane[f] /\ size[f] <= 2

LEMMA ResetSound ==
  ASSUME FlagsOK, ValuesOK, SoundInv, NEW f \in Files,
         size' = [size EXCEPT ![f] = 0], sane' = [sane EXCEPT ![f] = TRUE],
         mangled' = mangled \ {f}
  PROVE  SoundInv'
  BY DEF SoundInv, FlagsOK, ValuesOK

LEMMA SoundNext == FlagsOK /\ ValuesOK /\ SoundInv /\ [Next]_vars => SoundInv'
<1> SUFFICES ASSUME FlagsOK, ValuesOK, SoundInv, [Next]_vars PROVE SoundInv'
  OBVIOUS
<1>0. /\ size \in [Files -> 0 .. 3] /\ sane \in [Files -> BOOLEAN]
      /\ live \subseteq Items /\ queue \in Seq(Items)
      /\ current \in Items \union {NoItem} /\ \A e \in Items : e.file \in Files
  BY DEF FlagsOK, ValuesOK, Items
<1>1. CASE UNCHANGED disk
  BY <1>1 DEF disk, SoundInv
<1>2. CASE Launch
  <2>1. Batch[1] \in Files
    BY FilesAssumption, EmptySeq
  <2>2. QED
    BY <1>2, <2>1, ResetSound DEF Launch, RemoveScript, SetSize
<1>3. CASE StartTransfer
  <2>1. Head(queue).file \in Files
    BY <1>0, <1>3 DEF StartTransfer
  <2>2. QED
    BY <1>1, <1>3, <2>1, ResetSound DEF StartTransfer, SetSize
<1>4. ASSUME NEW e \in live, NEW resumed \in BOOLEAN, TransferSucceeds(e, resumed)
      PROVE  SoundInv'
  <2>1. CASE resumed \/ ~HasSize(e)
    <3>1. size' = [size EXCEPT ![e.file] = 2] /\ UNCHANGED <<sane, mangled>>
      BY <1>4, <2>1 DEF TransferSucceeds, SetSize
    <3>2. QED
      BY <1>0, <3>1 DEF SoundInv
  <2>2. CASE ~(resumed \/ ~HasSize(e))
    BY <1>0, <1>4, <2>2, ResetSound DEF TransferSucceeds, SetSize
  <2>3. QED
    BY <2>1, <2>2
<1>5. ASSUME NEW e \in live, NEW n \in 0 .. 3, NEW page \in BOOLEAN,
             TransferFails(e, n, page)
      PROVE  SoundInv'
  <2>1. size' = [size EXCEPT ![e.file] = n]
    BY <1>5 DEF TransferFails, SetSize
  <2>2. CASE page
    <3>1. /\ mangled' = mangled \union {e.file}
          /\ sane' = [sane EXCEPT ![e.file] = @ /\ ~page]
      BY <1>5, <2>2 DEF TransferFails
    <3>2. QED
      BY <1>0, <2>1, <3>1 DEF SoundInv
  <2>3. CASE ~page
    <3>1. n < 2 /\ mangled' = mangled
      BY <1>5, <2>3 DEF TransferFails
    <3>2. sane' = sane
      BY <1>0, <1>5, <2>3 DEF TransferFails
    <3>3. QED
      BY <1>0, <2>1, <3>1, <3>2 DEF SoundInv
  <2>4. QED
    BY <2>2, <2>3
<1>6. ASSUME NEW e \in live, TransferRedirected(e) PROVE SoundInv'
  BY <1>0, <1>6, ResetSound DEF TransferRedirected, SetSize
<1>7. ASSUME NEW e \in live, NEW n \in 0 .. 2, StrayFinished(e, n) PROVE SoundInv'
  <2>1. CASE current \notin live
    BY <1>1, <1>7, <2>1 DEF StrayFinished
  <2>2. CASE current \in live
    <3>1. current.file \in Files
      BY <1>0, <2>2
    <3>2. CASE HasSize(current) /\ n # 2
      BY <1>7, <2>2, <3>1, <3>2, ResetSound DEF StrayFinished, SetSize
    <3>3. CASE ~(HasSize(current) /\ n # 2)
      <4>1. size' = [size EXCEPT ![current.file] = n] /\ UNCHANGED <<sane, mangled>>
        BY <1>7, <2>2, <3>3 DEF StrayFinished, SetSize
      <4>2. QED
        BY <1>0, <4>1 DEF SoundInv
    <3>4. QED
      BY <3>2, <3>3
  <2>3. QED
    BY <2>1, <2>2
<1>8. QED
  BY <1>1, <1>2, <1>3, <1>4, <1>5, <1>6, <1>7
     DEF Next, vars, StartNextDownload, ReplyFinishes, TimerFires, QueueDone,
         OpenFails, AlreadyThere, LoopReturns, ScriptEnds

-----------------------------------------------------------------------------
(* As long as no error was recorded, every file of the release is complete *)
(* or on its way.                                                          *)
OnItsWay(f) ==
  \/ \E i \in 1 .. Len(queue) : queue[i].file = f
  \/ live # {} /\ current.file = f
FilesInv ==
  ~overlapped /\ ~error /\ launches > 0 =>
    \A f \in Files \ mangled : size[f] = 2 \/ OnItsWay(f)

LEMMA FilesNext ==
  /\ FlagsOK /\ ValuesOK /\ OneTransfer /\ SoundInv /\ FilesInv
  /\ [Next]_vars
  => FilesInv'
<1> SUFFICES ASSUME FlagsOK, ValuesOK, OneTransfer, SoundInv, FilesInv,
                    [Next]_vars, ~overlapped', ~error', launches' > 0,
                    NEW f \in Files, f \notin mangled'
             PROVE  size'[f] = 2 \/ OnItsWay(f)'
  BY DEF FilesInv
<1>0. /\ size \in [Files -> 0 .. 3] /\ live \subseteq Items /\ queue \in Seq(Items)
      /\ launches \in 0 .. MaxLaunches /\ MaxLaunches \in Nat
      /\ \A e \in Items : e.file \in Files
  BY BoundsAssumption DEF ValuesOK, Items
<1>1. ~overlapped
  BY DEF Next, StartNextDownload, ReplyFinishes, Launch, TimerFires, QueueDone,
         OpenFails, AlreadyThere, StartTransfer, TransferSucceeds, TransferFails,
         TransferRedirected, EndTransfer, StrayFinished, LoopReturns, ScriptEnds,
         vars, misc
<1>2. ASSUME UNCHANGED <<queue, live, current, disk, error, launches>>
      PROVE  size'[f] = 2 \/ OnItsWay(f)'
  BY <1>1, <1>2 DEF FilesInv, OnItsWay, disk
<1>3. CASE Launch
  <2>1. launches' \in 1 .. MaxLaunches /\ queue' = queue \o Assets(launches')
    BY <1>0, <1>3, LaunchQueue
  <2>2. /\ Assets(launches') \in Seq(Items)
        /\ \E i \in 1 .. Len(Assets(launches')) : Assets(launches')[i].file = f
    BY <2>1, AssetsType
  <2>3. PICK i \in 1 .. Len(Assets(launches')) : Assets(launches')[i].file = f
    BY <2>2
  <2>4. Len(queue) \in Nat /\ Len(Assets(launches')) \in Nat
    BY <1>0, <2>2, LenProperties
  <2>5. /\ Len(queue') = Len(queue) + Len(Assets(launches'))
        /\ queue'[Len(queue) + i] = Assets(launches')[i]
    BY <1>0, <2>1, <2>2, <2>4, ConcatProperties
  <2>6. Len(queue) + i \in 1 .. Len(queue')
    BY <2>4, <2>5
  <2>7. QED
    BY <2>3, <2>5, <2>6 DEF OnItsWay
<1>4. CASE AlreadyThere \/ StartTransfer
  <2> DEFINE e == Head(queue)
  <2>1. queue # <<>> /\ starting /\ queue' = Tail(queue)
    BY <1>4 DEF AlreadyThere, StartTransfer
  <2>2. /\ Len(queue) \in Nat \ {0} /\ e \in Items /\ e = queue[1]
        /\ Len(Tail(queue)) = Len(queue) - 1
        /\ \A i \in 1 .. Len(queue) - 1 : Tail(queue)[i] = queue[i + 1]
    BY <1>0, <2>1, HeadTailProperties, EmptySeq
  <2>3. live = {} /\ ~error /\ launches > 0
    <3>1. UNCHANGED <<error, launches>>
      BY <1>4 DEF AlreadyThere, StartTransfer, update, status
    <3>2. live = {}
      BY <1>1, <2>1 DEF OneTransfer
    <3>3. QED
      BY <3>1, <3>2
  <2>4. CASE f # e.file
    <3>1. f \notin mangled /\ size'[f] = size[f]
      BY <1>0, <1>4, <2>4 DEF AlreadyThere, StartTransfer, disk, SetSize
    <3>2. CASE size[f] = 2
      BY <3>1, <3>2
    <3>3. CASE size[f] # 2
      <4>1. PICK i \in 1 .. Len(queue) : queue[i].file = f
        BY <1>1, <2>3, <3>1, <3>3 DEF FilesInv, OnItsWay
      <4>2. i # 1
        BY <2>2, <2>4, <4>1
      <4>3. i - 1 \in 1 .. Len(queue) - 1 /\ Tail(queue)[i - 1] = queue[i]
        BY <2>2, <4>2
      <4>4. i - 1 \in 1 .. Len(queue') /\ queue'[i - 1].file = f
        BY <2>1, <2>2, <4>1, <4>3
      <4>5. QED
        BY <4>4 DEF OnItsWay
    <3>4. QED
      BY <3>2, <3>3
  <2>5. CASE f = e.file
    <3>1. CASE AlreadyThere
      <4>1. size[f] >= 2 /\ UNCHANGED disk
        BY <2>5, <3>1 DEF AlreadyThere
      <4>2. size[f] <= 2 /\ size[f] \in 0 .. 3
        BY <1>0, <4>1 DEF SoundInv, disk
      <4>3. QED
        BY <4>1, <4>2 DEF disk
    <3>2. CASE StartTransfer
      BY <2>5, <3>2 DEF StartTransfer, OnItsWay
    <3>3. QED
      BY <1>4, <3>1, <3>2
  <2>6. QED
    BY <2>4, <2>5
<1>5. ASSUME NEW e \in live, NEW resumed \in BOOLEAN, TransferSucceeds(e, resumed)
      PROVE  size'[f] = 2 \/ OnItsWay(f)'
  <2>1. /\ e = current /\ queue' = queue /\ launches' = launches
        /\ size' = [size EXCEPT ![e.file] = 2]
        /\ ~error /\ mangled' = mangled
    BY <1>5 DEF TransferSucceeds, EndTransfer, update, SetSize
  <2>2. QED
    BY <1>0, <1>1, <2>1 DEF FilesInv, OnItsWay
<1>6. ASSUME NEW e \in live, TransferRedirected(e)
      PROVE  size'[f] = 2 \/ OnItsWay(f)'
  <2> DEFINE again == [e EXCEPT !.hop = redirects']
  <2>1. /\ e = current /\ queue' = queue \o <<again>> /\ launches' = launches
        /\ size' = [size EXCEPT ![e.file] = 0]
        /\ ~error /\ mangled' = mangled \ {e.file}
    BY <1>6 DEF TransferRedirected, EndTransfer, update, status, SetSize, AppendAll
  <2>2. redirects' \in 0 .. MaxRedirects
    BY <1>6, BoundsAssumption DEF TransferRedirected, ValuesOK
  <2>3. again \in Items /\ again.file = e.file
    BY <1>0, <2>2 DEF Items
  <2>4. /\ Len(queue) \in Nat /\ Len(queue') = Len(queue) + 1
        /\ \A i \in 1 .. Len(queue) : queue'[i] = queue[i]
        /\ queue'[Len(queue) + 1] = again
    BY <1>0, <2>1, <2>3
  <2>5. CASE f = e.file
    <3>1. Len(queue) + 1 \in 1 .. Len(queue') /\ queue'[Len(queue) + 1].file = f
      BY <2>3, <2>4, <2>5
    <3>2. QED
      BY <3>1 DEF OnItsWay
  <2>6. CASE f # e.file
    BY <1>0, <1>1, <2>1, <2>4, <2>6 DEF FilesInv, OnItsWay
  <2>7. QED
    BY <2>5, <2>6
<1>7. CASE TimerFires
  BY <1>2, <1>7 DEF TimerFires, status, update
<1>8. CASE QueueDone
  BY <1>2, <1>8 DEF QueueDone, status
<1>9. CASE LoopReturns \/ ScriptEnds
  BY <1>2, <1>9 DEF LoopReturns, ScriptEnds, status, manager
<1>10. CASE OpenFails
  BY <1>10 DEF OpenFails
<1>11. ASSUME NEW e \in live, NEW n \in 0 .. 3, NEW page \in BOOLEAN,
              TransferFails(e, n, page)
       PROVE  FALSE
  BY <1>11 DEF TransferFails
<1>12. ASSUME NEW e \in live, NEW n \in 0 .. 2, StrayFinished(e, n) PROVE FALSE
  BY <1>1, <1>12, NoStray
<1>13. CASE UNCHANGED vars
  BY <1>2, <1>13 DEF vars, manager, status, update
<1>14. QED
  BY <1>3, <1>4, <1>5, <1>6, <1>7, <1>8, <1>9, <1>10, <1>11, <1>12, <1>13
     DEF Next, StartNextDownload, ReplyFinishes

-----------------------------------------------------------------------------
(* Unless a retry reset them, the counters account for every file: it was  *)
(* downloaded, waits, or is being transferred.                             *)
InTransfer == IF live = {} THEN 0 ELSE 1
CountInv ==
  ~overlapped /\ ~hasty /\ ~error => downloaded + Len(queue) + InTransfer = total

LEMMA CountNext ==
  ValuesOK /\ OneTransfer /\ WaitInv /\ CountInv /\ [Next]_vars => CountInv'
<1> SUFFICES ASSUME ValuesOK, OneTransfer, WaitInv, CountInv, [Next]_vars,
                    ~overlapped', ~hasty', ~error'
             PROVE  (downloaded + Len(queue) + InTransfer = total)'
  BY DEF CountInv
<1>0. /\ queue \in Seq(Items) /\ downloaded \in Nat /\ total \in Nat
      /\ Len(queue) \in Nat /\ live \subseteq Items
  BY LenProperties DEF ValuesOK
<1>1. ~overlapped /\ ~hasty
  <2>1. ~overlapped
    BY DEF Next, StartNextDownload, ReplyFinishes, Launch, TimerFires, QueueDone,
           OpenFails, AlreadyThere, StartTransfer, TransferSucceeds, TransferFails,
           TransferRedirected, EndTransfer, StrayFinished, LoopReturns,
           ScriptEnds, vars, misc
  <2>2. ~hasty
    BY DEF Next, StartNextDownload, ReplyFinishes, Launch, TimerFires, QueueDone,
           OpenFails, AlreadyThere, StartTransfer, TransferSucceeds, TransferFails,
           TransferRedirected, EndTransfer, StrayFinished, LoopReturns,
           ScriptEnds, vars, misc
  <2>3. QED
    BY <2>1, <2>2
<1>2. ASSUME UNCHANGED <<queue, live, status>>
      PROVE  (downloaded + Len(queue) + InTransfer = total)'
  BY <1>1, <1>2 DEF CountInv, InTransfer, status
<1>3. CASE Launch
  <2>1. loops = <<>>
    BY <1>3 DEF Launch
  <2>2. queue = <<>> /\ live = {}
    BY <1>1, <2>1 DEF WaitInv, Waits
  <2>3. launches' \in 1 .. MaxLaunches /\ queue' = queue \o Assets(launches')
    BY <1>3, LaunchQueue, BoundsAssumption DEF ValuesOK
  <2>4. /\ Assets(launches') \in Seq(Items) /\ Len(Assets(launches')) = Len(Batch)
        /\ Len(Batch) \in Nat
    BY <2>3, AssetsType
  <2>5. Len(queue') = Len(Batch)
    BY <2>2, <2>3, <2>4, ConcatProperties, EmptySeq
  <2>6. live' = live /\ downloaded' = 0 /\ total' = Len(Batch)
    BY <1>3 DEF Launch
  <2>7. QED
    BY <2>2, <2>4, <2>5, <2>6 DEF InTransfer
<1>4. CASE AlreadyThere \/ StartTransfer
  <2>1. queue # <<>> /\ starting /\ queue' = Tail(queue)
    BY <1>4 DEF AlreadyThere, StartTransfer
  <2>2. Len(queue') = Len(queue) - 1
    BY <1>0, <2>1, HeadTailProperties
  <2>3. live = {} /\ error' = error /\ total' = total
    <3>1. live = {}
      BY <1>1, <2>1 DEF OneTransfer
    <3>2. error' = error /\ total' = total
      BY <1>4 DEF AlreadyThere, StartTransfer, status
    <3>3. QED
      BY <3>1, <3>2
  <2>4. downloaded + Len(queue) = total
    BY <1>0, <1>1, <2>3 DEF CountInv, InTransfer
  <2>5. CASE AlreadyThere
    <3>1. live' = live /\ downloaded' = downloaded + 1
      BY <2>5 DEF AlreadyThere
    <3>2. QED
      BY <1>0, <2>2, <2>3, <2>4, <3>1 DEF InTransfer
  <2>6. CASE StartTransfer
    <3>1. live' # {} /\ downloaded' = downloaded
      BY <2>6 DEF StartTransfer, status
    <3>2. QED
      BY <1>0, <2>2, <2>3, <2>4, <3>1 DEF InTransfer
  <2>7. QED
    BY <1>4, <2>5, <2>6
<1>5. ASSUME NEW e \in live, EndTransfer(e)
      PROVE  live # {} /\ live' = {}
  BY <1>1, <1>5 DEF EndTransfer, OneTransfer
<1>6. ASSUME NEW e \in live, NEW resumed \in BOOLEAN, TransferSucceeds(e, resumed)
      PROVE  (downloaded + Len(queue) + InTransfer = total)'
  <2>1. /\ EndTransfer(e) /\ ~error /\ queue' = queue /\ total' = total
        /\ downloaded' = downloaded + 1
    BY <1>6 DEF TransferSucceeds
  <2>2. QED
    BY <1>0, <1>1, <1>5, <2>1 DEF CountInv, InTransfer
<1>7. ASSUME NEW e \in live, TransferRedirected(e)
      PROVE  (downloaded + Len(queue) + InTransfer = total)'
  <2> DEFINE again == [e EXCEPT !.hop = redirects']
  <2>1. EndTransfer(e) /\ queue' = queue \o <<again>> /\ UNCHANGED status
    BY <1>7 DEF TransferRedirected, AppendAll
  <2>2. redirects' \in 0 .. MaxRedirects
    BY <1>7, BoundsAssumption DEF TransferRedirected, ValuesOK
  <2>3. again \in Items
    BY <1>0, <2>2 DEF Items
  <2>4. Len(queue') = Len(queue) + 1
    BY <1>0, <2>1, <2>3
  <2>5. QED
    BY <1>0, <1>1, <1>5, <2>1, <2>4 DEF CountInv, InTransfer, status
<1>8. CASE TimerFires
  BY <1>2, <1>8 DEF TimerFires
<1>9. CASE QueueDone
  BY <1>2, <1>9 DEF QueueDone
<1>10. CASE LoopReturns \/ ScriptEnds \/ UNCHANGED vars
  BY <1>2, <1>10 DEF LoopReturns, ScriptEnds, vars, manager
<1>11. CASE OpenFails
  BY <1>11 DEF OpenFails
<1>12. ASSUME NEW e \in live, NEW n \in 0 .. 3, NEW page \in BOOLEAN,
              TransferFails(e, n, page)
       PROVE  FALSE
  BY <1>12 DEF TransferFails
<1>13. ASSUME NEW e \in live, NEW n \in 0 .. 2, StrayFinished(e, n) PROVE FALSE
  BY <1>1, <1>13, NoStray
<1>14. QED
  BY <1>3, <1>4, <1>6, <1>7, <1>8, <1>9, <1>10, <1>11, <1>12, <1>13
     DEF Next, StartNextDownload, ReplyFinishes

-----------------------------------------------------------------------------
UpdateInv ==
  FlagsOK /\ ValuesOK /\ OneTransfer /\ WaitInv /\ SoundInv /\ FilesInv /\ CountInv

LEMMA InitUpdateInv == Init => UpdateInv
<1> SUFFICES ASSUME Init PROVE UpdateInv
  OBVIOUS
<1>1. WaitInv /\ FilesInv
  BY DEF Init, WaitInv, FilesInv
<1>2. SoundInv
  BY DEF Init, SoundInv
<1>3. CountInv
  BY DEF Init, CountInv, InTransfer
<1>4. QED
  BY <1>1, <1>2, <1>3, InitTypes, InitOneTransfer DEF UpdateInv

LEMMA NextUpdateInv == UpdateInv /\ [Next]_vars => UpdateInv'
  BY FlagsNext, ValuesNext, OneTransferNext, WaitNext, SoundNext, FilesNext,
     CountNext DEF UpdateInv

(* The conjunction is inductive.                                           *)
THEOREM UpdateInvariant == Spec => []UpdateInv
  BY InitUpdateInv, NextUpdateInv, PTL DEF Spec

(* When the last file ends without an error, the progress shown is that of *)
(* all files, unless the counters were reset by a retry.                   *)
THEOREM CountersAgree == Spec => []CountsAgree
<1>1. ASSUME UpdateInv PROVE CountsAgree
  <2> SUFFICES ASSUME starting, queue = <<>>, ~error, ~overlapped, ~hasty
               PROVE  downloaded = total
    BY DEF CountsAgree
  <2>1. live = {}
    BY <1>1 DEF UpdateInv, OneTransfer
  <2>2. Len(queue) = 0 /\ downloaded \in Nat /\ total \in Nat
    BY <1>1, EmptySeq DEF UpdateInv, ValuesOK
  <2>3. QED
    BY <1>1, <2>1, <2>2 DEF UpdateInv, CountInv, InTransfer
<1>2. QED
  BY <1>1, UpdateInvariant, PTL

(* A step that starts the installation script finds every file complete    *)
(* and sound: no error, no file queued, no transfer.                       *)
LEMMA ScriptStarts ==
  ASSUME UpdateInv, [Next]_vars, scripts' > scripts, ~overlapped,
         NEW f \in Files \ mangled
  PROVE  size[f] = 2 /\ sane[f]
<1>1. scripts \in Nat
  BY DEF UpdateInv, ValuesOK
<1>2. LoopReturns
  <2>1. CASE ScriptEnds
    BY <1>1, <2>1 DEF ScriptEnds
  <2>2. CASE scripts' = scripts
    BY <1>1, <2>2
  <2>3. QED
    BY <2>1, <2>2
       DEF Next, StartNextDownload, ReplyFinishes, Launch, TimerFires, QueueDone,
           OpenFails, AlreadyThere, StartTransfer, TransferSucceeds, TransferFails,
           TransferRedirected, EndTransfer, StrayFinished, vars, update
<1>3. ~error /\ ~Waits /\ loops # <<>>
  BY <1>1, <1>2 DEF LoopReturns, Waits
<1>4. queue = <<>> /\ live = {} /\ launches > 0
  BY <1>3 DEF UpdateInv, WaitInv
<1>5. Len(queue) = 0
  BY <1>4, EmptySeq
<1>6. ~OnItsWay(f)
  BY <1>4, <1>5 DEF OnItsWay
<1>7. QED
  BY <1>3, <1>4, <1>6 DEF UpdateInv, FilesInv, SoundInv

(* The installation script runs on a complete release, however downloads   *)
(* fail, are resumed, redirected or retried, unless a timer fired during a *)
(* transfer or an error page was saved as a file.                          *)
THEOREM InstallationsAreSound == Spec => InstallsSound
<1>1. ASSUME UpdateInv, [Next]_vars
      PROVE  [scripts' > scripts /\ ~overlapped =>
                \A f \in Files \ mangled : size[f] = 2 /\ sane[f]]_vars
  BY <1>1, ScriptStarts
<1>2. QED
  BY <1>1, UpdateInvariant, PTL DEF Spec, InstallsSound
=============================================================================
