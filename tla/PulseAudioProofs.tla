-------------------------- MODULE PulseAudioProofs --------------------------
(***************************************************************************)
(* The main thread and the audio thread of PulseAudioController take       *)
(* turns, for any cards and sinks of the server: while the connection      *)
(* lasts, either one request is pending and the flag is down, or the flag  *)
(* is up and no request is pending, or the main thread rests with neither. *)
(***************************************************************************)
EXTENDS PulseAudio, TLAPS

(* The types, apart from the Boolean variables.                            *)
Shape ==
  /\ context \in {"connecting", "ready", "closed"}
  /\ main \in States
  /\ todo \subseteq Cards \cup Sinks /\ target \subseteq Cards
  /\ cards \subseteq Cards /\ sinks \subseteq Sinks
  /\ listed \subseteq {"cards", "sinks"}

(* Whose turn it is.                                                       *)
Turns ==
  /\ context = "connecting" => main = "connect" /\ requests = <<>> /\ ~ signal
  /\ context = "ready" =>
       \/ main = "idle" /\ requests = <<>> /\ ~ signal
       \/ main \in Kinds /\ requests = <<main>> /\ ~ signal
       \/ main \in Waiting /\ requests = <<>> /\ signal
  /\ context = "closed" => requests = <<>>

(* The lock is held only across waits for answers that do not need it.     *)
LockInv == held => main \in {"activate", "port", "default", "volume", "aborted"}

(* A request was refused only on a connection that is not there any more.  *)
RefusedInv == op \/ context = "closed"

Protocol == Shape /\ Turns /\ LockInv /\ RefusedInv /\ ListsComplete

-----------------------------------------------------------------------------
(* A thread that was woken finds no request pending.                       *)
LEMMA Woken ==
  ASSUME Protocol, NEW kind \in Waiting, WaitSignal(kind)
  PROVE  main = kind /\ signal /\ requests = <<>> /\ context \in {"ready", "closed"}
BY DEF Protocol, Shape, Turns, WaitSignal

(* After a request, the main thread waits for its answer, or the           *)
(* connection is closed.                                                   *)
LEMMA Requested ==
  ASSUME context \in {"ready", "closed"}, requests = <<>>, NEW kind \in Kinds,
         Request(kind), UNCHANGED context, ~ signal' \/ context = "closed"
  PROVE  Turns' /\ RefusedInv' /\ main' = kind /\ kind \in States
<1>1. main' = kind /\ kind \in States
  BY DEF Request, States
<1>2. CASE context = "ready"
  <2>1. requests' = <<kind>>
    BY <1>2 DEF Request
  <2>2. op'
    BY <1>2 DEF Request
  <2>3. ~ signal' /\ context' = "ready"
    BY <1>2
  <2>4. QED
    BY <1>1, <2>1, <2>2, <2>3 DEF Turns, RefusedInv
<1>3. CASE context = "closed"
  BY <1>1, <1>3 DEF Request, Turns, RefusedInv
<1>4. QED
  BY <1>1, <1>2, <1>3

(* When a call returns, nothing is pending.                                *)
LEMMA Returned ==
  ASSUME Protocol, context \in {"ready", "closed"}, requests = <<>>,
         Return, UNCHANGED <<context, lists>>, ~ signal' \/ context = "closed",
         context = "ready" => listed = {"cards", "sinks"}
  PROVE  Protocol'
<1>1. Turns' /\ LockInv' /\ RefusedInv'
  BY DEF Protocol, Return, Turns, LockInv, RefusedInv
<1>2. Shape'
  BY DEF Protocol, Shape, Return, lists, States
<1>3. ListsComplete'
  BY DEF Return, lists, ListsComplete
<1>4. QED
  BY <1>1, <1>2, <1>3 DEF Protocol

-----------------------------------------------------------------------------
LEMMA InitInv == Init => Protocol
BY DEF Init, Protocol, Shape, Turns, LockInv, RefusedInv, ListsComplete, States

(* The list of the sinks is requested: the one of the cards was read.      *)
LEMMA SinksRequested ==
  ASSUME Protocol, context \in {"ready", "closed"}, requests = <<>>, ~ signal',
         EnumerateSinks, ~ held', UNCHANGED context,
         context = "ready" => "cards" \in listed
  PROVE  Protocol'
<1>1. Turns' /\ RefusedInv' /\ main' = "sinks" /\ "sinks" \in States
  BY Requested DEF EnumerateSinks, Kinds
<1>2. Shape' /\ LockInv'
  BY <1>1 DEF Protocol, Shape, EnumerateSinks, LockInv
<1>3. ListsComplete'
  BY <1>1 DEF EnumerateSinks, ListsComplete
<1>4. QED
  BY <1>1, <1>2, <1>3 DEF Protocol

LEMMA CardsRequested ==
  ASSUME Protocol, context \in {"ready", "closed"}, requests = <<>>,
         ~ signal' \/ context = "closed",
         EnumerateCards, ~ held, UNCHANGED context
  PROVE  Protocol'
<1>1. Turns' /\ RefusedInv' /\ main' = "cards" /\ "cards" \in States
  BY Requested DEF EnumerateCards, Kinds
<1>2. Shape' /\ LockInv'
  BY <1>1 DEF Protocol, Shape, EnumerateCards, LockInv
<1>3. ListsComplete'
  <2>1. CASE context = "ready"
    BY <1>1, <2>1 DEF EnumerateCards, ListsComplete
  <2>2. CASE context = "closed"
    BY <2>2 DEF ListsComplete
  <2>3. QED
    BY <2>1, <2>2
<1>4. QED
  BY <1>1, <1>2, <1>3 DEF Protocol

(* Any other request leaves the lists alone.                               *)
LEMMA OtherRequested ==
  ASSUME Protocol, context \in {"ready", "closed"}, requests = <<>>,
         NEW kind \in {"profile", "mute", "activate", "port", "default", "volume"},
         Request(kind), ~ signal' \/ context = "closed",
         UNCHANGED <<context, lists>>,
         todo' \subseteq Cards \cup Sinks, target' \subseteq Cards,
         held' => kind \in {"activate", "port", "default", "volume"},
         context = "ready" =>
           "cards" \in listed /\ ("sinks" \in listed \/ kind = "profile")
  PROVE  Protocol'
<1>1. Turns' /\ RefusedInv' /\ main' = kind /\ kind \in States
  BY Requested DEF Kinds
<1>2. Shape' /\ LockInv'
  BY <1>1 DEF Protocol, Shape, LockInv, lists
<1>3. ListsComplete'
  BY <1>1 DEF ListsComplete, lists
<1>4. QED
  BY <1>1, <1>2, <1>3 DEF Protocol

-----------------------------------------------------------------------------
LEMMA ConnectedInv == ASSUME Protocol, Connected PROVE Protocol'
<1>1. main = "connect" /\ signal /\ requests = <<>> /\ context \in {"ready", "closed"}
  BY Woken DEF Connected, Waiting
<1>2. ~ signal' /\ ~ held
  BY <1>1 DEF Connected, WaitSignal, Protocol, LockInv
<1>3. QED
  BY <1>1, <1>2, CardsRequested DEF Connected

(* The loop over the profiles, then the sinks.                             *)
LEMMA ProfilesInv ==
  ASSUME Protocol, context \in {"ready", "closed"}, requests = <<>>, ~ signal', ~ held,
         NEW left \in SUBSET (Cards \cup Sinks),
         SetDefaultProfiles(left), UNCHANGED <<context, held>>,
         context = "ready" => "cards" \in listed
  PROVE  Protocol'
<1>1. CASE left = {} /\ EnumerateSinks
  BY <1>1, SinksRequested
<1>2. CASE /\ \E c \in left : todo' = left \ {c}
           /\ Request("profile")
           /\ UNCHANGED <<lists, target>>
  <2>1. todo' \subseteq Cards \cup Sinks /\ target' \subseteq Cards
    BY <1>2 DEF Protocol, Shape
  <2>2. QED
    BY <1>2, <2>1, OtherRequested
<1>3. QED
  BY <1>1, <1>2 DEF SetDefaultProfiles

LEMMA CardsListedInv == ASSUME Protocol, CardsListed PROVE Protocol'
<1>1. main = "cards" /\ signal /\ requests = <<>> /\ context \in {"ready", "closed"}
  BY Woken DEF CardsListed, Waiting, Kinds
<1>2. ~ signal' /\ ~ held
  BY <1>1 DEF CardsListed, WaitSignal, Protocol, LockInv
<1>3. context = "ready" => "cards" \in listed
  BY <1>1 DEF Protocol, ListsComplete
<1>4. PICK left \in SUBSET cards : SetDefaultProfiles(left)
  BY DEF CardsListed
<1>5. left \in SUBSET (Cards \cup Sinks)
  BY DEF Protocol, Shape
<1>6. QED
  BY <1>1, <1>2, <1>3, <1>4, <1>5, ProfilesInv DEF CardsListed

LEMMA ProfileSetInv == ASSUME Protocol, ProfileSet PROVE Protocol'
<1>1. main = "profile" /\ signal /\ requests = <<>> /\ context \in {"ready", "closed"}
  BY Woken DEF ProfileSet, Waiting, Kinds
<1>2. ~ signal' /\ ~ held
  BY <1>1 DEF ProfileSet, WaitSignal, Protocol, LockInv
<1>3. context = "ready" => "cards" \in listed
  BY <1>1 DEF Protocol, ListsComplete
<1>4. todo \in SUBSET (Cards \cup Sinks)
  BY DEF Protocol, Shape
<1>5. QED
  BY <1>1, <1>2, <1>3, <1>4, ProfilesInv DEF ProfileSet

LEMMA ActivatedInv == ASSUME Protocol, Activated PROVE Protocol'
<1>1. main = "activate" /\ signal /\ requests = <<>> /\ context \in {"ready", "closed"}
  BY Woken DEF Activated, Waiting, Kinds
<1>2. ~ signal' /\ ~ held'
  BY <1>1 DEF Activated, WaitSignal
<1>3. context = "ready" => "cards" \in listed
  BY <1>1 DEF Protocol, ListsComplete
<1>4. QED
  BY <1>1, <1>2, <1>3, SinksRequested DEF Activated

(* Both lists were read to their end when the sinks are gone through.      *)
LEMMA UnmuteInv ==
  ASSUME Protocol, context \in {"ready", "closed"}, requests = <<>>, ~ signal', ~ held,
         NEW left \in SUBSET (Cards \cup Sinks),
         Unmute(left), UNCHANGED <<context, lists>>,
         context = "ready" => listed = {"cards", "sinks"}
  PROVE  Protocol'
<1>1. CASE /\ \E s \in left : todo' = left \ {s}
           /\ Request("mute")
           /\ UNCHANGED <<held, target>>
  <2>1. todo' \subseteq Cards \cup Sinks /\ target' \subseteq Cards /\ ~ held'
    BY <1>1 DEF Protocol, Shape
  <2>2. QED
    BY <1>1, <2>1, OtherRequested
<1>2. CASE Return
  BY <1>2, Returned
<1>3. CASE /\ held' = TRUE
           /\ Request("port")
           /\ UNCHANGED <<todo, target>>
  <2>1. todo' \subseteq Cards \cup Sinks /\ target' \subseteq Cards
    BY <1>3 DEF Protocol, Shape
  <2>2. QED
    BY <1>3, <2>1, OtherRequested
<1>4. QED
  BY <1>1, <1>2, <1>3 DEF Unmute, Route

LEMMA SinksListedInv == ASSUME Protocol, SinksListed \/ Unmuted PROVE Protocol'
<1>1. CASE SinksListed
  <2>1. main = "sinks" /\ signal /\ requests = <<>> /\ context \in {"ready", "closed"}
    BY <1>1, Woken DEF SinksListed, Waiting, Kinds
  <2>2. ~ signal' /\ ~ held
    BY <1>1, <2>1 DEF SinksListed, WaitSignal, Protocol, LockInv
  <2>3. context = "ready" => listed = {"cards", "sinks"}
    BY <2>1 DEF Protocol, ListsComplete, Shape
  <2>4. sinks \in SUBSET (Cards \cup Sinks)
    BY DEF Protocol, Shape
  <2>5. QED
    BY <1>1, <2>1, <2>2, <2>3, <2>4, UnmuteInv DEF SinksListed
<1>2. CASE Unmuted
  <2>1. main = "mute" /\ signal /\ requests = <<>> /\ context \in {"ready", "closed"}
    BY <1>2, Woken DEF Unmuted, Waiting, Kinds
  <2>2. ~ signal' /\ ~ held
    BY <1>2, <2>1 DEF Unmuted, WaitSignal, Protocol, LockInv
  <2>3. context = "ready" => listed = {"cards", "sinks"}
    BY <2>1 DEF Protocol, ListsComplete, Shape
  <2>4. todo \in SUBSET (Cards \cup Sinks)
    BY DEF Protocol, Shape
  <2>5. QED
    BY <1>2, <2>1, <2>2, <2>3, <2>4, UnmuteInv DEF Unmuted
<1>3. QED
  BY <1>1, <1>2

LEMMA PortSetInv == ASSUME Protocol, PortSet PROVE Protocol'
<1>1. main = "port" /\ signal /\ requests = <<>> /\ context \in {"ready", "closed"}
  BY Woken DEF PortSet, Waiting, Kinds
<1>2. ~ signal'
  BY <1>1 DEF PortSet, WaitSignal
<1>3. context = "ready" => listed = {"cards", "sinks"}
  BY <1>1 DEF Protocol, ListsComplete, Shape
<1>4. todo' \subseteq Cards \cup Sinks /\ target' \subseteq Cards
  BY DEF PortSet, Protocol, Shape
<1>5. QED
  BY <1>1, <1>2, <1>3, <1>4, OtherRequested DEF PortSet

LEMMA DefaultSetInv == ASSUME Protocol, DefaultSet PROVE Protocol'
<1>1. main = "default" /\ signal /\ requests = <<>> /\ context \in {"ready", "closed"}
  BY Woken DEF DefaultSet, Waiting, Kinds
<1>2. ~ signal'
  BY <1>1 DEF DefaultSet, WaitSignal
<1>3. context = "ready" => listed = {"cards", "sinks"}
  BY <1>1 DEF Protocol, ListsComplete, Shape
<1>4. QED
  BY <1>1, <1>2, <1>3, Returned DEF DefaultSet

(* The loop over the volumes.                                              *)
LEMMA VolumeInv ==
  ASSUME Protocol, context \in {"ready", "closed"}, requests = <<>>,
         ~ signal' \/ context = "closed",
         NEW left \in SUBSET (Cards \cup Sinks),
         Volume(left), UNCHANGED <<context, lists>>,
         context = "ready" => listed = {"cards", "sinks"}
  PROVE  Protocol'
<1>1. CASE /\ \E s \in left : todo' = left \ {s}
           /\ held' = TRUE
           /\ Request("volume")
           /\ UNCHANGED target
  <2>1. todo' \subseteq Cards \cup Sinks /\ target' \subseteq Cards
    BY <1>1 DEF Protocol, Shape
  <2>2. QED
    BY <1>1, <2>1, OtherRequested
<1>2. CASE Return
  BY <1>2, Returned
<1>3. QED
  BY <1>1, <1>2 DEF Volume

LEMMA VolumeSetInv == ASSUME Protocol, VolumeSet PROVE Protocol'
<1>1. main = "volume" /\ signal /\ requests = <<>> /\ context \in {"ready", "closed"}
  BY Woken DEF VolumeSet, Waiting, Kinds
<1>2. ~ signal'
  BY <1>1 DEF VolumeSet, WaitSignal
<1>3. context = "ready" => listed = {"cards", "sinks"}
  BY <1>1 DEF Protocol, ListsComplete, Shape
<1>4. todo \in SUBSET (Cards \cup Sinks)
  BY DEF Protocol, Shape
<1>5. QED
  BY <1>1, <1>2, <1>3, <1>4, VolumeInv DEF VolumeSet

(* A refused request means that the connection is closed.                  *)
LEMMA ReleaseInv == ASSUME Protocol, ReleaseNull PROVE Protocol'
<1>1. context = "closed" /\ requests = <<>>
  BY DEF ReleaseNull, Protocol, RefusedInv, Turns
<1>2. Turns' /\ LockInv' /\ RefusedInv' /\ ListsComplete'
  BY <1>1 DEF ReleaseNull, Turns, LockInv, RefusedInv, ListsComplete
<1>3. Shape'
  BY DEF ReleaseNull, Protocol, Shape, lists, States
<1>4. QED
  BY <1>2, <1>3 DEF Protocol

-----------------------------------------------------------------------------
(* A call starts from rest.                                                *)
LEMMA Rest ==
  ASSUME Protocol, main = "idle"
  PROVE  /\ context \in {"ready", "closed"} /\ requests = <<>> /\ ~ held
         /\ ~ signal \/ context = "closed"
         /\ context = "ready" => listed = {"cards", "sinks"}
<1>1. main \notin Kinds /\ main \notin Waiting
  BY DEF Kinds, Waiting
<1>2. context # "connecting"
  BY DEF Protocol, Turns
<1>3. requests = <<>> /\ (~ signal \/ context = "closed")
  BY <1>1, <1>2 DEF Protocol, Turns, Shape
<1>4. QED
  BY <1>2, <1>3 DEF Protocol, Shape, LockInv, ListsComplete

LEMMA CallInv == ASSUME Protocol, Call PROVE Protocol'
<1>1. CASE GetPlaybackList
  BY <1>1, Rest, CardsRequested DEF GetPlaybackList
<1>2. CASE SetVolume
  <2>1. sinks \in SUBSET (Cards \cup Sinks)
    BY DEF Protocol, Shape
  <2>2. QED
    BY <1>2, <2>1, Rest, VolumeInv DEF SetVolume
<1>3. CASE SetDefaultPlayback
  <2>1. todo' \subseteq Cards \cup Sinks /\ target' \subseteq Cards
    BY <1>3 DEF SetDefaultPlayback, Protocol, Shape
  <2>2. QED
    BY <1>3, <2>1, Rest, OtherRequested DEF SetDefaultPlayback
<1>4. CASE Finalize
  <2>1. context' = "closed" /\ requests' = <<>> /\ ~ held' /\ main' = "ended"
    BY <1>4, Rest DEF Finalize
  <2>2. Turns' /\ LockInv' /\ RefusedInv' /\ ListsComplete'
    BY <2>1 DEF Turns, LockInv, RefusedInv, ListsComplete
  <2>3. Shape'
    BY <1>4, <2>1 DEF Finalize, Protocol, Shape, lists, States
  <2>4. QED
    BY <2>2, <2>3 DEF Protocol
<1>5. QED
  BY <1>1, <1>2, <1>3, <1>4 DEF Call

-----------------------------------------------------------------------------
(* The callbacks.  What is pending is the request the main thread waits    *)
(* for.                                                                    *)
LEMMA Pending ==
  ASSUME Protocol, requests # <<>>
  PROVE  /\ context = "ready" /\ main \in Kinds /\ requests = <<main>> /\ ~ signal
         /\ Head(requests) = main /\ Tail(requests) = <<>> /\ op
<1>1. context = "ready" /\ main \in Kinds /\ requests = <<main>> /\ ~ signal
  BY DEF Protocol, Shape, Turns
<1>2. QED
  BY <1>1 DEF Protocol, RefusedInv

LEMMA ConnectInv == ASSUME Protocol, Connect PROVE Protocol'
<1>1. main = "connect" /\ requests = <<>> /\ signal' /\ context' \in {"ready", "closed"}
  BY DEF Connect, Fire, Protocol, Turns
<1>2. Turns' /\ LockInv'
  BY <1>1 DEF Connect, Protocol, Turns, LockInv, Waiting
<1>3. RefusedInv'
  BY DEF Connect, Protocol, RefusedInv
<1>4. Shape' /\ ListsComplete'
  BY <1>1 DEF Connect, Protocol, Shape, ListsComplete, lists
<1>5. QED
  BY <1>2, <1>3, <1>4 DEF Protocol

LEMMA ConnectionLostInv == ASSUME Protocol, ConnectionLost PROVE Protocol'
<1>1. context' = "closed" /\ requests' = <<>>
  BY DEF ConnectionLost
<1>2. Turns' /\ RefusedInv' /\ ListsComplete'
  BY <1>1 DEF Turns, RefusedInv, ListsComplete
<1>3. Shape' /\ LockInv'
  BY <1>1 DEF ConnectionLost, Protocol, Shape, LockInv, lists
<1>4. QED
  BY <1>2, <1>3 DEF Protocol

LEMMA EntryInv == ASSUME Protocol, CardFound \/ SinkFound PROVE Protocol'
<1>1. UNCHANGED <<context, signal, held, main, todo, target, requests, op, listed>>
  BY DEF CardFound, SinkFound
<1>2. cards' \subseteq Cards /\ sinks' \subseteq Sinks
  BY DEF CardFound, SinkFound, Protocol, Shape
<1>3. Turns' /\ LockInv' /\ RefusedInv'
  BY <1>1 DEF Protocol, Turns, LockInv, RefusedInv
<1>4. Shape' /\ ListsComplete'
  BY <1>1, <1>2 DEF Protocol, Shape, ListsComplete
<1>5. QED
  BY <1>3, <1>4 DEF Protocol

LEMMA AnswerInv == ASSUME Protocol, Answer PROVE Protocol'
<1>1. /\ context = "ready" /\ main \in Kinds /\ requests = <<main>> /\ ~ signal
      /\ Head(requests) = main /\ Tail(requests) = <<>> /\ op
  BY Pending DEF Answer
<1>2. /\ requests' = <<>> /\ signal' /\ UNCHANGED <<context, held, main, todo, target, cards, sinks>>
      /\ op' /\ listed' = listed \cup ({main} \cap {"cards", "sinks"})
  BY <1>1 DEF Answer, Fire
<1>3. Turns' /\ RefusedInv'
  BY <1>1, <1>2 DEF Turns, RefusedInv, Waiting
<1>4. Shape' /\ LockInv'
  BY <1>2 DEF Protocol, Shape, LockInv
<1>5. ListsComplete'
  <2>1. \/ "cards" \in listed \/ main = "connect" \/ main = "cards"
    BY <1>1 DEF Protocol, ListsComplete
  <2>2. \/ "sinks" \in listed \/ main \in {"connect", "cards", "profile"} \/ main = "sinks"
    BY <1>1 DEF Protocol, ListsComplete
  <2>3. main = "cards" => "cards" \in listed'
    BY <1>2
  <2>4. main = "sinks" => "sinks" \in listed'
    BY <1>2
  <2>5. listed \subseteq listed' /\ main' = main
    BY <1>2
  <2>6. QED
    BY <2>1, <2>2, <2>3, <2>4, <2>5 DEF ListsComplete
<1>6. QED
  BY <1>3, <1>4, <1>5 DEF Protocol

LEMMA StutterInv == Protocol /\ UNCHANGED vars => Protocol'
<1> SUFFICES ASSUME Protocol, UNCHANGED vars PROVE Protocol'
  OBVIOUS
<1>1. Turns' /\ LockInv' /\ RefusedInv'
  BY DEF Protocol, vars, Turns, LockInv, RefusedInv
<1>2. Shape' /\ ListsComplete'
  BY DEF Protocol, vars, Shape, ListsComplete
<1>3. QED
  BY <1>1, <1>2 DEF Protocol

-----------------------------------------------------------------------------
(* The two threads take turns, in every state.                             *)
THEOREM ProtocolInvariant == Spec => []Protocol
<1>1. Protocol /\ [Next]_vars => Protocol'
  <2> SUFFICES ASSUME Protocol, [Next]_vars PROVE Protocol'
    OBVIOUS
  <2>1. CASE Continue
    BY <2>1, ConnectedInv, CardsListedInv, ProfileSetInv, SinksListedInv, ActivatedInv,
       PortSetInv, DefaultSetInv, VolumeSetInv, ReleaseInv DEF Continue
  <2>2. CASE Callback
    BY <2>2, ConnectInv, EntryInv, AnswerInv DEF Callback
  <2>3. QED
    BY <2>1, <2>2, CallInv, ConnectionLostInv, StutterInv DEF Next
<1>2. QED
  BY <1>1, InitInv, PTL DEF Spec

(* The Boolean variables and the sequence of requests, apart from the      *)
(* others.                                                                 *)
FlagsOK == signal \in BOOLEAN /\ held \in BOOLEAN /\ op \in BOOLEAN

LEMMA FlagsCorrect == Spec => []FlagsOK
<1>1. Init => FlagsOK
  BY DEF Init, FlagsOK
<1>2. FlagsOK /\ [Next]_vars => FlagsOK'
  <2> SUFFICES ASSUME FlagsOK, [Next]_vars PROVE FlagsOK'
    OBVIOUS
  <2> USE DEF FlagsOK, WaitSignal, Request, Return, Fire
  <2>1. CASE Continue
    BY <2>1 DEF Continue, Connected, CardsListed, ProfileSet, SinksListed, Unmuted, Activated,
                PortSet, DefaultSet, VolumeSet, ReleaseNull, EnumerateCards, EnumerateSinks,
                SetDefaultProfiles, Unmute, Route, Volume
  <2>2. CASE Call
    BY <2>2 DEF Call, GetPlaybackList, SetVolume, SetDefaultPlayback, Finalize,
                EnumerateCards, Volume
  <2>3. CASE Callback \/ ConnectionLost
    BY <2>3 DEF Callback, ConnectionLost, Connect, CardFound, SinkFound, Answer
  <2>4. CASE UNCHANGED vars
    BY <2>4 DEF vars
  <2>5. QED
    BY <2>1, <2>2, <2>3, <2>4 DEF Next
<1>3. QED
  BY <1>1, <1>2, PTL DEF Spec

(* Every variable keeps to its type.                                       *)
THEOREM TypeCorrect == Spec => []TypeOK
<1>1. Protocol => requests \in Seq(Kinds)
  <2> SUFFICES ASSUME Protocol PROVE requests \in Seq(Kinds)
    OBVIOUS
  <2>1. CASE requests = <<>>
    BY <2>1
  <2>2. CASE requests # <<>>
    <3>1. requests = <<main>> /\ main \in Kinds
      BY <2>2, Pending
    <3>2. QED
      BY <3>1
  <2>3. QED
    BY <2>1, <2>2
<1>2. Protocol /\ FlagsOK => TypeOK
  BY <1>1 DEF Protocol, Shape, FlagsOK, TypeOK
<1>3. QED
  BY <1>2, ProtocolInvariant, FlagsCorrect, PTL

(* At most one request is pending, the main thread waits for that one, and *)
(* its flag is not up yet: an answer wakes the request it belongs to.      *)
THEOREM OneRequestPending == Spec => []OneRequest
<1>1. Protocol => OneRequest
  BY Pending DEF OneRequest
<1>2. QED
  BY <1>1, ProtocolInvariant, PTL

(* While the connection lasts, a thread that waits has its signal set, or  *)
(* an answer to come that the lock does not hold up.                       *)
THEOREM AnswersCome == Spec => []AnswerToCome
<1>1. Protocol => AnswerToCome
  <2> SUFFICES ASSUME Protocol, main \in Waiting, ~ signal, context # "closed"
               PROVE \/ main = "connect"
                     \/ requests # <<>> /\ (Head(requests) \in {"cards", "sinks"} => ~ held)
    BY DEF AnswerToCome
  <2>1. CASE context = "connecting"
    BY <2>1 DEF Protocol, Turns
  <2>2. CASE context = "ready"
    <3>1. main \in Kinds /\ requests = <<main>>
      BY <2>2 DEF Protocol, Turns, Waiting, Kinds
    <3>2. Head(requests) = main /\ requests # <<>>
      BY <3>1
    <3>3. QED
      BY <3>2 DEF Protocol, LockInv
  <2>3. QED
    BY <2>1, <2>2 DEF Protocol, Shape
<1>2. QED
  BY <1>1, ProtocolInvariant, PTL

(* While the connection lasts, no call goes on from a list that was not    *)
(* read to its end.                                                        *)
THEOREM ListsAreComplete == Spec => []ListsComplete
<1>1. Protocol => ListsComplete
  BY DEF Protocol
<1>2. QED
  BY <1>1, ProtocolInvariant, PTL

=============================================================================
