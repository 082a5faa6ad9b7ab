----------------------------- MODULE PulseAudio -----------------------------
(***************************************************************************)
(* The sound settings: PulseAudioController asks the PulseAudio server for *)
(* its cards and sinks and sets profiles, ports and volumes.               *)
(*                                                                         *)
(* The main thread sends a request and blocks in Signal::WaitSignal, with  *)
(* no timeout.  The answer arrives in the audio thread, whose callbacks    *)
(* fill the lists and Fire the signal.  The signal is one flag that does   *)
(* not tell answers apart, and the state of the connection fires it too;   *)
(* libpulse refuses a request on a connection that is not ready and        *)
(* cancels the pending ones of a connection that fails, without an answer. *)
(* The operation of a refused request is NULL; releasing it ends the       *)
(* program.                                                                *)
(*                                                                         *)
(* "main" tells which answer the main thread waits for.  A step of it goes *)
(* from the end of one wait to the next request: what the audio thread may *)
(* do in between has the same effect after the request.                    *)
(***************************************************************************)
EXTENDS Integers, Sequences, FiniteSets

CONSTANTS
  Cards,        \* the cards of the server
  Sinks,        \* its sinks
  CardOf        \* the card of a sink, in the eyes of the server

ASSUME CardsAssumption == CardOf \in [Sinks -> Cards]

VARIABLES
  context,      \* the connection to the server
  signal,       \* mSignal
  held,         \* the main thread holds mSyncer
  main,         \* "idle", or the answer the main thread waits for
  todo,         \* the cards or sinks its loop has not visited
  target,       \* SetDefaultPlayback: its card; {} in another call
  requests,     \* requests without an answer yet
  op,           \* the operation of the last request is not NULL
  cards,        \* mCards
  sinks,        \* the sinks attached to them
  listed        \* history: the lists of the server read to their end

vars == <<context, signal, held, main, todo, target, requests, op, cards, sinks, listed>>
lists == <<cards, sinks, listed>>

Kinds == {"cards", "profile", "sinks", "mute", "activate", "port", "default", "volume"}
States == Kinds \cup {"connect", "idle", "ended", "aborted"}
Waiting == Kinds \cup {"connect"}

(* The constructor: the thread is started, Initialize waits for it.        *)
Init ==
  /\ context = "connecting" /\ signal = FALSE /\ held = FALSE
  /\ main = "connect" /\ todo = {} /\ target = {}
  /\ requests = <<>> /\ op = TRUE
  /\ cards = {} /\ sinks = {} /\ listed = {}

-----------------------------------------------------------------------------
(* Mutant: the wait leaves the flag set.                                   *)
WaitWithoutReset(kind) ==
  main = kind /\ signal /\ signal' = signal /\ (op \/ kind \in {"connect", "mute"})

(* Signal::WaitSignal returns, and the operation is released: always but   *)
(* for the mute requests.                                                  *)
WaitSignal(kind) ==
  main = kind /\ signal /\ signal' = FALSE /\ (op \/ kind \in {"connect", "mute"})

(* Signal::Fire.                                                           *)
Fire == signal' = TRUE

(* pa_context_...: NULL, and no callback ever, unless the context is ready.*)
(* Then the main thread waits.                                             *)
Request(kind) ==
  /\ requests' = IF context = "ready" THEN Append(requests, kind) ELSE requests
  /\ op' = (context = "ready")
  /\ main' = kind

Return ==
  /\ main' = "idle" /\ todo' = {} /\ target' = {} /\ held' = FALSE
  /\ UNCHANGED <<requests, op>>

-----------------------------------------------------------------------------
(* PulseEnumarateSinks, up to its wait.                                    *)
EnumerateSinks ==
  /\ sinks' = {} /\ listed' = listed \ {"sinks"}
  /\ Request("sinks")
  /\ todo' = {}
  /\ UNCHANGED <<cards, target>>

(* PulseEnumerateCards, up to its first wait.                              *)
EnumerateCards ==
  /\ cards' = {} /\ sinks' = {} /\ listed' = {}
  /\ Request("cards")
  /\ UNCHANGED <<held, todo, target>>

(* SetDefaultProfiles from a turn of its loop on; PulseEnumerateCards goes *)
(* on with the sinks.                                                      *)
SetDefaultProfiles(left) ==
  \/ /\ \E c \in left : todo' = left \ {c}
     /\ Request("profile")
     /\ UNCHANGED <<lists, target>>
  \/ left = {} /\ EnumerateSinks

(* PulseContextConnect returns, whatever woke it.                          *)
Connected ==
  /\ WaitSignal("connect")
  /\ EnumerateCards
  /\ UNCHANGED context

(* The list of the cards has ended.  The loop visits the ones without an   *)
(* active profile that have a port to activate.                            *)
CardsListed ==
  /\ WaitSignal("cards")
  /\ \E left \in SUBSET cards : SetDefaultProfiles(left)
  /\ UNCHANGED <<context, held>>

ProfileSet ==
  /\ WaitSignal("profile")
  /\ SetDefaultProfiles(todo)
  /\ UNCHANGED <<context, held>>

(* Mutant: the lock of the first part is kept until the end of the call.   *)
ActivatedWithLock ==
  /\ WaitSignal("activate")
  /\ EnumerateSinks
  /\ UNCHANGED <<context, held>>

(* SetDefaultPlayback: the profile is active and mSyncer is released; the  *)
(* sinks are listed again.                                                 *)
Activated ==
  /\ WaitSignal("activate")
  /\ held' = FALSE
  /\ EnumerateSinks
  /\ UNCHANGED context

(* SetDefaultPlayback after its sinks: the first sink of the card.         *)
Route ==
  \/ /\ \E s \in sinks : CardOf[s] \in target
     /\ held' = TRUE
     /\ Request("port")
     /\ UNCHANGED <<todo, target>>
  \/ /\ \A s \in sinks : CardOf[s] \notin target
     /\ Return

(* PulseEnumarateSinks unmutes the sinks one by one; then its caller goes  *)
(* on.                                                                     *)
Unmute(left) ==
  \/ /\ \E s \in left : todo' = left \ {s}
     /\ Request("mute")
     /\ UNCHANGED <<held, target>>
  \/ left = {} /\ target = {} /\ Return
  \/ left = {} /\ target # {} /\ Route

SinksListed ==
  /\ WaitSignal("sinks")
  /\ Unmute(sinks)
  /\ UNCHANGED <<context, lists>>

Unmuted ==
  /\ WaitSignal("mute")
  /\ Unmute(todo)
  /\ UNCHANGED <<context, lists>>

PortSet ==
  /\ WaitSignal("port")
  /\ Request("default")
  /\ UNCHANGED <<context, held, todo, target, lists>>

DefaultSet ==
  /\ WaitSignal("default")
  /\ Return
  /\ UNCHANGED <<context, lists>>

(* SetVolume from a turn of its loop on.                                   *)
Volume(left) ==
  \/ /\ \E s \in left : todo' = left \ {s}
     /\ held' = TRUE
     /\ Request("volume")
     /\ UNCHANGED target
  \/ left = {} /\ Return

VolumeSet ==
  /\ WaitSignal("volume")
  /\ Volume(todo)
  /\ UNCHANGED <<context, lists>>

(* pa_operation_unref(NULL), an assertion of libpulse.                     *)
ReleaseNull ==
  /\ main \in Waiting \ {"connect", "mute"} /\ signal /\ ~ op
  /\ main' = "aborted" /\ signal' = FALSE
  /\ UNCHANGED <<context, held, todo, target, requests, op, lists>>

-----------------------------------------------------------------------------
(* The calls.  GetPlaybackList refreshes the lists before it reads them.   *)
GetPlaybackList ==
  /\ main = "idle"
  /\ EnumerateCards
  /\ UNCHANGED <<context, signal>>

SetVolume ==
  /\ main = "idle"
  /\ Volume(sinks)
  /\ UNCHANGED <<context, signal, lists>>

(* SetDefaultPlayback asks for the best profile of a port, with mSyncer    *)
(* held; it gives up without a card, or without a port.                    *)
SetDefaultPlayback ==
  /\ main = "idle"
  /\ \E c \in cards : target' = {c}
  /\ held' = TRUE
  /\ Request("activate")
  /\ UNCHANGED <<context, signal, todo, lists>>

(* Finalize: the connection is closed, the state callback runs at once.    *)
Finalize ==
  /\ main = "idle"
  /\ main' = "ended"
  /\ context' = "closed"
  /\ signal' = IF context = "closed" THEN signal ELSE TRUE
  /\ UNCHANGED <<held, todo, target, requests, op, lists>>

-----------------------------------------------------------------------------
(* The audio thread.  ContextStateCallback: ready, or failed.              *)
Connect ==
  /\ context = "connecting"
  /\ context' \in {"ready", "closed"}
  /\ Fire
  /\ UNCHANGED <<held, main, todo, target, requests, op, lists>>

(* The server goes away: libpulse cancels what is pending.                 *)
ConnectionLost ==
  /\ context = "ready"
  /\ context' = "closed"
  /\ requests' = <<>>
  /\ Fire
  /\ UNCHANGED <<held, main, todo, target, op, lists>>

(* EnumerateCardCallback: an entry needs mSyncer, as the ones of the sinks *)
(* do.                                                                     *)
CardFound ==
  /\ requests # <<>> /\ Head(requests) = "cards" /\ ~ held
  /\ \E c \in Cards \ cards : cards' = cards \cup {c}
  /\ UNCHANGED <<context, signal, held, main, todo, target, requests, op, sinks, listed>>

(* Mutant: every entry fires, not only the end of the list.                *)
SinkFires ==
  /\ requests # <<>> /\ Head(requests) = "sinks" /\ ~ held
  /\ \E s \in Sinks \ sinks : CardOf[s] \in cards /\ sinks' = sinks \cup {s}
  /\ Fire
  /\ UNCHANGED <<context, held, main, todo, target, requests, op, cards, listed>>

(* EnumerateSinkCallback: a sink is attached to its card, when that card   *)
(* is known.                                                               *)
SinkFound ==
  /\ requests # <<>> /\ Head(requests) = "sinks" /\ ~ held
  /\ \E s \in Sinks \ sinks : CardOf[s] \in cards /\ sinks' = sinks \cup {s}
  /\ UNCHANGED <<context, signal, held, main, todo, target, requests, op, cards, listed>>

(* Mutant: the end of the list of cards does not fire.                     *)
AnswerWithoutFire ==
  /\ requests # <<>>
  /\ requests' = Tail(requests)
  /\ listed' = listed \cup ({Head(requests)} \cap {"cards", "sinks"})
  /\ signal' = (signal \/ Head(requests) # "cards")
  /\ UNCHANGED <<context, held, main, todo, target, op, cards, sinks>>

(* Mutant: the end of the list of cards is stored as one more card.        *)
AnswerStored ==
  /\ requests # <<>>
  /\ requests' = Tail(requests)
  /\ listed' = listed \cup ({Head(requests)} \cap {"cards", "sinks"})
  /\ cards' = cards \cup ({Head(requests)} \cap {"cards"})
  /\ Fire
  /\ UNCHANGED <<context, held, main, todo, target, op, sinks>>

(* Every other callback, and the end of a list.                            *)
Answer ==
  /\ requests # <<>>
  /\ requests' = Tail(requests)
  /\ listed' = listed \cup ({Head(requests)} \cap {"cards", "sinks"})
  /\ Fire
  /\ UNCHANGED <<context, held, main, todo, target, op, cards, sinks>>

-----------------------------------------------------------------------------
Continue ==
  \/ Connected \/ CardsListed \/ ProfileSet \/ SinksListed \/ Unmuted
  \/ Activated \/ PortSet \/ DefaultSet \/ VolumeSet \/ ReleaseNull

Call == GetPlaybackList \/ SetVolume \/ SetDefaultPlayback \/ Finalize

Callback == Connect \/ CardFound \/ SinkFound \/ Answer

Next == Continue \/ Call \/ Callback \/ ConnectionLost

(* Fairness: both threads run; the server answers or fails.                *)
Spec == Init /\ [][Next]_vars /\ WF_vars(Continue) /\ WF_vars(Connect) /\ WF_vars(Answer)

-----------------------------------------------------------------------------
TypeOK ==
  /\ context \in {"connecting", "ready", "closed"}
  /\ signal \in BOOLEAN /\ held \in BOOLEAN /\ op \in BOOLEAN
  /\ main \in States
  /\ todo \subseteq Cards \cup Sinks /\ target \subseteq Cards
  /\ requests \in Seq(Kinds)
  /\ cards \subseteq Cards /\ sinks \subseteq Sinks
  /\ listed \subseteq {"cards", "sinks"}

(* An answer wakes the request it belongs to.  At most one request is      *)
(* pending, the main thread waits for that one, and the flag is not set    *)
(* yet: no early wake-up lets a call read or clear the lists while the     *)
(* callbacks of its own request, or of an earlier one, still fill them,    *)
(* and a lost connection leaves nothing behind that could.                 *)
OneRequest ==
  requests # <<>> => requests = <<main>> /\ ~ signal /\ context = "ready"

(* No answer is lost and nobody waits for nobody: a thread that waits has  *)
(* its signal set, or an answer to come that no lock holds up, unless the  *)
(* connection is closed.  On a closed connection the wait for a request    *)
(* never ends, or the program does.                                        *)
AnswerToCome ==
  main \in Waiting /\ ~ signal /\ context # "closed" =>
    \/ main = "connect"
    \/ requests # <<>> /\ (Head(requests) \in {"cards", "sinks"} => ~ held)

(* While the connection lasts, the main thread never goes on from a list   *)
(* that was not read to its end: the cards once it leaves their request,   *)
(* the sinks once it leaves theirs, and both whenever it rests.            *)
ListsComplete ==
  context = "ready" =>
    /\ "cards" \in listed \/ main = "connect" \/ (main = "cards" /\ ~ signal)
    /\ "sinks" \in listed \/ main \in {"connect", "cards", "profile"}
                          \/ (main = "sinks" /\ ~ signal)

(* Every call returns, and the constructor does, unless the connection is  *)
(* closed under it.                                                        *)
CallsReturn ==
  main \in Waiting ~> main = "idle" \/ context = "closed"

=============================================================================
