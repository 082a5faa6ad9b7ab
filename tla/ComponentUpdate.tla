-------------------------- MODULE ComponentUpdate --------------------------
(***************************************************************************)
(* The update of a component: Updates asks a DownloadManager for the files *)
(* of a release, waits for its finished() in a nested event loop, then     *)
(* runs the installation script in a thread.                               *)
(*                                                                         *)
(* A DownloadManager transfers one file at a time, with one QFile          *)
(* ("output") and one QNetworkReply ("currentDownload").  Nothing but the  *)
(* discipline of its callers enforces this: startNextDownload is called by *)
(* a timer append arms and by the end of each transfer.                    *)
(*                                                                         *)
(* Everything runs in the main thread.  "starting" holds while the chain   *)
(* of recursive calls of startNextDownload is on the stack: nothing else   *)
(* happens then.  The size of a file is 0, 1 (a part), 2 (the size the     *)
(* release announces) or 3 (too large).                                    *)
(***************************************************************************)
EXTENDS Integers, Sequences, FiniteSets

CONSTANTS
  Files,         \* the assets of the release
  Sized,         \* the ones downloaded with their size (package, image)
  Batch,         \* Files in the order of launchComponentInstallation_slot:
                 \* the installation script is the first
  NoItem,        \* nullptr
  MaxLaunches,   \* bound: launches of the installation in a behaviour
  MaxRedirects   \* bound: HTTP redirections in a behaviour

ASSUME FilesAssumption ==
  /\ Sized \subseteq Files
  /\ Batch \in Seq(Files) /\ Batch # <<>>
  /\ \A f \in Files : \E i \in 1 .. Len(Batch) : Batch[i] = f
ASSUME BoundsAssumption == MaxLaunches \in Nat \ {0} /\ MaxRedirects \in Nat

(* One entry of the queues of URLs, names and sizes, then its reply.  "hop" *)
(* tells the redirections of a file apart.                                 *)
Items == [file : Files, launch : 1 .. MaxLaunches, hop : 0 .. MaxRedirects]

ASSUME NoItemAssumption == NoItem \notin Items

VARIABLES
  queue,       \* downloadQueue, filenameQueue and filesizeQueue
  timers,      \* pending singleShot calls of startNextDownload
  starting,    \* startNextDownload is on the stack
  current,     \* currentDownload
  live,        \* replies that will still emit finished()
  open,        \* output is open
  size,        \* size of each file
  sane,        \* each file holds nothing but a prefix of the asset
  downloaded,  \* downloadedCount
  total,       \* totalCount
  error,       \* statusError > 0
  step,        \* UpdateItem::m_installationStep
  loops,       \* the nested event loops of Updates: has each been quit?
  scripts,     \* installation scripts running
  launches,    \* launches so far
  redirects,   \* redirections so far
  crashed,     \* a deleted reply was used
  mangled,     \* history: files an error page was written into
  overlapped,  \* history: a timer started a download during another one
  hasty        \* history: "Retry" before the end of the previous launch

manager == <<queue, timers, starting, current, live, open>>
disk    == <<size, sane, mangled>>
status  == <<downloaded, total, error>>
update  == <<step, loops, scripts, launches>>
misc    == <<redirects, crashed, overlapped, hasty>>
vars == <<manager, disk, status, update, misc>>

Idle == ~starting /\ ~crashed

Init ==
  /\ queue = <<>> /\ timers = 0 /\ starting = FALSE
  /\ current = NoItem /\ live = {} /\ open = FALSE
  /\ size = [f \in Files |-> 0] /\ sane = [f \in Files |-> TRUE]
  /\ downloaded = 0 /\ total = 0 /\ error = FALSE
  /\ step = 0 /\ loops = <<>> /\ scripts = 0 /\ launches = 0
  /\ redirects = 0 /\ crashed = FALSE
  /\ mangled = {} /\ overlapped = FALSE /\ hasty = FALSE

-----------------------------------------------------------------------------
(* DownloadManager.                                                        *)

(* append for a sequence of items, in one go: the first one arms the timer *)
(* if it finds the queue empty, whether a transfer is running or not.      *)
AppendAll(items) ==
  /\ queue' = queue \o items
  /\ timers' = IF queue = <<>> THEN timers + 1 ELSE timers

(* Only items of the release itself carry a size, a redirected one does    *)
(* not: reportRedirect loses it.                                           *)
HasSize(e) == e.file \in Sized /\ e.hop = 0

(* Writes n to the size of f.                                              *)
SetSize(f, n) == size' = [size EXCEPT ![f] = n]

TimerFires ==
  /\ Idle /\ timers > 0
  /\ timers' = timers - 1
  /\ starting' = TRUE
  /\ overlapped' = (overlapped \/ live # {})
  /\ UNCHANGED <<queue, current, live, open, disk, status, update, redirects,
                 crashed, hasty>>

(* Mutant: finished() is not emitted when an error was recorded.           *)
QueueDoneUnlessError ==
  /\ starting /\ queue = <<>>
  /\ starting' = FALSE
  /\ loops' = IF error THEN loops ELSE [i \in DOMAIN loops |-> TRUE]
  /\ UNCHANGED <<queue, timers, current, live, open, disk, status, step,
                 scripts, launches, misc>>

(* Nothing left: finished() quits every loop that waits for it.            *)
QueueDone ==
  /\ starting /\ queue = <<>>
  /\ starting' = FALSE
  /\ loops' = [i \in DOMAIN loops |-> TRUE]
  /\ UNCHANGED <<queue, timers, current, live, open, disk, status, step,
                 scripts, launches, misc>>

(* The file cannot be created, or appended to: errors 2 and 3.             *)
OpenFails ==
  /\ starting /\ queue # <<>>
  /\ queue' = Tail(queue)
  /\ open' = FALSE
  /\ error' = TRUE
  /\ UNCHANGED <<timers, starting, current, live, disk, downloaded, total,
                 update, misc>>

(* A file that has its size already is not downloaded again.               *)
AlreadyThere ==
  /\ starting /\ queue # <<>> /\ HasSize(Head(queue))
  /\ size[Head(queue).file] >= 2
  /\ queue' = Tail(queue)
  /\ open' = FALSE
  /\ downloaded' = downloaded + 1
  /\ UNCHANGED <<timers, starting, current, live, disk, total, error, update,
                 misc>>

(* A sized file is resumed where it stops, any other one is truncated.     *)
StartTransfer ==
  LET e == Head(queue) IN
  /\ starting /\ queue # <<>>
  /\ HasSize(e) => size[e.file] < 2
  /\ queue' = Tail(queue)
  /\ starting' = FALSE
  /\ current' = e /\ live' = live \union {e} /\ open' = TRUE
  /\ IF HasSize(e)
     THEN UNCHANGED disk
     ELSE /\ SetSize(e.file, 0)
          /\ sane' = [sane EXCEPT ![e.file] = TRUE]
          /\ mangled' = mangled \ {e.file}
  /\ UNCHANGED <<timers, status, update, misc>>

(* downloadFinished in the order of the code: output is closed, then the   *)
(* reply in currentDownload is deleted and the next download started.      *)
EndTransfer(e) ==
  /\ Idle /\ e \in live /\ e = current
  /\ live' = live \ {e}
  /\ open' = FALSE
  /\ starting' = TRUE
  /\ UNCHANGED <<current, update, crashed, overlapped, hasty>>

(* Mutant: the size of the file is not compared with the announced one.    *)
TransferSucceedsUnchecked(e, resumed) ==
  LET n == IF resumed THEN 2 ELSE size[e.file] + 2 IN
  /\ EndTransfer(e)
  /\ resumed \/ size[e.file] > 0
  /\ SetSize(e.file, IF n > 3 THEN 3 ELSE n)
  /\ sane' = [sane EXCEPT ![e.file] = @ /\ n = 2]
  /\ downloaded' = downloaded + 1
  /\ UNCHANGED <<mangled, error, queue, timers, total, redirects>>

(* No error.  The server honours the Range header or sends the whole file  *)
(* again, behind the part that is there.  A wrong size is error 4 and the  *)
(* file is removed.                                                        *)
TransferSucceeds(e, resumed) ==
  LET right == resumed \/ ~HasSize(e) IN
  /\ EndTransfer(e)
  /\ resumed \/ size[e.file] > 0
  /\ SetSize(e.file, IF right THEN 2 ELSE 0)
  /\ IF right
     THEN downloaded' = downloaded + 1 /\ UNCHANGED <<error, sane, mangled>>
     ELSE /\ error' = TRUE
          /\ sane' = [sane EXCEPT ![e.file] = TRUE]
          /\ mangled' = mangled \ {e.file}
          /\ UNCHANGED downloaded
  /\ UNCHANGED <<queue, timers, total, redirects>>

(* A network error leaves a part of the file for the next try.  An HTTP    *)
(* error leaves the page that came with it, for downloadReadyRead does not *)
(* look at the status.                                                     *)
TransferFails(e, n, page) ==
  /\ EndTransfer(e)
  /\ n >= size[e.file]
  /\ IF page THEN n > size[e.file] ELSE n < 2
  /\ SetSize(e.file, n)
  /\ sane' = [sane EXCEPT ![e.file] = @ /\ ~page]
  /\ mangled' = IF page THEN mangled \union {e.file} ELSE mangled
  /\ error' = TRUE
  /\ UNCHANGED <<queue, timers, downloaded, total, redirects>>

(* Mutant: the redirecting reply stays in totalCount.                      *)
TransferRedirectedTwiceCounted(e) ==
  /\ EndTransfer(e)
  /\ redirects < MaxRedirects
  /\ redirects' = redirects + 1
  /\ SetSize(e.file, 0)
  /\ sane' = [sane EXCEPT ![e.file] = TRUE]
  /\ mangled' = mangled \ {e.file}
  /\ AppendAll(<<[e EXCEPT !.hop = redirects']>>)
  /\ total' = total + 1
  /\ UNCHANGED <<downloaded, error>>

(* The file goes back to the end of the queue, without its size; totalCount *)
(* is decremented, then incremented by append.                             *)
TransferRedirected(e) ==
  /\ EndTransfer(e)
  /\ redirects < MaxRedirects
  /\ redirects' = redirects + 1
  /\ SetSize(e.file, 0)
  /\ sane' = [sane EXCEPT ![e.file] = TRUE]
  /\ mangled' = mangled \ {e.file}
  /\ AppendAll(<<[e EXCEPT !.hop = redirects']>>)
  /\ UNCHANGED status

(* A reply ends that is not currentDownload any more.  Its data were never *)
(* read.  The current one is judged in its place, by what has arrived, and *)
(* deleted; if it was deleted before, a dangling pointer is followed.      *)
StrayFinished(e, n) ==
  /\ Idle /\ e \in live /\ e # current
  /\ IF current \notin live
     THEN /\ crashed' = TRUE /\ n = 0
          /\ UNCHANGED <<manager, disk, status>>
     ELSE LET f == current.file IN
          /\ n >= size[f]
          /\ crashed' = FALSE
          /\ live' = live \ {e, current}
          /\ open' = FALSE /\ starting' = TRUE
          /\ IF HasSize(current) /\ n # 2
             THEN /\ SetSize(f, 0)
                  /\ error' = TRUE
                  /\ sane' = [sane EXCEPT ![f] = TRUE]
                  /\ mangled' = mangled \ {f}
                  /\ UNCHANGED downloaded
             ELSE /\ SetSize(f, n)
                  /\ downloaded' = downloaded + 1
                  /\ UNCHANGED <<error, sane, mangled>>
          /\ UNCHANGED <<queue, timers, current, total>>
  /\ UNCHANGED <<update, redirects, overlapped, hasty>>

-----------------------------------------------------------------------------
(* Updates.                                                                *)

(* The button says "Update ?" before the first launch, and "Retry ?" as    *)
(* soon as an error is known: of a download, even if others are running,   *)
(* or of the script, from install.err, even if it is running.              *)
Offered == step \in {0, 2, 4} \/ (step = 1 /\ error)

(* QFile::remove on the script of the previous launch.  A transfer of it   *)
(* that still runs writes to a file without a name: the one this launch    *)
(* queues creates the file anew, whatever the old one leaves.              *)
RemoveScript ==
  /\ SetSize(Batch[1], 0)
  /\ sane' = [sane EXCEPT ![Batch[1]] = TRUE]
  /\ mangled' = mangled \ {Batch[1]}

(* Mutant: a busy queue has its timer cancelled, running or not.           *)
LaunchCancelsTimer ==
  /\ Idle /\ Offered /\ launches < MaxLaunches
  /\ launches' = launches + 1
  /\ hasty' = (hasty \/ loops # <<>> \/ scripts > 0)
  /\ queue' = queue \o [i \in DOMAIN Batch |->
                         [file |-> Batch[i], launch |-> launches', hop |-> 0]]
  /\ timers' = IF queue = <<>> THEN timers + 1 ELSE timers - 1
  /\ downloaded' = 0 /\ total' = Len(Batch) /\ error' = FALSE
  /\ RemoveScript
  /\ step' = 1
  /\ loops' = Append(loops, FALSE)
  /\ UNCHANGED <<starting, current, live, open, scripts, redirects,
                 crashed, overlapped>>

(* Mutant: the first download does not wait for the timer.                 *)
LaunchStartsAtOnce ==
  /\ Idle /\ Offered /\ launches < MaxLaunches
  /\ launches' = launches + 1
  /\ hasty' = (hasty \/ loops # <<>> \/ scripts > 0)
  /\ queue' = queue \o [i \in DOMAIN Batch |->
                         [file |-> Batch[i], launch |-> launches', hop |-> 0]]
  /\ starting' = TRUE
  /\ downloaded' = 0 /\ total' = Len(Batch) /\ error' = FALSE
  /\ RemoveScript
  /\ step' = 1
  /\ loops' = Append(loops, FALSE)
  /\ UNCHANGED <<timers, current, live, open, scripts, redirects, crashed,
                 overlapped>>

(* launchComponentInstallation_slot up to loop.exec(): the old script is   *)
(* removed, clear, one append per asset, a new loop above those that wait. *)
Launch ==
  /\ Idle /\ Offered /\ launches < MaxLaunches
  /\ launches' = launches + 1
  /\ hasty' = (hasty \/ loops # <<>> \/ scripts > 0)
  /\ AppendAll([i \in DOMAIN Batch |->
               [file |-> Batch[i], launch |-> launches', hop |-> 0]])
  /\ downloaded' = 0 /\ total' = Len(Batch) /\ error' = FALSE
  /\ RemoveScript
  /\ step' = 1
  /\ loops' = Append(loops, FALSE)
  /\ UNCHANGED <<starting, current, live, open, scripts, redirects,
                 crashed, overlapped>>

(* The innermost loop returns: nothing more in case of an error, the       *)
(* installation script otherwise.                                          *)
LoopReturns ==
  /\ Idle /\ loops # <<>> /\ loops[Len(loops)]
  /\ loops' = SubSeq(loops, 1, Len(loops) - 1)
  /\ IF error
     THEN UNCHANGED <<step, scripts>>
     ELSE step' = 2 /\ scripts' = scripts + 1
  /\ UNCHANGED <<manager, disk, status, launches, misc>>

(* ScriptManagerThread::finished.                                          *)
ScriptEnds ==
  /\ Idle /\ scripts > 0
  /\ scripts' = scripts - 1
  /\ step' \in {3, 4}
  /\ UNCHANGED <<manager, disk, status, loops, launches, misc>>

-----------------------------------------------------------------------------
StartNextDownload == QueueDone \/ OpenFails \/ AlreadyThere \/ StartTransfer

ReplyFinishes ==
  \E e \in live :
    \/ \E resumed \in BOOLEAN : TransferSucceeds(e, resumed)
    \/ \E n \in 0 .. 3, page \in BOOLEAN : TransferFails(e, n, page)
    \/ TransferRedirected(e)
    \/ \E n \in 0 .. 2 : StrayFinished(e, n)

Next ==
  \/ Launch
  \/ TimerFires
  \/ StartNextDownload
  \/ ReplyFinishes
  \/ LoopReturns
  \/ ScriptEnds

(* Timers fire, a transfer that stalls is ended by its 15 s timeout, and   *)
(* the event loop returns when it was quit.                                *)
Fairness ==
  /\ WF_vars(TimerFires)
  /\ WF_vars(StartNextDownload)
  /\ WF_vars(ReplyFinishes)
  /\ WF_vars(LoopReturns)

Spec == Init /\ [][Next]_vars /\ Fairness

-----------------------------------------------------------------------------
(* Every variable has its type; the counters stay natural numbers.         *)
TypeOK ==
  /\ queue \in Seq(Items) /\ timers \in Nat /\ starting \in BOOLEAN
  /\ current \in Items \union {NoItem} /\ live \subseteq Items
  /\ open \in BOOLEAN
  /\ size \in [Files -> 0 .. 3] /\ sane \in [Files -> BOOLEAN]
  /\ downloaded \in Nat /\ total \in Nat /\ error \in BOOLEAN
  /\ step \in 0 .. 4 /\ loops \in Seq(BOOLEAN) /\ scripts \in Nat
  /\ launches \in 0 .. MaxLaunches /\ redirects \in 0 .. MaxRedirects
  /\ crashed \in BOOLEAN /\ mangled \subseteq Files
  /\ overlapped \in BOOLEAN /\ hasty \in BOOLEAN

(* Unless a timer fired during a transfer, there is one transfer at a      *)
(* time, it is the one the members describe, and its file is open.         *)
OneTransfer ==
  ~overlapped => /\ live \subseteq {current}
                 /\ live # {} => open /\ ~starting
                 /\ ~crashed

(* When finished() is due without an error, the number of files downloaded *)
(* is the number of files asked for, unless a retry reset the counters in  *)
(* the middle.                                                             *)
CountsAgree ==
  starting /\ queue = <<>> /\ ~error /\ ~overlapped /\ ~hasty
    => downloaded = total

(* The script is started when every file of the release is complete and    *)
(* sound, unless transfers overlapped or an error page was saved as a file.*)
InstallsSound ==
  [][scripts' > scripts /\ ~overlapped =>
       \A f \in Files \ mangled : size[f] = 2 /\ sane[f]]_vars

(* Whatever the network does, each launch ends: no loop waits for ever.    *)
LaunchReturns == loops # <<>> ~> loops = <<>> \/ crashed

(* Updates.cpp:632, "launch installation after download": no script while  *)
(* a transfer of the release is running.                                   *)
InstallsAfterDownload == step = 2 => live = {}
=============================================================================
