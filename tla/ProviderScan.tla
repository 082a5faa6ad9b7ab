---------------------------- MODULE ProviderScan ----------------------------
(***************************************************************************)
(* The scan: ProviderManager runs the providers in a thread of its own,    *)
(* they fill a SearchContext with games, files and collections, and        *)
(* finalize turns that into the lists that ApiObject shows.                *)
(*                                                                         *)
(* Providers share the context without knowing each other: one creates a   *)
(* game before it has a collection, another finds the game by its file and *)
(* lists it, a third lists it again; files may be missing or belong to a   *)
(* game of an earlier provider.  What is no game or no collection in the   *)
(* end is sorted out by finalize, in three passes over the maps.           *)
(*                                                                         *)
(* A file stands for a path or for a URI (steam:, lutris:, android:), which*)
(* have a map each and the same code.                                      *)
(***************************************************************************)
EXTENDS Integers, FiniteSets

CONSTANTS
  Games,         \* the Game objects of one scan
  Collections,   \* names of collections
  Files,         \* canonical paths and URIs
  NoGame, NoCollection,
  MaxScans       \* bound: scans of one run of the program

ASSUME NullAssumption == NoGame \notin Games /\ NoCollection \notin Collections
ASSUME BoundAssumption == MaxScans \in Nat

(* How often a list holds a game; 2 stands for more than once.             *)
Times == {0, 1, 2}

VARIABLES
  phase,         \* "idle"; "search", "waiting", "found": see the actions
  created,       \* the games created in this scan
  collections,   \* m_collections
  listed,        \* m_collection_games: a list of games for each collection
  parentless,    \* m_parentless_games
  entries,       \* m_game_entries; a game without files is not in the map
  owner,         \* m_filepath_to_gamefile, m_uri_to_gamefile: parentGame
  pending,       \* m_pending_downloads > 0
  network,       \* m_netman is there
  result,        \* m_providerman_collections, m_providerman_games
  shown,         \* the models of ApiObject
  deleted,       \* the games finalize deletes
  scans

vars == <<phase, created, collections, listed, parentless, entries, owner, pending,
          network, result, shown, deleted, scans>>
context == <<created, collections, listed, parentless, entries, owner>>
outside == <<result, shown, deleted, scans>>

(* What QML sees: the games and collections, the games of a collection,    *)
(* the files of a game and the one collection a game keeps.                *)
NoLists == [c \in Collections |-> [g \in Games |-> 0]]
NoEntries == [g \in Games |-> {}]
NoOwners == [f \in Files |-> NoGame]
Nothing == [games |-> {}, collections |-> {}, gamesOf |-> NoLists, filesOf |-> NoEntries,
            collectionOf |-> [g \in Games |-> NoCollection]]

Init ==
  /\ phase = "idle" /\ pending = FALSE /\ network = FALSE
  /\ created = {} /\ collections = {} /\ parentless = {}
  /\ listed = NoLists /\ entries = NoEntries /\ owner = NoOwners
  /\ result = Nothing /\ shown = Nothing /\ deleted = {} /\ scans = 0

-----------------------------------------------------------------------------
(* Mutant: the context is the one of the scan before, all but cleared.     *)
StartScanningAgain ==
  /\ phase = "idle" /\ scans < MaxScans
  /\ phase' = "search" /\ scans' = scans + 1
  /\ created' = {} /\ collections' = {} /\ parentless' = parentless
  /\ listed' = NoLists /\ entries' = NoEntries /\ owner' = NoOwners
  /\ pending' = FALSE /\ network' \in BOOLEAN
  /\ shown' = Nothing /\ deleted' = {}
  /\ UNCHANGED result

(* ApiObject::startScanning, with a new SearchContext.  The page that asks *)
(* for it is out of reach until the scan has ended.                        *)
StartScanning ==
  /\ phase = "idle" /\ scans < MaxScans
  /\ phase' = "search" /\ scans' = scans + 1
  /\ created' = {} /\ collections' = {} /\ parentless' = {}
  /\ listed' = NoLists /\ entries' = NoEntries /\ owner' = NoOwners
  /\ pending' = FALSE /\ network' \in BOOLEAN
  /\ shown' = Nothing /\ deleted' = {}
  /\ UNCHANGED result

(* create_game_for and game_add_to append to the list of the collection.   *)
Appended(times) == IF times = 0 THEN 1 ELSE 2
List(g, cs) ==
  listed' = [c \in Collections |->
               [h \in Games |-> IF c \in cs /\ h = g THEN Appended(listed[c][h])
                                ELSE listed[c][h]]]

(* Mutant: the game stays among the ones without a collection.             *)
AddToKeeps(g, cs) ==
  /\ List(g, cs)
  /\ parentless' = parentless

(* game_add_to, for every collection of cs.                                *)
AddTo(g, cs) ==
  /\ List(g, cs)
  /\ parentless' = IF cs = {} THEN parentless ELSE parentless \ {g}

(* Mutant: the file is added without a look at its owner.                  *)
AddFilepathAnyway(g, f) ==
  /\ entries' = [h \in Games |-> IF h = g THEN entries[h] \cup {f} ELSE entries[h]]
  /\ owner' = [k \in Files |-> IF k = f /\ owner[f] = NoGame THEN g ELSE owner[k]]

(* game_add_filepath, game_add_uri: a registered file stays where it is.   *)
AddFilepath(g, f) ==
  IF owner[f] # NoGame THEN UNCHANGED <<entries, owner>>
  ELSE /\ entries' = [h \in Games |-> IF h = g THEN entries[h] \cup {f} ELSE entries[h]]
       /\ owner' = [k \in Files |-> IF k = f THEN g ELSE owner[k]]

-----------------------------------------------------------------------------
(* The providers, one entry of their sources at a time.                    *)

(* get_or_create_collection.                                               *)
ReadCollection(c) ==
  /\ phase = "search"
  /\ collections' = collections \cup {c}
  /\ UNCHANGED <<phase, created, listed, parentless, entries, owner, pending, network, outside>>

(* Pegasus metadata: "game:" after the collections cs of the file, which   *)
(* may be none.                                                            *)
ReadGame(cs) ==
  /\ phase = "search" /\ cs \subseteq collections
  /\ \E g \in Games \ created :
       /\ created' = created \cup {g}
       /\ List(g, cs)
       /\ parentless' = IF cs = {} THEN parentless \cup {g} ELSE parentless
  /\ UNCHANGED <<phase, collections, entries, owner, pending, network, outside>>

(* "file:" of a game; a further rom of Logiqx, an application of LaunchBox.*)
ReadFile(g, f) ==
  /\ phase = "search" /\ g \in created
  /\ AddFilepath(g, f)
  /\ UNCHANGED <<phase, created, collections, listed, parentless, pending, network, outside>>

(* ES2, the filters of Pegasus, Steam, GOG and LaunchBox list the game of  *)
(* the file in their collection, a new one twice.                          *)
FindGame(c, f) ==
  /\ phase = "search" /\ c \in collections
  /\ IF owner[f] # NoGame
     THEN AddTo(owner[f], {c}) /\ UNCHANGED <<created, entries, owner>>
     ELSE \E g \in Games \ created :
            /\ created' = created \cup {g}
            /\ listed' = [k \in Collections |->
                            [h \in Games |-> IF k = c /\ h = g THEN 2 ELSE listed[k][h]]]
            /\ AddFilepath(g, f)
            /\ UNCHANGED parentless
  /\ UNCHANGED <<phase, collections, pending, network, outside>>

(* Lutris, Android and Logiqx leave a game that exists where it is.        *)
FindNewGame(c, f) ==
  /\ phase = "search" /\ c \in collections /\ owner[f] = NoGame
  /\ \E g \in Games \ created :
       /\ created' = created \cup {g}
       /\ List(g, {c})
       /\ AddFilepath(g, f)
  /\ UNCHANGED <<phase, collections, parentless, pending, network, outside>>

(* schedule_download: Steam, GOG and Android want the details of a game.   *)
(* The answer does not count the download off, and emits nothing.          *)
ScheduleDownload ==
  /\ phase = "search" /\ network /\ created # {}
  /\ pending' = TRUE
  /\ UNCHANGED <<phase, context, network, outside>>

-----------------------------------------------------------------------------
(* finalize_cleanup_games: the games without a collection lose their       *)
(* entries and are deleted, the ones without entries leave the lists, and  *)
(* empty lists leave the map.                                              *)
KeptEntries == [g \in Games |-> IF g \in parentless THEN {} ELSE entries[g]]

KeptListed(c, g) == IF KeptEntries[g] = {} THEN 0 ELSE listed[c][g]

(* finalize_cleanup_collections: the ones without a list are deleted.      *)
KeptCollections == {c \in collections : \E g \in Games : KeptListed(c, g) > 0}

(* finalize_apply_lists, VEC_REMOVE_DUPLICATES.                            *)
NoDuplicates(times) == IF times = 0 THEN 0 ELSE 1

(* finalize.  A game keeps one of its collections, the first in the order  *)
(* of their addresses.                                                     *)
Finalized(first) ==
  [games |-> {g \in Games : KeptEntries[g] # {}},
   collections |-> KeptCollections,
   gamesOf |-> [c \in Collections |->
                  [g \in Games |-> NoDuplicates(KeptListed(c, g))]],
   filesOf |-> KeptEntries,
   collectionOf |-> first]

FirstCollections ==
  {first \in [Games -> Collections \cup {NoCollection}] :
     \A g \in Games :
       LET cs == {c \in Collections : KeptListed(c, g) > 0}
       IN IF cs = {} THEN first[g] = NoCollection ELSE first[g] \in cs}

(* Mutant: with a network, the scan always waits.                          *)
HasNetwork == network

(* has_pending_downloads.                                                  *)
HasPendingDownloads == pending

(* All providers have run.  With downloads pending, the thread enters its  *)
(* event loop and never leaves it; else the lists are swapped into the     *)
(* members of ApiObject, and finished is queued for the main thread.       *)
ProvidersDone ==
  /\ phase = "search"
  /\ IF HasPendingDownloads
     THEN phase' = "waiting" /\ UNCHANGED <<result, deleted>>
     ELSE /\ phase' = "found"
          /\ \E first \in FirstCollections : result' = Finalized(first)
          /\ deleted' = parentless
  /\ UNCHANGED <<context, pending, network, shown, scans>>

(* onSearchFinished: the lists are appended to the models, which           *)
(* startScanning has cleared.                                              *)
OnSearchFinished ==
  /\ phase = "found"
  /\ phase' = "idle"
  /\ shown' = result
  /\ result' = Nothing
  /\ UNCHANGED <<context, pending, network, deleted, scans>>

-----------------------------------------------------------------------------
Provide ==
  \/ \E c \in Collections : ReadCollection(c)
  \/ \E cs \in SUBSET Collections : ReadGame(cs)
  \/ \E g \in Games, f \in Files : ReadFile(g, f)
  \/ \E c \in Collections, f \in Files : FindGame(c, f)
  \/ \E c \in Collections, f \in Files : FindNewGame(c, f)
  \/ ScheduleDownload

Next == StartScanning \/ Provide \/ ProvidersDone \/ OnSearchFinished

(* Fairness: the sources end, and the main thread handles its events.      *)
Spec == Init /\ [][Next]_vars /\ WF_vars(ProvidersDone) /\ WF_vars(OnSearchFinished)

-----------------------------------------------------------------------------
Lists == [games : SUBSET Games, collections : SUBSET Collections,
          gamesOf : [Collections -> [Games -> Times]],
          filesOf : [Games -> SUBSET Files],
          collectionOf : [Games -> Collections \cup {NoCollection}]]

TypeOK ==
  /\ phase \in {"idle", "search", "waiting", "found"}
  /\ created \subseteq Games /\ collections \subseteq Collections
  /\ listed \in [Collections -> [Games -> Times]]
  /\ parentless \subseteq created
  /\ entries \in [Games -> SUBSET Files]
  /\ owner \in [Files -> Games \cup {NoGame}]
  /\ pending \in BOOLEAN /\ network \in BOOLEAN
  /\ result \in Lists /\ shown \in Lists
  /\ deleted \subseteq Games
  /\ scans \in 0 .. MaxScans

-----------------------------------------------------------------------------
(* The lists of a scan agree with each other, whatever the providers left  *)
(* behind: every collection has a game, every list holds its games once,   *)
(* every game has a file, no file belongs to two games, and the collection *)
(* a game keeps (its launch command comes from there) is shown and lists   *)
(* the game.  No deleted game is shown.                                    *)
Agree(m) ==
  /\ m.games \cap deleted = {}
  /\ \A c \in Collections : c \in m.collections <=> \E g \in m.games : m.gamesOf[c][g] = 1
  /\ \A c \in Collections, g \in Games :
       m.gamesOf[c][g] = 0 \/ (m.gamesOf[c][g] = 1 /\ g \in m.games)
  /\ \A g \in m.games :
       /\ m.filesOf[g] # {}
       /\ m.collectionOf[g] \in m.collections
       /\ m.gamesOf[m.collectionOf[g]][g] = 1
  /\ \A g, h \in m.games : g # h => m.filesOf[g] \cap m.filesOf[h] = {}
ListsAgree == Agree(result) /\ Agree(shown)

(* Nothing is lost on the way: a game that got a file and a collection,    *)
(* from whichever provider and in whichever order, is in the lists of the  *)
(* scan with all its files and in all its collections, and nothing else is.*)
Playable(g) == entries[g] # {} /\ \E c \in Collections : listed[c][g] > 0
FoundIsListed ==
  phase = "found" =>
    /\ result.games = {g \in created : Playable(g)}
    /\ \A g \in result.games :
         /\ result.filesOf[g] = {f \in Files : owner[f] = g}
         /\ {c \in Collections : result.gamesOf[c][g] > 0}
              = {c \in Collections : listed[c][g] > 0}

(* A scan ends, unless a provider scheduled a download: then the program   *)
(* stays on its loading screen.                                            *)
ScanEnds == phase # "idle" ~> phase = "idle" \/ pending

=============================================================================
