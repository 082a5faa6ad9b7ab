------------------------- MODULE ProviderScanProofs -------------------------
(***************************************************************************)
(* The lists of a scan are sound and complete, for any number of games,    *)
(* collections and files.  The invariant that carries the proof relates    *)
(* the maps of the SearchContext to each other: a game is among the ones   *)
(* without a collection exactly while no list holds it, and the entries of *)
(* a game are the files it owns.                                           *)
(***************************************************************************)
EXTENDS ProviderScan, TLAPS

(* A game that was created is parentless exactly while it is in no list.   *)
ParentlessUnlisted ==
  \A g \in created : g \in parentless <=> \A c \in Collections : listed[c][g] = 0

(* Only created games are in the maps, only known collections have lists.  *)
OnlyCreated ==
  \A g \in Games : g \notin created => entries[g] = {} /\ \A c \in Collections : listed[c][g] = 0
OnlyKnown ==
  \A c \in Collections, g \in Games : c \notin collections => listed[c][g] = 0

(* m_game_entries and m_filepath_to_gamefile are each other's inverse.     *)
EntriesOwned ==
  \A g \in Games, f \in Files : f \in entries[g] <=> owner[f] = g

(* During a scan nothing is shown.                                         *)
HiddenInSearch == phase = "search" => shown = Nothing

Context == ParentlessUnlisted /\ OnlyCreated /\ OnlyKnown /\ EntriesOwned

(* The types, apart from the Boolean variables.                            *)
ContextShape ==
  /\ created \subseteq Games /\ collections \subseteq Collections
  /\ listed \in [Collections -> [Games -> Times]]
  /\ parentless \subseteq created
  /\ entries \in [Games -> SUBSET Files]
  /\ owner \in [Files -> Games \cup {NoGame}]
ListsShape ==
  /\ result \in Lists /\ shown \in Lists
  /\ deleted \subseteq Games
PhaseShape ==
  /\ phase \in {"idle", "search", "waiting", "found"}
  /\ scans \in 0 .. MaxScans

ScanInv ==
  /\ PhaseShape /\ ContextShape /\ ListsShape /\ Context
  /\ HiddenInSearch /\ ListsAgree /\ FoundIsListed

-----------------------------------------------------------------------------
(* Listing a game makes its count positive where it is listed and leaves   *)
(* all other counts alone.                                                 *)
LEMMA ListCounts ==
  ASSUME ContextShape, NEW g \in Games, NEW cs \in SUBSET Collections, List(g, cs)
  PROVE  /\ listed' \in [Collections -> [Games -> Times]]
         /\ \A c \in Collections, h \in Games :
              listed'[c][h] = 0 <=> listed[c][h] = 0 /\ ~ (c \in cs /\ h = g)
<1> USE DEF ContextShape, List, Appended, Times
<1>1. \A c \in Collections, h \in Games : listed[c][h] \in Times
  OBVIOUS
<1>2. \A c \in Collections, h \in Games :
        listed'[c][h] = IF c \in cs /\ h = g THEN Appended(listed[c][h]) ELSE listed[c][h]
  OBVIOUS
<1>3. \A c \in Collections, h \in Games : listed'[c][h] \in Times
  BY <1>1, <1>2
<1>4. listed' \in [Collections -> [Games -> Times]]
  BY <1>3
<1>5. QED
  BY <1>1, <1>2, <1>4

(* Adding a file keeps the two maps each other's inverse and gives it to   *)
(* nobody but the game.                                                    *)
LEMMA FileOwned ==
  ASSUME ContextShape, EntriesOwned, NEW g \in Games, NEW f \in Files, AddFilepath(g, f)
  PROVE  /\ entries' \in [Games -> SUBSET Files]
         /\ owner' \in [Files -> Games \cup {NoGame}]
         /\ EntriesOwned'
         /\ \A h \in Games : h # g => entries'[h] = entries[h]
<1>1. CASE owner[f] # NoGame
  BY <1>1 DEF AddFilepath, ContextShape, EntriesOwned
<1>2. CASE owner[f] = NoGame
  <2>1. /\ \A h \in Games : entries'[h] = IF h = g THEN entries[h] \cup {f} ELSE entries[h]
        /\ \A k \in Files : owner'[k] = IF k = f THEN g ELSE owner[k]
    BY <1>2 DEF AddFilepath
  <2>2. /\ entries' \in [Games -> SUBSET Files]
        /\ owner' \in [Files -> Games \cup {NoGame}]
    BY <1>2 DEF AddFilepath, ContextShape
  <2>3. ASSUME NEW h \in Games, NEW k \in Files PROVE k \in entries'[h] <=> owner'[k] = h
    <3>1. k \in entries[h] <=> owner[k] = h
      BY DEF EntriesOwned
    <3>2. f \in entries[h] <=> owner[f] = h
      BY DEF EntriesOwned
    <3>3. NoGame # h
      BY NullAssumption
    <3>4. QED
      BY <1>2, <2>1, <3>1, <3>2, <3>3
  <2>4. QED
    BY <2>1, <2>2, <2>3 DEF EntriesOwned
<1>3. QED
  BY <1>1, <1>2

(* The empty lists agree.                                                  *)
LEMMA NothingAgrees == Agree(Nothing) /\ Nothing \in Lists
<1>1. \A c \in Collections, g \in Games : Nothing.gamesOf[c][g] = 0
  BY DEF Nothing, NoLists
<1>2. Nothing.games = {} /\ Nothing.collections = {}
  BY DEF Nothing
<1>3. Agree(Nothing)
  BY <1>1, <1>2 DEF Agree
<1>4. Nothing \in Lists
  BY DEF Nothing, Lists, NoLists, NoEntries, Times
<1>5. QED
  BY <1>3, <1>4

(* A step of a provider that keeps the context in order keeps the          *)
(* invariant.                                                              *)
LEMMA ProvideInv ==
  ASSUME ScanInv, phase = "search", UNCHANGED <<phase, outside>>,
         ContextShape', Context'
  PROVE  ScanInv'
<1>1. PhaseShape' /\ ListsShape' /\ HiddenInSearch' /\ ListsAgree'
  BY DEF ScanInv, outside, PhaseShape, ListsShape, HiddenInSearch, ListsAgree, Agree
<1>2. FoundIsListed'
  BY DEF FoundIsListed
<1>3. QED
  BY <1>1, <1>2 DEF ScanInv

LEMMA InitInv == Init => ScanInv
<1> SUFFICES ASSUME Init PROVE ScanInv
  OBVIOUS
<1>1. ContextShape
  BY DEF Init, ContextShape, NoLists, NoEntries, NoOwners, Times
<1>2. PhaseShape
  BY BoundAssumption DEF Init, PhaseShape
<1>3. ListsShape /\ ListsAgree
  BY NothingAgrees DEF Init, ListsShape, ListsAgree
<1>4. Context
  BY NullAssumption
  DEF Init, Context, ParentlessUnlisted, OnlyCreated, OnlyKnown, EntriesOwned,
      NoLists, NoEntries, NoOwners
<1>5. HiddenInSearch /\ FoundIsListed
  BY DEF Init, HiddenInSearch, FoundIsListed
<1>6. QED
  BY <1>1, <1>2, <1>3, <1>4, <1>5 DEF ScanInv

LEMMA StartInv == ScanInv /\ StartScanning => ScanInv'
<1> SUFFICES ASSUME ScanInv, StartScanning PROVE ScanInv'
  OBVIOUS
<1>1. ContextShape'
  BY DEF StartScanning, ContextShape, NoLists, NoEntries, NoOwners, Times
<1>2. PhaseShape'
  BY BoundAssumption DEF ScanInv, StartScanning, PhaseShape
<1>3. ListsShape'
  BY NothingAgrees DEF ScanInv, StartScanning, ListsShape
<1>4. ListsAgree'
  <2>1. Agree(result)'
    BY DEF ScanInv, ListsAgree, Agree, StartScanning
  <2>2. Nothing.games = {} /\ Agree(Nothing)
    BY NothingAgrees DEF Nothing
  <2>3. Agree(shown)'
    BY <2>2 DEF StartScanning, Agree
  <2>4. QED
    BY <2>1, <2>3 DEF ListsAgree
<1>5. Context'
  BY NullAssumption
  DEF StartScanning, Context, ParentlessUnlisted, OnlyCreated, OnlyKnown, EntriesOwned,
      NoLists, NoEntries, NoOwners
<1>6. HiddenInSearch' /\ FoundIsListed'
  BY DEF StartScanning, HiddenInSearch, FoundIsListed
<1>7. QED
  BY <1>1, <1>2, <1>3, <1>4, <1>5, <1>6 DEF ScanInv

LEMMA ReadCollectionInv ==
  ASSUME ScanInv, NEW c \in Collections, ReadCollection(c) PROVE ScanInv'
<1>1. ContextShape'
  BY DEF ScanInv, ReadCollection, ContextShape
<1>2. Context'
  BY DEF ScanInv, ReadCollection, Context, ParentlessUnlisted, OnlyCreated, OnlyKnown,
         EntriesOwned
<1>3. QED
  BY <1>1, <1>2, ProvideInv DEF ReadCollection

LEMMA ReadGameInv ==
  ASSUME ScanInv, NEW cs \in SUBSET Collections, ReadGame(cs) PROVE ScanInv'
<1>1. PICK g \in Games \ created :
        /\ created' = created \cup {g}
        /\ List(g, cs)
        /\ parentless' = IF cs = {} THEN parentless \cup {g} ELSE parentless
  BY DEF ReadGame
<1>2. /\ listed' \in [Collections -> [Games -> Times]]
      /\ \A c \in Collections, h \in Games :
           listed'[c][h] = 0 <=> listed[c][h] = 0 /\ ~ (c \in cs /\ h = g)
  BY <1>1, ListCounts DEF ScanInv
<1>3. ContextShape'
  BY <1>1, <1>2 DEF ScanInv, ReadGame, ContextShape
<1>4. ParentlessUnlisted'
  <2> SUFFICES ASSUME NEW h \in created'
               PROVE h \in parentless' <=> \A c \in Collections : listed'[c][h] = 0
    BY DEF ParentlessUnlisted
  <2>1. CASE h = g
    <3>1. g \notin parentless /\ \A c \in Collections : listed[c][g] = 0
      BY <1>1 DEF ScanInv, ContextShape, Context, OnlyCreated
    <3>2. CASE cs = {}
      BY <1>1, <1>2, <2>1, <3>1, <3>2
    <3>3. CASE cs # {}
      BY <1>1, <1>2, <2>1, <3>1, <3>3
    <3>4. QED
      BY <3>2, <3>3
  <2>2. CASE h # g
    <3>1. h \in created /\ h \in Games
      BY <1>1, <2>2 DEF ScanInv, ContextShape
    <3>2. h \in parentless <=> \A c \in Collections : listed[c][h] = 0
      BY <3>1 DEF ScanInv, Context, ParentlessUnlisted
    <3>3. h \in parentless' <=> h \in parentless
      BY <1>1, <2>2
    <3>4. \A c \in Collections : listed'[c][h] = 0 <=> listed[c][h] = 0
      BY <1>2, <2>2, <3>1
    <3>5. QED
      BY <3>2, <3>3, <3>4
  <2>3. QED
    BY <2>1, <2>2
<1>5. OnlyCreated' /\ OnlyKnown'
  BY <1>1, <1>2 DEF ScanInv, Context, ReadGame, OnlyCreated, OnlyKnown
<1>6. EntriesOwned'
  BY DEF ScanInv, Context, ReadGame, EntriesOwned
<1>7. QED
  BY <1>3, <1>4, <1>5, <1>6, ProvideInv DEF ReadGame, Context

LEMMA ReadFileInv ==
  ASSUME ScanInv, NEW g \in Games, NEW f \in Files, ReadFile(g, f) PROVE ScanInv'
<1>1. /\ entries' \in [Games -> SUBSET Files]
      /\ owner' \in [Files -> Games \cup {NoGame}]
      /\ EntriesOwned'
      /\ \A h \in Games : h # g => entries'[h] = entries[h]
  BY FileOwned DEF ScanInv, Context, ReadFile
<1>2. ContextShape'
  BY <1>1 DEF ScanInv, ReadFile, ContextShape
<1>3. ParentlessUnlisted' /\ OnlyKnown'
  BY DEF ScanInv, Context, ReadFile, ParentlessUnlisted, OnlyKnown
<1>4. OnlyCreated'
  BY <1>1 DEF ScanInv, Context, ReadFile, OnlyCreated
<1>5. QED
  BY <1>1, <1>2, <1>3, <1>4, ProvideInv DEF ReadFile, Context

(* A provider creates a game for a collection and gives it its file; only  *)
(* the list of that collection grows.                                      *)
LEMMA NewGameInv ==
  ASSUME ScanInv, NEW c \in Collections, NEW f \in Files, NEW g \in Games \ created,
         c \in collections, created' = created \cup {g}, AddFilepath(g, f),
         UNCHANGED <<collections, parentless>>,
         listed' \in [Collections -> [Games -> Times]],
         \A d \in Collections, h \in Games :
           listed'[d][h] = 0 <=> listed[d][h] = 0 /\ ~ (d = c /\ h = g)
  PROVE  ContextShape' /\ Context'
<1>1. /\ entries' \in [Games -> SUBSET Files]
      /\ owner' \in [Files -> Games \cup {NoGame}]
      /\ EntriesOwned'
      /\ \A h \in Games : h # g => entries'[h] = entries[h]
  BY FileOwned DEF ScanInv, Context
<1>2. ContextShape'
  BY <1>1 DEF ScanInv, ContextShape
<1>3. ParentlessUnlisted'
  <2> SUFFICES ASSUME NEW h \in created'
               PROVE h \in parentless' <=> \A d \in Collections : listed'[d][h] = 0
    BY DEF ParentlessUnlisted
  <2>1. CASE h = g
    BY <2>1 DEF ScanInv, ContextShape
  <2>2. CASE h # g
    <3>1. h \in created /\ h \in Games
      BY <2>2 DEF ScanInv, ContextShape
    <3>2. h \in parentless <=> \A d \in Collections : listed[d][h] = 0
      BY <3>1 DEF ScanInv, Context, ParentlessUnlisted
    <3>3. QED
      BY <2>2, <3>1, <3>2
  <2>3. QED
    BY <2>1, <2>2
<1>4. OnlyCreated'
  BY <1>1 DEF ScanInv, Context, OnlyCreated
<1>5. OnlyKnown'
  BY DEF ScanInv, Context, OnlyKnown
<1>6. QED
  BY <1>1, <1>2, <1>3, <1>4, <1>5 DEF Context

LEMMA FindGameInv ==
  ASSUME ScanInv, NEW c \in Collections, NEW f \in Files, FindGame(c, f) PROVE ScanInv'
<1>1. CASE owner[f] # NoGame
  <2>1. owner[f] \in Games /\ {c} \in SUBSET Collections /\ owner[f] \in created
    BY <1>1 DEF ScanInv, ContextShape, Context, OnlyCreated, EntriesOwned
  <2>2. /\ List(owner[f], {c})
        /\ parentless' = parentless \ {owner[f]}
        /\ UNCHANGED <<created, collections, entries, owner>>
    BY <1>1 DEF FindGame, AddTo
  <2>3. /\ listed' \in [Collections -> [Games -> Times]]
        /\ \A d \in Collections, h \in Games :
             listed'[d][h] = 0 <=> listed[d][h] = 0 /\ ~ (d \in {c} /\ h = owner[f])
    BY <2>1, <2>2, ListCounts DEF ScanInv
  <2>4. ContextShape'
    BY <2>2, <2>3 DEF ScanInv, ContextShape
  <2>5. ParentlessUnlisted'
    <3> SUFFICES ASSUME NEW h \in created'
                 PROVE h \in parentless' <=> \A d \in Collections : listed'[d][h] = 0
      BY DEF ParentlessUnlisted
    <3>1. h \in created /\ h \in Games
      BY <2>2 DEF ScanInv, ContextShape
    <3>2. h \in parentless <=> \A d \in Collections : listed[d][h] = 0
      BY <3>1 DEF ScanInv, Context, ParentlessUnlisted
    <3>3. CASE h = owner[f]
      BY <2>2, <2>3, <3>1, <3>3
    <3>4. CASE h # owner[f]
      BY <2>2, <2>3, <3>1, <3>2, <3>4
    <3>5. QED
      BY <3>3, <3>4
  <2>6. OnlyCreated'
    BY <2>1, <2>2, <2>3 DEF ScanInv, Context, OnlyCreated
  <2>7. OnlyKnown'
    BY <2>2, <2>3 DEF ScanInv, Context, FindGame, OnlyKnown
  <2>8. EntriesOwned'
    BY <2>2 DEF ScanInv, Context, EntriesOwned
  <2>9. QED
    BY <2>4, <2>5, <2>6, <2>7, <2>8, ProvideInv DEF FindGame, Context
<1>2. CASE owner[f] = NoGame
  <2>1. PICK g \in Games \ created :
          /\ created' = created \cup {g}
          /\ listed' = [k \in Collections |->
                         [h \in Games |-> IF k = c /\ h = g THEN 2 ELSE listed[k][h]]]
          /\ AddFilepath(g, f)
          /\ UNCHANGED parentless
    BY <1>2 DEF FindGame
  <2>2. /\ listed' \in [Collections -> [Games -> Times]]
        /\ \A d \in Collections, h \in Games :
             listed'[d][h] = 0 <=> listed[d][h] = 0 /\ ~ (d = c /\ h = g)
    BY <2>1 DEF ScanInv, ContextShape, Times
  <2>3. QED
    BY <2>1, <2>2, NewGameInv, ProvideInv DEF FindGame
<1>3. QED
  BY <1>1, <1>2

LEMMA FindNewGameInv ==
  ASSUME ScanInv, NEW c \in Collections, NEW f \in Files, FindNewGame(c, f) PROVE ScanInv'
<1>1. PICK g \in Games \ created :
        created' = created \cup {g} /\ List(g, {c}) /\ AddFilepath(g, f)
  BY DEF FindNewGame
<1>2. /\ listed' \in [Collections -> [Games -> Times]]
      /\ \A d \in Collections, h \in Games :
           listed'[d][h] = 0 <=> listed[d][h] = 0 /\ ~ (d \in {c} /\ h = g)
  BY <1>1, ListCounts DEF ScanInv
<1>3. QED
  BY <1>1, <1>2, NewGameInv, ProvideInv DEF FindNewGame

LEMMA ScheduleInv == ScanInv /\ ScheduleDownload => ScanInv'
<1> SUFFICES ASSUME ScanInv, ScheduleDownload PROVE ScanInv'
  OBVIOUS
<1>1. ContextShape' /\ Context'
  BY DEF ScanInv, ScheduleDownload, context, ContextShape, Context, ParentlessUnlisted,
         OnlyCreated, OnlyKnown, EntriesOwned
<1>2. QED
  BY <1>1, ProvideInv DEF ScheduleDownload

-----------------------------------------------------------------------------
(* What finalize makes of a context in order: the games that have entries  *)
(* and a list, with all their files and collections.                       *)
LEMMA KeptArePlayable ==
  ASSUME ContextShape, Context, NEW g \in Games
  PROVE  /\ KeptEntries[g] # {} <=> g \in created /\ Playable(g)
         /\ KeptEntries[g] # {} => KeptEntries[g] = entries[g]
         /\ \A c \in Collections :
              KeptListed(c, g) = IF KeptEntries[g] # {} THEN listed[c][g] ELSE 0
<1>1. KeptEntries[g] = IF g \in parentless THEN {} ELSE entries[g]
  BY DEF KeptEntries
<1>2. \A c \in Collections : listed[c][g] \in Times
  BY DEF ContextShape
<1>3. CASE g \in created
  <2>1. g \in parentless <=> \A c \in Collections : listed[c][g] = 0
    BY <1>3 DEF Context, ParentlessUnlisted
  <2>2. g \in parentless <=> ~ \E c \in Collections : listed[c][g] > 0
    BY <1>2, <2>1 DEF Times
  <2>3. QED
    BY <1>1, <1>3, <2>2 DEF Playable, KeptListed
<1>4. CASE g \notin created
  BY <1>1, <1>4 DEF Context, OnlyCreated, KeptListed, Playable
<1>5. QED
  BY <1>3, <1>4

LEMMA FinalizedAgrees ==
  ASSUME ContextShape, Context, NEW first \in FirstCollections, deleted' = parentless,
         result' = Finalized(first)
  PROVE  Agree(result)' /\ result' \in Lists
<1> DEFINE m == Finalized(first)
<1>1. /\ m.games = {g \in Games : KeptEntries[g] # {}}
      /\ m.collections = KeptCollections
      /\ m.filesOf = KeptEntries
      /\ m.collectionOf = first
      /\ \A c \in Collections, g \in Games : m.gamesOf[c][g] = NoDuplicates(KeptListed(c, g))
  BY DEF Finalized
<1>2. \A c \in Collections, g \in Games : KeptListed(c, g) \in Times
  BY DEF KeptListed, ContextShape, Times
<1>3. \A c \in Collections, g \in Games :
        /\ m.gamesOf[c][g] = 0 <=> KeptListed(c, g) = 0
        /\ m.gamesOf[c][g] = 1 <=> KeptListed(c, g) > 0
        /\ m.gamesOf[c][g] \in {0, 1}
  BY <1>1, <1>2 DEF NoDuplicates, Times
<1>4. m.games \cap parentless = {}
  BY <1>1 DEF KeptEntries
<1>5. \A c \in Collections, g \in Games : KeptListed(c, g) > 0 => g \in m.games /\ c \in collections
  <2> SUFFICES ASSUME NEW c \in Collections, NEW g \in Games, KeptListed(c, g) > 0
               PROVE g \in m.games /\ c \in collections
    OBVIOUS
  <2>1. KeptEntries[g] # {} /\ listed[c][g] > 0
    BY DEF KeptListed
  <2>2. listed[c][g] # 0
    BY <2>1
  <2>3. QED
    BY <1>1, <2>1, <2>2 DEF Context, OnlyKnown
<1>6. \A c \in Collections : c \in m.collections <=> \E g \in m.games : m.gamesOf[c][g] = 1
  BY <1>1, <1>3, <1>5 DEF KeptCollections
<1>7. \A c \in Collections, g \in Games :
        m.gamesOf[c][g] = 0 \/ (m.gamesOf[c][g] = 1 /\ g \in m.games)
  BY <1>3, <1>5
<1>8. ASSUME NEW g \in m.games
      PROVE  /\ m.filesOf[g] # {}
             /\ m.collectionOf[g] \in m.collections
             /\ m.gamesOf[m.collectionOf[g]][g] = 1
  <2>1. g \in Games /\ KeptEntries[g] # {}
    BY <1>1
  <2>2. \E c \in Collections : KeptListed(c, g) > 0
    BY <2>1, KeptArePlayable DEF Playable
  <2>3. first[g] \in {c \in Collections : KeptListed(c, g) > 0}
    BY <2>1, <2>2 DEF FirstCollections
  <2>4. first[g] \in Collections /\ KeptListed(first[g], g) > 0
    BY <2>3
  <2>5. first[g] \in m.collections
    BY <1>1, <1>5, <2>1, <2>4 DEF KeptCollections
  <2>6. m.gamesOf[first[g]][g] = 1
    BY <1>3, <2>1, <2>4
  <2>7. QED
    BY <1>1, <2>1, <2>5, <2>6
<1>9. ASSUME NEW g \in m.games, NEW h \in m.games, g # h
      PROVE  m.filesOf[g] \cap m.filesOf[h] = {}
  <2>1. g \in Games /\ h \in Games
    BY <1>1
  <2>2. m.filesOf[g] \subseteq entries[g] /\ m.filesOf[h] \subseteq entries[h]
    BY <1>1, <2>1 DEF KeptEntries
  <2>3. entries[g] \subseteq Files
    BY <2>1 DEF ContextShape
  <2>4. \A f \in Files : ~ (f \in entries[g] /\ f \in entries[h])
    BY <1>9, <2>1 DEF Context, EntriesOwned
  <2>5. QED
    BY <2>2, <2>3, <2>4
<1>10. m \in Lists
  <2>1. m.gamesOf \in [Collections -> [Games -> Times]]
    BY <1>2 DEF Finalized, NoDuplicates, Times
  <2>2. m.filesOf \in [Games -> SUBSET Files]
    BY DEF Finalized, KeptEntries, ContextShape
  <2>3. m.collectionOf \in [Games -> Collections \cup {NoCollection}]
    BY DEF Finalized, FirstCollections
  <2>4. m.games \in SUBSET Games /\ m.collections \in SUBSET Collections
    BY DEF Finalized, KeptCollections, ContextShape
  <2>5. QED
    BY <2>1, <2>2, <2>3, <2>4 DEF Finalized, Lists
<1> HIDE DEF m
<1>11. result' = m
  BY DEF m
<1>12. QED
  BY <1>4, <1>6, <1>7, <1>8, <1>9, <1>10, <1>11 DEF Agree

(* The lists finalize hands over are complete.                             *)
LEMMA FinalizedComplete ==
  ASSUME ContextShape, Context, NEW first \in FirstCollections, UNCHANGED context,
         result' = Finalized(first)
  PROVE  FoundIsListed'
<1> DEFINE m == Finalized(first)
<1>1. m.games = {g \in Games : KeptEntries[g] # {}} /\ m.filesOf = KeptEntries
  BY DEF Finalized
<1>2. \A c \in Collections, g \in Games : m.gamesOf[c][g] > 0 <=> KeptListed(c, g) > 0
  <2>1. \A c \in Collections, g \in Games : KeptListed(c, g) \in Times
    BY DEF KeptListed, ContextShape, Times
  <2>2. QED
    BY <2>1 DEF Finalized, NoDuplicates, Times
<1>3. m.games = {g \in created : Playable(g)}
  BY <1>1, KeptArePlayable DEF ContextShape
<1>4. ASSUME NEW g \in m.games
      PROVE  /\ m.filesOf[g] = {f \in Files : owner[f] = g}
             /\ {c \in Collections : m.gamesOf[c][g] > 0} = {c \in Collections : listed[c][g] > 0}
  <2>1. g \in Games /\ KeptEntries[g] # {}
    BY <1>1
  <2>2. /\ KeptEntries[g] = entries[g]
        /\ \A c \in Collections : KeptListed(c, g) = listed[c][g]
    BY <2>1, KeptArePlayable
  <2>3. entries[g] = {f \in Files : owner[f] = g}
    BY <2>1 DEF ContextShape, Context, EntriesOwned
  <2>4. QED
    BY <1>1, <1>2, <2>1, <2>2, <2>3
<1> HIDE DEF m
<1>5. result' = m
  BY DEF m
<1>6. UNCHANGED <<created, entries, listed, owner>>
  BY DEF context
<1>7. QED
  BY <1>3, <1>4, <1>5, <1>6 DEF FoundIsListed, Playable

LEMMA DoneInv == ScanInv /\ ProvidersDone => ScanInv'
<1> SUFFICES ASSUME ScanInv, ProvidersDone PROVE ScanInv'
  OBVIOUS
<1>1. ContextShape' /\ Context'
  BY DEF ScanInv, ProvidersDone, context, ContextShape, Context, ParentlessUnlisted,
         OnlyCreated, OnlyKnown, EntriesOwned
<1>2. PhaseShape'
  BY DEF ScanInv, ProvidersDone, PhaseShape
<1>3. CASE HasPendingDownloads
  <2>1. ListsShape' /\ HiddenInSearch' /\ ListsAgree' /\ FoundIsListed'
    BY <1>3 DEF ScanInv, ProvidersDone, ListsShape, HiddenInSearch, ListsAgree, Agree,
                FoundIsListed
  <2>2. QED
    BY <1>1, <1>2, <2>1 DEF ScanInv
<1>4. CASE ~ HasPendingDownloads
  <2>1. PICK first \in FirstCollections : result' = Finalized(first)
    BY <1>4 DEF ProvidersDone
  <2>2. deleted' = parentless /\ phase' = "found" /\ UNCHANGED <<context, shown>>
    BY <1>4 DEF ProvidersDone
  <2>3. Agree(result)' /\ result' \in Lists
    BY <2>1, <2>2, FinalizedAgrees DEF ScanInv
  <2>4. shown' = Nothing
    BY <2>2 DEF ScanInv, ProvidersDone, HiddenInSearch
  <2>5. Nothing.games = {} /\ Agree(Nothing) /\ Nothing \in Lists
    BY NothingAgrees DEF Nothing
  <2>6. Agree(shown)'
    BY <2>4, <2>5 DEF Agree
  <2>7. FoundIsListed'
    BY <2>1, <2>2, FinalizedComplete DEF ScanInv
  <2>8. ListsShape'
    BY <2>2, <2>3, <2>4, <2>5 DEF ScanInv, ListsShape, ContextShape
  <2>9. HiddenInSearch'
    BY <2>2 DEF HiddenInSearch
  <2>10. QED
    BY <1>1, <1>2, <2>3, <2>6, <2>7, <2>8, <2>9 DEF ScanInv, ListsAgree
<1>5. QED
  BY <1>3, <1>4

LEMMA FinishedInv == ScanInv /\ OnSearchFinished => ScanInv'
<1> SUFFICES ASSUME ScanInv, OnSearchFinished PROVE ScanInv'
  OBVIOUS
<1>1. ContextShape' /\ Context'
  BY DEF ScanInv, OnSearchFinished, context, ContextShape, Context, ParentlessUnlisted,
         OnlyCreated, OnlyKnown, EntriesOwned
<1>2. PhaseShape'
  BY DEF ScanInv, OnSearchFinished, PhaseShape
<1>3. ListsShape'
  BY NothingAgrees DEF ScanInv, OnSearchFinished, ListsShape
<1>4. Agree(shown)'
  BY DEF ScanInv, OnSearchFinished, ListsAgree, Agree
<1>5. Agree(result)'
  <2>1. Nothing.games = {} /\ Agree(Nothing)
    BY NothingAgrees DEF Nothing
  <2>2. QED
    BY <2>1 DEF OnSearchFinished, Agree
<1>6. HiddenInSearch' /\ FoundIsListed'
  BY DEF OnSearchFinished, HiddenInSearch, FoundIsListed
<1>7. QED
  BY <1>1, <1>2, <1>3, <1>4, <1>5, <1>6 DEF ScanInv, ListsAgree

LEMMA StutterInv == ScanInv /\ UNCHANGED vars => ScanInv'
BY DEF ScanInv, vars, PhaseShape, ContextShape, ListsShape, Context, ParentlessUnlisted,
       OnlyCreated, OnlyKnown, EntriesOwned, HiddenInSearch, ListsAgree, Agree,
       FoundIsListed, Playable

-----------------------------------------------------------------------------
(* The maps of the context, the lists handed over and the lists shown are  *)
(* in order in every state.                                                *)
THEOREM ScanInvariant == Spec => []ScanInv
<1>1. ScanInv /\ [Next]_vars => ScanInv'
  <2> SUFFICES ASSUME ScanInv, [Next]_vars PROVE ScanInv'
    OBVIOUS
  <2>1. CASE Provide
    <3>1. ASSUME NEW c \in Collections, ReadCollection(c) PROVE ScanInv'
      BY <3>1, ReadCollectionInv
    <3>2. ASSUME NEW cs \in SUBSET Collections, ReadGame(cs) PROVE ScanInv'
      BY <3>2, ReadGameInv
    <3>3. ASSUME NEW g \in Games, NEW f \in Files, ReadFile(g, f) PROVE ScanInv'
      BY <3>3, ReadFileInv
    <3>4. ASSUME NEW c \in Collections, NEW f \in Files, FindGame(c, f) PROVE ScanInv'
      BY <3>4, FindGameInv
    <3>5. ASSUME NEW c \in Collections, NEW f \in Files, FindNewGame(c, f) PROVE ScanInv'
      BY <3>5, FindNewGameInv
    <3>6. QED
      BY <2>1, <3>1, <3>2, <3>3, <3>4, <3>5, ScheduleInv DEF Provide
  <2>2. QED
    BY <2>1, StartInv, DoneInv, FinishedInv, StutterInv DEF Next
<1>2. QED
  BY <1>1, InitInv, PTL DEF Spec

(* The Boolean variables, apart from the others.                           *)
FlagsOK == pending \in BOOLEAN /\ network \in BOOLEAN

LEMMA FlagsCorrect == Spec => []FlagsOK
<1>1. Init => FlagsOK
  BY DEF Init, FlagsOK
<1>2. FlagsOK /\ [Next]_vars => FlagsOK'
  BY DEF FlagsOK, Next, vars, Provide, StartScanning, ReadCollection, ReadGame, ReadFile,
         FindGame, FindNewGame, ScheduleDownload, ProvidersDone, OnSearchFinished
<1>3. QED
  BY <1>1, <1>2, PTL DEF Spec

(* Every variable keeps to its type.                                       *)
THEOREM TypeCorrect == Spec => []TypeOK
<1>1. ScanInv /\ FlagsOK => TypeOK
  BY DEF ScanInv, FlagsOK, PhaseShape, ContextShape, ListsShape, TypeOK
<1>2. QED
  BY <1>1, ScanInvariant, FlagsCorrect, PTL

(* The lists of a scan agree with each other, whatever the providers left  *)
(* behind: finalize_cleanup_games, finalize_cleanup_collections and        *)
(* finalize_apply_lists leave no dangling end.                             *)
THEOREM ListsAlwaysAgree == Spec => []ListsAgree
<1>1. ScanInv => ListsAgree
  BY DEF ScanInv
<1>2. QED
  BY <1>1, ScanInvariant, PTL

(* A game that got a file and a collection is listed with all its files    *)
(* and in all its collections, and nothing else is.                        *)
THEOREM NothingIsLost == Spec => []FoundIsListed
<1>1. ScanInv => FoundIsListed
  BY DEF ScanInv
<1>2. QED
  BY <1>1, ScanInvariant, PTL

=============================================================================
