------------------------------ MODULE Catalog -------------------------------
(***************************************************************************)
(* The replay catalog and what publishes into it.  Publishers (one per     *)
(* packed capture, internal/packer) ask the catalog for a game's main      *)
(* replay, write the bytes to the bucket and register the row; the games   *)
(* mirror, the pipeline's placeholder rows, the admin's refresh and        *)
(* marking write the same rows (replayindex.ts), beside the tables derived *)
(* from them: the settings index and the list of maps.                     *)
(***************************************************************************)
EXTENDS Integers, FiniteSets

CONSTANTS
    Games, Captures,    \* a capture's bytes are told by the capture: its revision
    GameOf, MapOf, SettingsOf,
    AllyOf,             \* the side that recorded a capture, None when it saw every team
    Settings,           \* the settings the BAR API may tell of a game
    MaxEdits            \* bound: mirrored games, refreshes, markings, failed publishes

None == "none"
NoCopy == {None}
ASSUME CatalogAssumption ==
    /\ GameOf \in [Captures -> Games]
    /\ DOMAIN MapOf = Games /\ DOMAIN SettingsOf = Captures /\ DOMAIN AllyOf = Captures
    /\ None \notin Captures \cup Settings /\ {"main", "same"} \cap Captures = {} /\ MaxEdits \in Nat

VARIABLES
    row,        \* replays: the catalog's row of each game, if any
    mirror,     \* games: the mirrored game's settings, if any
    index,      \* replay_settings, of each game
    maps, mapsCache, derived,  \* unique_values.maps, its copy in memory, whether the rebuild landed
    working,    \* games with a job in processing
    bucket,     \* the R2 objects of each game: rid -> capture
    pub,        \* the publisher of each capture
    astray,     \* history: games the index was lost for under a placeholder
    edits       \* bounds used up

derivedVars == <<index, maps, mapsCache>>
vars == <<row, mirror, derivedVars, derived, working, bucket, pub, astray, edits>>

NoRow == [placeholder |-> None]
HasRow(g) == row[g] # NoRow
Published(g) == HasRow(g) /\ ~row[g].placeholder
\* A rid is the game's unsuffixed name, or carries the capture's revision.
isMainRid(rid) == rid = "main"
CapturesAllTeams(c) == AllyOf[c] = None
Edit == edits < MaxEdits /\ edits' = edits + 1
-----------------------------------------------------------------------------
(* The Durable Object.                                                     *)

indexSettings(g, s) == index' = [index EXCEPT ![g] = s]

noteMap(map) ==
    IF map = None \/ map \in maps
    THEN UNCHANGED <<maps, mapsCache>>
    ELSE maps' = maps \cup {map} /\ mapsCache' = maps'

\* The revision joins the list, or refreshes what its entry knew.
mergeUploads(uploads, rid, ally, rev) ==
    LET known == {u \in uploads : u.rid = rid}
        side(u) == IF ally # None THEN ally ELSE u.ally
    IN IF known = {} THEN uploads \cup {[rid |-> rid, ally |-> ally, rev |-> rev]}
       ELSE (uploads \ known) \cup {[rid |-> rid, ally |-> side(u), rev |-> rev] : u \in known}

\* Mutant: the last registration is what the row points at.
upsertLatest(g, rid, c, view) ==
    LET uploads == mergeUploads(IF HasRow(g) THEN row[g].uploads ELSE {}, rid, AllyOf[c], c)
    IN /\ row' = [row EXCEPT ![g] = [placeholder |-> FALSE, rid |-> rid, uploads |-> uploads,
                                     view |-> view, ally |-> AllyOf[c], map |-> MapOf[g],
                                     settings |-> SettingsOf[c]]]
       /\ indexSettings(g, SettingsOf[c]) /\ noteMap(MapOf[g]) /\ astray' = astray \ {g}

\* A game with a main replay keeps it as the row's; anything else replaces the row.
upsert(g, rid, c, view) ==
    LET had == HasRow(g)
        uploads == mergeUploads(IF had THEN row[g].uploads ELSE {}, rid, AllyOf[c], c)
    IN IF had /\ isMainRid(row[g].rid) /\ ~isMainRid(rid)
       THEN row' = [row EXCEPT ![g].uploads = uploads] /\ UNCHANGED <<derivedVars, astray>>
       ELSE /\ row' = [row EXCEPT ![g] = [placeholder |-> FALSE, rid |-> rid, uploads |-> uploads,
                 view |-> IF view = None /\ had THEN row[g].view ELSE view,
                 ally |-> AllyOf[c], map |-> MapOf[g], settings |-> SettingsOf[c]]]
            /\ indexSettings(g, SettingsOf[c]) /\ noteMap(MapOf[g]) /\ astray' = astray \ {g}

\* The admin's marking restamps the current revision's entry with it.
setView(g, view, ally) ==
    /\ HasRow(g) /\ Edit
    /\ LET rid == row[g].rid
           own == {u \in row[g].uploads : u.rid = rid}
           stamped == IF rid = None THEN row[g].uploads
                      ELSE (row[g].uploads \ own) \cup {[u EXCEPT !.ally = ally] : u \in own}
       IN row' = [row EXCEPT ![g].view = view, ![g].ally = ally, ![g].uploads = stamped]
    /\ UNCHANGED <<mirror, derivedVars, derived, working, bucket, pub, astray>>

\* The admin's refresh from the BAR API.
refreshFromApi(g, s) ==
    /\ HasRow(g) /\ Edit
    /\ row' = [row EXCEPT ![g].settings = s]
    /\ indexSettings(g, s)
    /\ astray' = IF row[g].placeholder THEN astray \cup {g} ELSE astray
    /\ UNCHANGED <<mirror, maps, mapsCache, derived, working, bucket, pub>>

\* Mutant: the mirror indexes whatever it writes.
gamesInsertIndexing(g, s) ==
    /\ Edit
    /\ mirror' = [mirror EXCEPT ![g] = s]
    /\ indexSettings(g, s)
    /\ UNCHANGED <<row, maps, mapsCache, derived, working, bucket, pub, astray>>

\* The mirror indexes only what the catalog holds no row of.
gamesInsert(g, s) ==
    /\ Edit
    /\ mirror' = [mirror EXCEPT ![g] = s]
    /\ IF HasRow(g)
       THEN /\ UNCHANGED index
            /\ astray' = IF row[g].placeholder /\ s # row[g].settings THEN astray \cup {g} ELSE astray
       ELSE indexSettings(g, s) /\ astray' = astray \ {g}
    /\ UNCHANGED <<row, maps, mapsCache, derived, working, bucket, pub>>

\* A job of the game enters processing: a row that says so, seeded from the mirror.
ensureCatalogPlaceholder(g) ==
    /\ ~working[g] /\ working' = [working EXCEPT ![g] = TRUE]
    /\ IF HasRow(g) THEN UNCHANGED <<row, index>>
       ELSE /\ row' = [row EXCEPT ![g] = [placeholder |-> TRUE, rid |-> None, uploads |-> {},
                  view |-> None, ally |-> None, settings |-> mirror[g],
                  map |-> IF mirror[g] = None THEN None ELSE MapOf[g]]]
            /\ IF mirror[g] = None THEN UNCHANGED index ELSE indexSettings(g, mirror[g])
    /\ UNCHANGED <<mirror, maps, mapsCache, derived, bucket, pub, astray, edits>>

\* It ends: the row goes unless something was published; the index stays.
dropCatalogPlaceholder(g) ==
    /\ working[g] /\ working' = [working EXCEPT ![g] = FALSE]
    /\ row' = IF Published(g) THEN row ELSE [row EXCEPT ![g] = NoRow]
    /\ UNCHANGED <<mirror, derivedVars, derived, bucket, pub, astray, edits>>

\* The maps list, through its copy of a minute.
mapNames ==
    /\ mapsCache = NoCopy /\ mapsCache' = maps
    /\ UNCHANGED <<row, mirror, index, maps, derived, working, bucket, pub, astray, edits>>

\* The copy's minute is over.
CacheExpires ==
    /\ mapsCache # NoCopy /\ mapsCache' = NoCopy
    /\ UNCHANGED <<row, mirror, index, maps, derived, working, bucket, pub, astray, edits>>

rebuilt == {row[g].map : g \in {g \in Games : HasRow(g)}} \ {None}

\* A new instance of the object: ensureDerived recomputes the list, unless it already did
\* or the day's writes are spent.
Instantiated ==
    /\ \/ ~derived /\ derived' = TRUE /\ maps' = rebuilt /\ mapsCache' = rebuilt
       \/ mapsCache' = NoCopy /\ UNCHANGED <<maps, derived>>
    /\ UNCHANGED <<row, mirror, index, working, bucket, pub, astray, edits>>
-----------------------------------------------------------------------------
(* A publisher: UploadStatic.                                              *)

Idle == [pc |-> "idle", rid |-> None]

\* existingMain: the main replay the catalog knows, and its revision; None when the call fails.
existingMain(g) ==
    LET mains == IF HasRow(g) THEN {u \in row[g].uploads : isMainRid(u.rid)} ELSE {}
    IN {u.rev : u \in mains}

\* The name to publish under: the main one for a full view no main replay is known for.
Asks(c) ==
    /\ pub[c].pc = "idle"
    /\ LET main == existingMain(GameOf[c])
           name == IF ~CapturesAllTeams(c) THEN {c}
                   ELSE IF main = {} THEN {"main"}
                   ELSE IF c \in main THEN {"same", "main"} ELSE {c, "main"}
       IN \E n \in name :      \* "main" also when the catalog could not be asked
             pub' = [pub EXCEPT ![c] = IF n = "same" THEN [pc |-> "uploaded", rid |-> "main"]
                                       ELSE [pc |-> "named", rid |-> n]]
    /\ UNCHANGED <<row, mirror, derivedVars, derived, working, bucket, astray, edits>>

\* Mutant: the main name is written unconditionally.
UploadsAnyway(c) ==
    /\ pub[c].pc = "named"
    /\ bucket' = [bucket EXCEPT ![GameOf[c]] = [r \in DOMAIN @ \cup {pub[c].rid} |->
                                                 IF r = pub[c].rid THEN c ELSE @[r]]]
    /\ pub' = [pub EXCEPT ![c].pc = "uploaded"]
    /\ UNCHANGED <<row, mirror, derivedVars, derived, working, astray, edits>>

\* publishBundle: the main name is claimed by a conditional PUT and lost to whoever has it;
\* a suffixed name belongs to these bytes alone.
Uploads(c) ==
    /\ pub[c].pc = "named"
    /\ LET g == GameOf[c]
           lost == isMainRid(pub[c].rid) /\ "main" \in DOMAIN bucket[g]
           rid == IF lost THEN c ELSE pub[c].rid
       IN /\ bucket' = [bucket EXCEPT ![g] = [r \in DOMAIN @ \cup {rid} |-> IF r = rid THEN c ELSE @[r]]]
          /\ pub' = [pub EXCEPT ![c] = [pc |-> "uploaded", rid |-> rid]]
    /\ UNCHANGED <<row, mirror, derivedVars, derived, working, astray, edits>>

\* putCatalogEntry; a re-simulation declares its view, a capture may say nothing.
Registers(c, view) ==
    /\ pub[c].pc = "uploaded"
    /\ upsert(GameOf[c], pub[c].rid, c, view)
    /\ pub' = [pub EXCEPT ![c] = [Idle EXCEPT !.pc = "registered"]]
    /\ UNCHANGED <<mirror, derived, working, bucket, edits>>

\* It fails or dies anywhere, the answer to its registration included; or it is done. It may
\* be run again.
PublishAgain(c) ==
    /\ pub[c].pc # "idle" /\ Edit
    /\ pub' = [pub EXCEPT ![c] = Idle]
    /\ UNCHANGED <<row, mirror, derivedVars, derived, working, bucket, astray>>
-----------------------------------------------------------------------------
\* A fresh database, or one from before the lists were kept.
Init ==
    /\ \E old \in SUBSET Games :
          /\ row = [g \in Games |-> IF g \in old
                        THEN [placeholder |-> FALSE, rid |-> None, uploads |-> {}, view |-> None,
                              ally |-> None, map |-> MapOf[g], settings |-> None]
                        ELSE NoRow]
    /\ mirror = [g \in Games |-> None] /\ index = [g \in Games |-> None]
    /\ maps = {} /\ mapsCache = NoCopy /\ derived = FALSE
    /\ working = [g \in Games |-> FALSE] /\ bucket = [g \in Games |-> <<>>]
    /\ pub = [c \in Captures |-> Idle] /\ astray = {} /\ edits = 0

Views(c) == {None, IF CapturesAllTeams(c) THEN "full" ELSE "ally"}

Publishing(c) ==
    Asks(c) \/ Uploads(c) \/ PublishAgain(c) \/ \E v \in Views(c) : Registers(c, v)

Admin(g) ==
    \/ \E s \in Settings : refreshFromApi(g, s) \/ gamesInsert(g, s)
    \/ setView(g, "full", None) \/ setView(g, "ally", "a0")

Next ==
    \/ \E c \in Captures : Publishing(c)
    \/ \E g \in Games : Admin(g) \/ ensureCatalogPlaceholder(g) \/ dropCatalogPlaceholder(g)
    \/ mapNames \/ CacheExpires \/ Instantiated

Spec == Init /\ [][Next]_vars
-----------------------------------------------------------------------------
(* What the catalog promises.                                              *)

\* "exactly ONE of them owns an id's entries: the catalog row if there is one, the games row
\* otherwise" (indexSettings), except a game mirrored or refreshed while its placeholder stood,
\* until the next publish; and once the rebuild landed every published map is listed, in
\* memory as in the table (noteMap).
DerivedFollows ==
    /\ \A g \in Games \ astray : index[g] = IF HasRow(g) THEN row[g].settings ELSE mirror[g]
    /\ derived => {row[g].map : g \in {g \in Games : Published(g)}} \ {None} \subseteq maps
    /\ mapsCache # NoCopy => mapsCache = maps

\* "the catalog row's rid names the exact key" and a rev is its bytes' (names.go, mergeUploads):
\* however publishers race, die and are run again, every revision the catalog lists is in the
\* bucket under that name with those bytes.
RevIsOfBytes ==
    \A g \in Games : HasRow(g) =>
        /\ \A u \in row[g].uploads : u.rid \in DOMAIN bucket[g] /\ bucket[g][u.rid] = u.rev
        /\ row[g].rid # None => \E u \in row[g].uploads : u.rid = row[g].rid

\* "A game with a MAIN replay keeps it as the row's current revision" (upsert), "nothing is ever
\* overwritten" (names.go) and uploads accumulate: no step takes the main's place, forgets a
\* revision or writes over bytes.
NothingIsLost ==
    [][\A g \in Games :
         /\ Published(g) => HasRow(g)' /\ {u.rid : u \in row[g].uploads}
                                             \subseteq {u.rid : u \in row'[g].uploads}
         /\ Published(g) /\ isMainRid(row[g].rid) => isMainRid(row'[g].rid)
         /\ \A r \in DOMAIN bucket[g] : r \in DOMAIN bucket'[g] /\ bucket'[g][r] = bucket[g][r]]_vars
=============================================================================
