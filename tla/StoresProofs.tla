---------------------------- MODULE StoresProofs ----------------------------
(***************************************************************************)
(* Proofs about two stores that processes change while others do and are   *)
(* killed at it: Catalog, for any games, captures and publishers, and      *)
(* DataDir, for any number of processes and builds, whatever files their   *)
(* packages share, and any number of tasks, kills and stops.               *)
(***************************************************************************)
EXTENDS Catalog, DataDir, SequenceTheorems, TLAPS

-----------------------------------------------------------------------------
(* PART ONE: THE CATALOG.                                                  *)

Rids == Captures \cup {"main"}
Allies == {AllyOf[c] : c \in Captures} \cup {None, "a0"}
KnownSettings == Settings \cup {SettingsOf[c] : c \in Captures} \cup {None}
KnownMaps == {MapOf[g] : g \in Games} \cup {None}
Upload == [rid : Rids, ally : Allies, rev : Captures]
Row == [placeholder : BOOLEAN, rid : Rids \cup {None}, uploads : SUBSET Upload,
        view : {None, "full", "ally"}, ally : Allies, map : KnownMaps, settings : KnownSettings]
Publisher == [pc : {"idle", "named", "uploaded", "registered"}, rid : Rids \cup {None}]

RowsTyped ==
    /\ row \in [Games -> Row \cup {NoRow}]
    /\ mirror \in [Games -> KnownSettings] /\ index \in [Games -> KnownSettings]
    /\ working \in [Games -> BOOLEAN] /\ derived \in BOOLEAN
    /\ DOMAIN bucket = Games
    /\ pub \in [Captures -> Publisher]

\* What a row's revisions and a publisher's name say is in the bucket; a suffixed name
\* carries its own bytes, so that writing it again changes nothing.
Named(u, g) == u.rid \in DOMAIN bucket[g] /\ bucket[g][u.rid] = u.rev
RevisionInv ==
    /\ \A g \in Games : \A r \in DOMAIN bucket[g] : r # "main" => bucket[g][r] = r
    /\ \A c \in Captures :
          /\ pub[c].pc \in {"named", "uploaded"} => pub[c].rid \in {c, "main"}
          /\ pub[c].pc = "uploaded" => Named([rid |-> pub[c].rid, rev |-> c], GameOf[c])
    /\ \A g \in Games : HasRow(g) =>
          /\ \A u \in row[g].uploads : Named(u, g)
          /\ row[g].rid # None => \E u \in row[g].uploads : u.rid = row[g].rid

\* What the derived tables say; a placeholder the mirror agrees with leaves them right when it goes.
DerivedInv ==
    /\ \A g \in Games \ astray : index[g] = IF HasRow(g) THEN row[g].settings ELSE mirror[g]
    /\ \A g \in Games \ astray : HasRow(g) /\ row[g].placeholder => row[g].settings = mirror[g]
    /\ derived => \A g \in Games : Published(g) => row[g].map = None \/ row[g].map \in maps
    /\ mapsCache # NoCopy => mapsCache = maps

\* No revision is forgotten by a step.
Kept(g) ==
    Published(g) =>
        /\ HasRow(g)'
        /\ \A u \in row[g].uploads : \E v \in row'[g].uploads : v.rid = u.rid
        /\ isMainRid(row[g].rid) => isMainRid(row'[g].rid)

\* Nothing in the bucket is written over.
Grows == \A g \in Games : \A r \in DOMAIN bucket[g] : r \in DOMAIN bucket'[g] /\ bucket'[g][r] = bucket[g][r]

LEMMA RowIsNotAbsent == \A r \in Row : r # NoRow
  BY DEF Row, NoRow

\* A merge keeps every revision there was, and holds the registered one under its own bytes.
LEMMA Merged ==
    ASSUME NEW uploads \in SUBSET Upload, NEW rid \in Rids, NEW ally \in Allies, NEW rev \in Captures
    PROVE  LET M == mergeUploads(uploads, rid, ally, rev)
           IN /\ M \in SUBSET Upload
              /\ \A u \in M : (u.rid = rid /\ u.rev = rev) \/ u \in uploads
              /\ \E u \in M : u.rid = rid
              /\ \A u \in uploads : \E v \in M : v.rid = u.rid
  <1> DEFINE known == {u \in uploads : u.rid = rid}
             side(u) == IF ally # None THEN ally ELSE u.ally
             M == mergeUploads(uploads, rid, ally, rev)
  <1>1. CASE known = {}
    <2>1. M = uploads \cup {[rid |-> rid, ally |-> ally, rev |-> rev]}
      BY <1>1 DEF mergeUploads
    <2>2. [rid |-> rid, ally |-> ally, rev |-> rev] \in Upload
      BY DEF Upload
    <2> QED
      BY <2>1, <2>2
  <1>2. CASE known # {}
    <2>1. M = (uploads \ known) \cup {[rid |-> rid, ally |-> side(u), rev |-> rev] : u \in known}
      BY <1>2 DEF mergeUploads
    <2>2. \A u \in known : [rid |-> rid, ally |-> side(u), rev |-> rev] \in Upload
      BY DEF Upload
    <2> HIDE DEF M
    <2>3. PICK k \in known : TRUE
      BY <1>2
    <2>4. [rid |-> rid, ally |-> side(k), rev |-> rev] \in M
      BY <2>1, <2>3
    <2>5. M \in SUBSET Upload /\ \A u \in M : (u.rid = rid /\ u.rev = rev) \/ u \in uploads
      BY <2>1, <2>2
    <2>6. \E u \in M : u.rid = rid
      BY <2>4
    <2>7. ASSUME NEW u \in uploads PROVE \E v \in M : v.rid = u.rid
      <3>1. CASE u \in known
        BY <2>6, <3>1
      <3>2. CASE u \notin known
        BY <2>1, <3>2
      <3> QED
        BY <3>1, <3>2
    <2> QED
      BY <2>5, <2>6, <2>7 DEF M
  <1> QED
    BY <1>1, <1>2

\* A registration: the row has the revision, whatever it says of the rest.
LEMMA RegistersKeeps ==
    ASSUME RowsTyped, RevisionInv, DerivedInv, NEW c \in Captures, NEW view \in Views(c), Registers(c, view)
    PROVE  RowsTyped' /\ RevisionInv' /\ DerivedInv' /\ Grows /\ \A g \in Games : Kept(g)
  <1> DEFINE g == GameOf[c]
             rid == pub[c].rid
             had == HasRow(g)
             old == IF had THEN row[g].uploads ELSE {}
             U == mergeUploads(old, rid, AllyOf[c], c)
             stays == had /\ isMainRid(row[g].rid) /\ ~isMainRid(rid)
             fresh == [placeholder |-> FALSE, rid |-> rid, uploads |-> U,
                 view |-> IF view = None /\ had THEN row[g].view ELSE view,
                 ally |-> AllyOf[c], map |-> MapOf[g], settings |-> SettingsOf[c]]
             merged == [row[g] EXCEPT !.uploads = U]
             R == IF stays THEN merged ELSE fresh
  <1>1. /\ g \in Games /\ c \in Captures /\ AllyOf[c] \in Allies /\ MapOf[g] \in KnownMaps
        /\ SettingsOf[c] \in KnownSettings /\ None \notin Rids
    BY CatalogAssumption DEF Allies, KnownMaps, KnownSettings, Rids, None
  <1>2. pub[c].pc = "uploaded" /\ rid \in {c, "main"} /\ Named([rid |-> rid, rev |-> c], g)
    BY DEF Registers, RevisionInv
  <1>3. rid \in Rids
    BY <1>2 DEF Rids
  <1>4. had => row[g] \in Row
    BY <1>1 DEF RowsTyped, HasRow
  <1>5. old \in SUBSET Upload
    BY <1>4 DEF Row
  <1> HIDE DEF old
  <1>6. /\ U \in SUBSET Upload
        /\ \A u \in U : (u.rid = rid /\ u.rev = c) \/ u \in old
        /\ \E u \in U : u.rid = rid
        /\ \A u \in old : \E v \in U : v.rid = u.rid
    BY <1>1, <1>3, <1>5, Merged
  <1>7. row' = [row EXCEPT ![g] = R]
    BY DEF Registers, upsert, old
  <1>8. pub' = [pub EXCEPT ![c] = [Idle EXCEPT !.pc = "registered"]] /\ UNCHANGED <<mirror, derived, working, bucket>>
    BY DEF Registers
  <1>9. IF stays THEN UNCHANGED <<index, maps, mapsCache, astray>>
        ELSE /\ index' = [index EXCEPT ![g] = SettingsOf[c]]
             /\ noteMap(MapOf[g]) /\ astray' = astray \ {g}
    BY DEF Registers, upsert, derivedVars, indexSettings
  <1> HIDE DEF U
  <1>10. R \in Row /\ R.uploads = U /\ R.rid \in {rid, IF had THEN row[g].rid ELSE rid}
    <2>1. CASE stays
      BY <1>1, <1>4, <1>6, <2>1 DEF Row
    <2>2. CASE ~stays
      <3>1. view \in {None, "full", "ally"}
        BY DEF Views
      <3>2. (IF view = None /\ had THEN row[g].view ELSE view) \in {None, "full", "ally"}
        BY <1>4, <3>1 DEF Row
      <3>3. fresh \in Row
        <4> DEFINE v == IF view = None /\ had THEN row[g].view ELSE view
        <4> HIDE DEF v
        <4>1. v \in {None, "full", "ally"}
          BY <3>2 DEF v
        <4>2. [placeholder |-> FALSE, rid |-> rid, uploads |-> U, view |-> v,
               ally |-> AllyOf[c], map |-> MapOf[g], settings |-> SettingsOf[c]] \in Row
          <5> HIDE DEF rid, g
          <5> QED
            BY <1>1, <1>3, <1>6, <4>1 DEF Row
        <4> QED
          BY <4>2 DEF v
      <3> QED
        BY <2>2, <3>3
    <2> QED
      BY <2>1, <2>2
  <1>11. R # NoRow /\ row'[g] = R /\ \A h \in Games \ {g} : row'[h] = row[h]
    BY <1>1, <1>7, <1>10, RowIsNotAbsent DEF RowsTyped
  <1> HIDE DEF R
  <1>12. RowsTyped'
    <2>1. row' \in [Games -> Row \cup {NoRow}]
      BY <1>1, <1>7, <1>10 DEF RowsTyped
    <2>2. index' \in [Games -> KnownSettings]
      BY <1>1, <1>9 DEF RowsTyped
    <2>3. pub' \in [Captures -> Publisher]
      BY <1>8 DEF RowsTyped, Publisher, Idle
    <2> QED
      BY <1>8, <2>1, <2>2, <2>3 DEF RowsTyped
  <1>13. RevisionInv'
    <2>1. ASSUME NEW d \in Captures
          PROVE  /\ pub'[d].pc \in {"named", "uploaded"} => pub'[d].rid \in {d, "main"}
                 /\ pub'[d].pc = "uploaded" => Named([rid |-> pub[d].rid, rev |-> d], GameOf[d])'
      <3>1. CASE d = c
        BY <1>8, <3>1 DEF RowsTyped, Idle
      <3>2. CASE d # c
        BY <1>8, <3>2 DEF RowsTyped, RevisionInv, Named
      <3> QED
        BY <3>1, <3>2
    <2>2. ASSUME NEW u \in U PROVE Named(u, g)'
      <3>1. CASE u.rid = rid /\ u.rev = c
        BY <1>2, <1>8, <3>1 DEF Named
      <3>2. CASE u \in old
        BY <1>1, <1>8, <3>2 DEF RevisionInv, Named, old
      <3> QED
        BY <1>6, <3>1, <3>2
    <2>3. R.rid # None => \E u \in U : u.rid = R.rid
      <3>1. CASE R.rid = rid
        BY <1>6, <3>1
      <3>2. CASE had /\ R.rid = row[g].rid
        <4>1. R.rid # None => \E u \in old : u.rid = R.rid
          BY <1>1, <3>2 DEF RevisionInv, old
        <4> QED
          BY <1>6, <4>1
      <3> QED
        BY <1>10, <3>1, <3>2
    <2>4. ASSUME NEW h \in Games, HasRow(h)'
          PROVE  /\ \A u \in row'[h].uploads : Named(u, h)'
                 /\ row'[h].rid # None => \E u \in row'[h].uploads : u.rid = row'[h].rid
      <3>1. CASE h = g
        BY <1>10, <1>11, <2>2, <2>3, <3>1
      <3>2. CASE h # g
        BY <1>8, <1>11, <2>4, <3>2 DEF RevisionInv, Named, HasRow
      <3> QED
        BY <3>1, <3>2
    <2> QED
      BY <1>8, <2>1, <2>4 DEF RevisionInv
  <1>14. DerivedInv'
    <2>1. CASE stays
      <3>1. R.settings = row[g].settings /\ R.placeholder = row[g].placeholder /\ R.map = row[g].map
        BY <1>4, <2>1 DEF R, Row
      <3>2. UNCHANGED <<index, maps, mapsCache, astray, mirror, derived>>
        BY <1>8, <1>9, <2>1
      <3>3. \A h \in Games : HasRow(h)' <=> HasRow(h)
        BY <1>11, <2>1 DEF HasRow
      <3>4. \A h \in Games : HasRow(h) => /\ row'[h].settings = row[h].settings
                                          /\ row'[h].placeholder = row[h].placeholder
                                          /\ row'[h].map = row[h].map
        BY <1>11, <3>1
      <3> QED
        BY <3>2, <3>3, <3>4 DEF DerivedInv, Published
    <2>2. CASE ~stays
      <3>1. /\ R.settings = SettingsOf[c] /\ R.placeholder = FALSE /\ R.map = MapOf[g]
        BY <2>2 DEF R
      <3>2. /\ index' = [index EXCEPT ![g] = SettingsOf[c]] /\ noteMap(MapOf[g]) /\ astray' = astray \ {g}
        BY <1>9, <2>2
      <3>3. maps \subseteq maps' /\ (MapOf[g] = None \/ MapOf[g] \in maps')
        BY <3>2 DEF noteMap
      <3>4. mapsCache' # NoCopy => mapsCache' = maps'
        BY <3>2 DEF noteMap, DerivedInv
      <3>5. \A h \in Games \ {g} : HasRow(h)' <=> HasRow(h)
        BY <1>11 DEF HasRow
      <3>6. HasRow(g)'
        BY <1>11 DEF HasRow
      <3>7. ASSUME NEW h \in Games \ astray'
            PROVE  index'[h] = IF HasRow(h)' THEN row'[h].settings ELSE mirror'[h]
        <4>1. CASE h = g
          BY <1>11, <3>1, <3>2, <3>6, <4>1 DEF RowsTyped
        <4>2. CASE h # g
          BY <1>8, <1>11, <3>2, <3>5, <3>7, <4>2 DEF RowsTyped, DerivedInv
        <4> QED
          BY <4>1, <4>2
      <3>8. ASSUME NEW h \in Games \ astray', HasRow(h)', row'[h].placeholder
            PROVE  row'[h].settings = mirror'[h]
        <4>1. h # g
          BY <1>11, <3>1, <3>8
        <4> QED
          BY <1>8, <1>11, <3>2, <3>5, <3>8, <4>1 DEF DerivedInv
      <3>9. ASSUME derived', NEW h \in Games, Published(h)'
            PROVE  row'[h].map = None \/ row'[h].map \in maps'
        <4>1. CASE h = g
          BY <1>11, <3>1, <3>3, <4>1
        <4>2. CASE h # g
          BY <1>8, <1>11, <3>3, <3>9, <4>2 DEF DerivedInv, Published, HasRow
        <4> QED
          BY <4>1, <4>2
      <3> QED
        BY <3>4, <3>7, <3>8, <3>9 DEF DerivedInv
    <2> QED
      BY <2>1, <2>2
  <1>15. ASSUME NEW h \in Games PROVE Kept(h)
    <2>1. CASE h = g
      <3>1. ASSUME Published(h) PROVE \A u \in row[h].uploads : \E v \in row'[h].uploads : v.rid = u.rid
        BY <1>6, <1>10, <1>11, <2>1, <3>1 DEF old, Published
      <3>2. ASSUME Published(h), isMainRid(row[h].rid) PROVE isMainRid(row'[h].rid)
        <4>1. CASE isMainRid(rid)
          BY <1>10, <1>11, <2>1, <3>2, <4>1 DEF isMainRid
        <4>2. CASE ~isMainRid(rid)
          <5>1. stays
            BY <2>1, <3>2, <4>2 DEF Published
          <5>2. R.rid = row[g].rid
            BY <1>4, <5>1 DEF R, Row
          <5> QED
            BY <1>11, <2>1, <3>2, <5>2
        <4> QED
          BY <4>1, <4>2
      <3>3. HasRow(h)'
        BY <1>11, <2>1 DEF HasRow
      <3> QED
        BY <3>1, <3>2, <3>3 DEF Kept
    <2>2. CASE h # g
      BY <1>11, <2>2 DEF Kept, Published, HasRow
    <2> QED
      BY <2>1, <2>2
  <1> QED
    BY <1>8, <1>12, <1>13, <1>14, <1>15 DEF Grows

Result == RowsTyped' /\ RevisionInv' /\ DerivedInv' /\ Grows /\ \A g \in Games : Kept(g)

\* The bucket only grows: names that were right stay right.
LEMMA GrowingKeepsNames ==
    ASSUME Grows, NEW g \in Games, NEW u, Named(u, g)
    PROVE  Named(u, g)'
  BY DEF Grows, Named

\* The upload: the main name is written once, a suffixed one always with the same bytes.
LEMMA UploadsKeeps ==
    ASSUME RowsTyped, RevisionInv, DerivedInv, NEW c \in Captures, Uploads(c)
    PROVE  Result
  <1> DEFINE g == GameOf[c]
             lost == isMainRid(pub[c].rid) /\ "main" \in DOMAIN bucket[g]
             rid == IF lost THEN c ELSE pub[c].rid
             B == [r \in DOMAIN bucket[g] \cup {rid} |-> IF r = rid THEN c ELSE bucket[g][r]]
  <1>1. g \in Games /\ pub[c].pc = "named" /\ pub[c].rid \in {c, "main"}
    BY CatalogAssumption DEF Uploads, RevisionInv
  <1>2. /\ bucket' = [bucket EXCEPT ![g] = B]
        /\ pub' = [pub EXCEPT ![c] = [pc |-> "uploaded", rid |-> rid]]
        /\ UNCHANGED <<row, mirror, index, maps, mapsCache, derived, working, astray>>
    BY DEF Uploads, derivedVars
  <1>3. rid \in {c, "main"} /\ (rid = "main" => "main" \notin DOMAIN bucket[g])
    BY <1>1, CatalogAssumption DEF isMainRid
  <1> HIDE DEF rid
  <1>4. /\ bucket'[g] = B /\ DOMAIN bucket' = Games
        /\ \A h \in Games : h # g => bucket'[h] = bucket[h]
    <2> HIDE DEF B, g
    <2> QED
      BY <1>1, <1>2 DEF RowsTyped
  <1>5. DOMAIN B = DOMAIN bucket[g] \cup {rid} /\ B[rid] = c
    OBVIOUS
  <1>6. \A r \in DOMAIN bucket[g] : B[r] = bucket[g][r]
    <2>1. ASSUME NEW r \in DOMAIN bucket[g] PROVE B[r] = bucket[g][r]
      <3>1. CASE r = rid
        <4>1. r = c /\ c # "main"
          BY <1>3, <3>1, CatalogAssumption
        <4>2. bucket[g][r] = r
          BY <1>1, <4>1 DEF RevisionInv
        <4> QED
          BY <1>5, <3>1, <4>1, <4>2
      <3>2. CASE r # rid
        BY <3>2
      <3> QED
        BY <3>1, <3>2
    <2> QED
      BY <2>1
  <1> HIDE DEF B
  <1>7. Grows
    BY <1>4, <1>5, <1>6 DEF Grows
  <1>8. RowsTyped'
    <2>1. [pc |-> "uploaded", rid |-> rid] \in Publisher
      BY <1>3 DEF Publisher, Rids
    <2> QED
      BY <1>2, <1>4, <2>1 DEF RowsTyped
  <1>9. RevisionInv'
    <2>1. ASSUME NEW h \in Games, NEW r \in DOMAIN bucket'[h], r # "main" PROVE bucket'[h][r] = r
      <3>1. CASE h = g /\ r = rid
        BY <1>3, <1>4, <1>5, <2>1, <3>1
      <3>2. CASE ~(h = g /\ r = rid)
        BY <1>4, <1>5, <1>6, <2>1, <3>2 DEF RevisionInv
      <3> QED
        BY <3>1, <3>2
    <2>2. ASSUME NEW d \in Captures
          PROVE  /\ pub'[d].pc \in {"named", "uploaded"} => pub'[d].rid \in {d, "main"}
                 /\ pub'[d].pc = "uploaded" => Named([rid |-> pub[d].rid, rev |-> d], GameOf[d])'
      <3>1. CASE d = c
        <4>1. pub'[c] = [pc |-> "uploaded", rid |-> rid]
          BY <1>2 DEF RowsTyped
        <4>2. Named([rid |-> pub[c].rid, rev |-> c], g)'
          BY <1>4, <1>5, <4>1 DEF Named
        <4> QED
          BY <1>3, <3>1, <4>1, <4>2
      <3>2. CASE d # c
        <4>1. pub'[d] = pub[d] /\ GameOf[d] \in Games
          BY <1>2, <3>2, CatalogAssumption DEF RowsTyped
        <4>2. pub[d].pc = "uploaded" => Named([rid |-> pub[d].rid, rev |-> d], GameOf[d])
          BY DEF RevisionInv
        <4>3. pub[d].pc = "uploaded" => Named([rid |-> pub[d].rid, rev |-> d], GameOf[d])'
          BY <1>7, <4>1, <4>2 DEF Grows, Named
        <4> QED
          BY <4>1, <4>3 DEF RevisionInv
      <3> QED
        BY <3>1, <3>2
    <2>3. ASSUME NEW h \in Games, HasRow(h)'
          PROVE  /\ \A u \in row'[h].uploads : Named(u, h)'
                 /\ row'[h].rid # None => \E u \in row'[h].uploads : u.rid = row'[h].rid
      <3>1. HasRow(h) /\ row' = row
        BY <1>2, <2>3 DEF HasRow
      <3>2. \A u \in row[h].uploads : Named(u, h)'
        BY <1>7, <3>1 DEF RevisionInv, Named, Grows
      <3> QED
        BY <3>1, <3>2 DEF RevisionInv
    <2> QED
      BY <2>1, <2>2, <2>3 DEF RevisionInv
  <1>10. DerivedInv'
    BY <1>2 DEF DerivedInv, Published, HasRow
  <1>11. \A h \in Games : Kept(h)
    BY <1>2 DEF Kept, Published, HasRow
  <1> QED
    BY <1>7, <1>8, <1>9, <1>10, <1>11 DEF Result

\* Asking: a publisher told that its own bytes are the main replay has nothing to upload.
LEMMA AsksKeeps ==
    ASSUME RowsTyped, RevisionInv, DerivedInv, NEW c \in Captures, Asks(c)
    PROVE  Result
  <1> DEFINE g == GameOf[c]
             main == existingMain(g)
  <1>1. g \in Games /\ UNCHANGED <<row, mirror, index, maps, mapsCache, derived, working, bucket, astray>>
    BY CatalogAssumption DEF Asks, derivedVars
  <1>2. ASSUME c \in main PROVE Named([rid |-> "main", rev |-> c], g)
    <2>1. PICK u \in row[g].uploads : HasRow(g) /\ u.rid = "main" /\ u.rev = c
      BY <1>2 DEF existingMain, isMainRid
    <2> QED
      BY <1>1, <2>1 DEF RevisionInv, Named
  <1>3. PICK p \in {[pc |-> "named", rid |-> c], [pc |-> "named", rid |-> "main"],
                    [pc |-> "uploaded", rid |-> "main"]} :
           /\ pub' = [pub EXCEPT ![c] = p]
           /\ p.pc = "uploaded" => c \in main
    <2> DEFINE as(n) == IF n = "same" THEN [pc |-> "uploaded", rid |-> "main"]
                                      ELSE [pc |-> "named", rid |-> n]
    <2>1. PICK n \in {c, "main", "same"} : pub' = [pub EXCEPT ![c] = as(n)] /\ (n = "same" => c \in main)
      <3>1. c # "same"
        BY CatalogAssumption
      <3> HIDE DEF main
      <3> QED
        BY <3>1 DEF Asks, main
    <2>2. as(n).pc = "uploaded" => n = "same"
      OBVIOUS
    <2>3. as(n) \in {[pc |-> "named", rid |-> c], [pc |-> "named", rid |-> "main"],
                     [pc |-> "uploaded", rid |-> "main"]}
      OBVIOUS
    <2> QED
      BY <2>1, <2>2, <2>3
  <1>4. p \in Publisher /\ p.rid \in {c, "main"} /\ (p.pc = "uploaded" => p.rid = "main")
    BY <1>3 DEF Publisher, Rids
  <1>5. RowsTyped'
    BY <1>1, <1>3, <1>4 DEF RowsTyped
  <1>6. ASSUME NEW d \in Captures
        PROVE  /\ pub'[d].pc \in {"named", "uploaded"} => pub'[d].rid \in {d, "main"}
               /\ pub'[d].pc = "uploaded" => Named([rid |-> pub[d].rid, rev |-> d], GameOf[d])'
    <2>1. CASE d = c
      <3>1. pub'[c] = p
        BY <1>3 DEF RowsTyped
      <3>2. p.pc = "uploaded" => Named([rid |-> p.rid, rev |-> c], g)
        BY <1>2, <1>3, <1>4
      <3> QED
        BY <1>1, <1>4, <2>1, <3>1, <3>2 DEF Named
    <2>2. CASE d # c
      BY <1>1, <1>3, <2>2 DEF RowsTyped, RevisionInv, Named
    <2> QED
      BY <2>1, <2>2
  <1>7. RevisionInv'
    <2>1. \A h \in Games : HasRow(h)' =>
             /\ \A u \in row'[h].uploads : Named(u, h)'
             /\ row'[h].rid # None => \E u \in row'[h].uploads : u.rid = row'[h].rid
      BY <1>1 DEF RevisionInv, HasRow, Named
    <2>2. \A h \in Games : \A r \in DOMAIN bucket'[h] : r # "main" => bucket'[h][r] = r
      BY <1>1 DEF RevisionInv
    <2> QED
      BY <1>6, <2>1, <2>2 DEF RevisionInv
  <1>8. DerivedInv' /\ Grows /\ \A h \in Games : Kept(h)
    BY <1>1 DEF DerivedInv, Grows, Kept, Published, HasRow
  <1> QED
    BY <1>5, <1>7, <1>8 DEF Result

\* Starting over leaves only what is published already.
LEMMA PublishAgainKeeps ==
    ASSUME RowsTyped, RevisionInv, DerivedInv, NEW c \in Captures, PublishAgain(c)
    PROVE  Result
  <1>1. /\ pub' = [pub EXCEPT ![c] = Idle]
        /\ UNCHANGED <<row, mirror, index, maps, mapsCache, derived, working, bucket, astray>>
    BY DEF PublishAgain, derivedVars
  <1>2. RowsTyped'
    <2>1. Idle \in Publisher
      BY DEF Idle, Publisher
    <2> QED
      BY <1>1, <2>1 DEF RowsTyped
  <1>3. ASSUME NEW d \in Captures
        PROVE  /\ pub'[d].pc \in {"named", "uploaded"} => pub'[d].rid \in {d, "main"}
               /\ pub'[d].pc = "uploaded" => Named([rid |-> pub[d].rid, rev |-> d], GameOf[d])'
    <2>1. CASE d = c
      BY <1>1, <2>1 DEF RowsTyped, Idle
    <2>2. CASE d # c
      BY <1>1, <2>2 DEF RowsTyped, RevisionInv, Named
    <2> QED
      BY <2>1, <2>2
  <1>4. RevisionInv'
    <2>1. \A h \in Games : HasRow(h)' =>
             /\ \A u \in row'[h].uploads : Named(u, h)'
             /\ row'[h].rid # None => \E u \in row'[h].uploads : u.rid = row'[h].rid
      BY <1>1 DEF RevisionInv, HasRow, Named
    <2>2. \A h \in Games : \A r \in DOMAIN bucket'[h] : r # "main" => bucket'[h][r] = r
      BY <1>1 DEF RevisionInv
    <2> QED
      BY <1>3, <2>1, <2>2 DEF RevisionInv
  <1>5. DerivedInv' /\ Grows /\ \A h \in Games : Kept(h)
    BY <1>1 DEF DerivedInv, Grows, Kept, Published, HasRow
  <1> QED
    BY <1>2, <1>4, <1>5 DEF Result

\* The object's own operations touch neither the bucket nor a publisher.
LEMMA RowsOnly ==
    ASSUME RevisionInv, UNCHANGED <<bucket, pub>>,
           \A g \in Games : HasRow(g)' =>
              /\ \A u \in row'[g].uploads : Named(u, g)
              /\ row'[g].rid # None => \E u \in row'[g].uploads : u.rid = row'[g].rid
    PROVE  RevisionInv' /\ Grows
  <1>1. \A g \in Games : \A r \in DOMAIN bucket'[g] : r # "main" => bucket'[g][r] = r
    BY DEF RevisionInv
  <1>2. \A c \in Captures :
          /\ pub'[c].pc \in {"named", "uploaded"} => pub'[c].rid \in {c, "main"}
          /\ pub'[c].pc = "uploaded" => Named([rid |-> pub[c].rid, rev |-> c], GameOf[c])'
    BY DEF RevisionInv, Named
  <1>3. \A g \in Games : HasRow(g)' =>
              /\ \A u \in row'[g].uploads : Named(u, g)'
              /\ row'[g].rid # None => \E u \in row'[g].uploads : u.rid = row'[g].rid
    BY DEF Named
  <1> QED
    BY <1>1, <1>2, <1>3 DEF RevisionInv, Grows

LEMMA RowsAlike ==
    ASSUME RevisionInv, UNCHANGED <<row, bucket, pub>>
    PROVE  RevisionInv' /\ Grows /\ \A g \in Games : Kept(g)
  <1>1. \A g \in Games : HasRow(g)' =>
              /\ \A u \in row'[g].uploads : Named(u, g)
              /\ row'[g].rid # None => \E u \in row'[g].uploads : u.rid = row'[g].rid
    BY DEF RevisionInv, HasRow
  <1>2. \A g \in Games : Kept(g)
    BY DEF Kept, Published, HasRow
  <1> QED
    BY <1>1, <1>2, RowsOnly

\* The marking restamps an entry: the same name, the same bytes.
LEMMA SetViewKeeps ==
    ASSUME RowsTyped, RevisionInv, DerivedInv, NEW g \in Games,
           NEW view \in {"full", "ally"}, NEW ally \in {None, "a0"}, setView(g, view, ally)
    PROVE  Result
  <1> DEFINE own == {u \in row[g].uploads : u.rid = row[g].rid}
             stamped == IF row[g].rid = None THEN row[g].uploads
                        ELSE (row[g].uploads \ own) \cup {[u EXCEPT !.ally = ally] : u \in own}
             R == [row[g] EXCEPT !.view = view, !.ally = ally, !.uploads = stamped]
  <1>1. /\ HasRow(g) /\ row' = [row EXCEPT ![g] = R]
        /\ UNCHANGED <<mirror, index, maps, mapsCache, derived, working, bucket, pub, astray>>
    BY DEF setView, derivedVars
  <1>2. row[g] \in Row
    BY <1>1 DEF RowsTyped, HasRow
  <1>3. \A u \in own : /\ [u EXCEPT !.ally = ally] \in Upload
                       /\ [u EXCEPT !.ally = ally].rid = u.rid /\ [u EXCEPT !.ally = ally].rev = u.rev
    BY <1>2 DEF Row, Upload, Allies
  <1>4. /\ stamped \in SUBSET Upload
        /\ \A u \in stamped : \E v \in row[g].uploads : u.rid = v.rid /\ u.rev = v.rev
        /\ \A u \in row[g].uploads : \E v \in stamped : u.rid = v.rid
    <2>1. row[g].uploads \in SUBSET Upload
      BY <1>2 DEF Row
    <2>2. CASE row[g].rid = None
      BY <2>1, <2>2
    <2>3. CASE row[g].rid # None
      <3> DEFINE restamped == {[u EXCEPT !.ally = ally] : u \in own}
      <3>1. /\ restamped \in SUBSET Upload
            /\ \A u \in restamped : \E v \in own : u.rid = v.rid /\ u.rev = v.rev
            /\ \A v \in own : \E u \in restamped : u.rid = v.rid
        BY <1>3, ZenonT(30)
      <3>2. stamped = (row[g].uploads \ own) \cup restamped
        BY <2>3
      <3> HIDE DEF restamped, stamped
      <3> QED
        BY <2>1, <3>1, <3>2
    <2> QED
      BY <2>2, <2>3
  <1> HIDE DEF stamped
  <1>5. /\ R \in Row /\ R.uploads = stamped /\ R.rid = row[g].rid /\ R.settings = row[g].settings
        /\ R.placeholder = row[g].placeholder /\ R.map = row[g].map
    BY <1>2, <1>4 DEF Row, Allies
  <1> HIDE DEF R
  <1>6. row'[g] = R /\ HasRow(g)' /\ \A h \in Games \ {g} : row'[h] = row[h] /\ (HasRow(h)' <=> HasRow(h))
    BY <1>1, <1>5, RowIsNotAbsent DEF RowsTyped, HasRow
  <1>7. RowsTyped'
    BY <1>1, <1>5 DEF RowsTyped
  <1>8. ASSUME NEW h \in Games, HasRow(h)'
        PROVE  /\ \A u \in row'[h].uploads : Named(u, h)
               /\ row'[h].rid # None => \E u \in row'[h].uploads : u.rid = row'[h].rid
    <2>1. CASE h = g
      <3>1. \A u \in stamped : Named(u, g)
        BY <1>1, <1>4 DEF RevisionInv, Named
      <3>2. R.rid # None => \E u \in stamped : u.rid = R.rid
        <4>1. R.rid # None => \E u \in row[g].uploads : u.rid = R.rid
          BY <1>1, <1>5 DEF RevisionInv
        <4> QED
          BY <1>4, <4>1
      <3> QED
        BY <1>5, <1>6, <2>1, <3>1, <3>2
    <2>2. CASE h # g
      BY <1>6, <1>8, <2>2 DEF RevisionInv
    <2> QED
      BY <2>1, <2>2
  <1>9. RevisionInv' /\ Grows
    BY <1>1, <1>8, RowsOnly
  <1>10. DerivedInv'
    <2>1. \A h \in Games : /\ HasRow(h)' <=> HasRow(h)
                           /\ row'[h].settings = row[h].settings
                           /\ row'[h].placeholder = row[h].placeholder
                           /\ row'[h].map = row[h].map
      BY <1>1, <1>5, <1>6
    <2> QED
      BY <1>1, <2>1 DEF DerivedInv, Published
  <1>11. \A h \in Games : Kept(h)
    BY <1>4, <1>5, <1>6 DEF Kept, Published, HasRow
  <1> QED
    BY <1>7, <1>9, <1>10, <1>11 DEF Result

LEMMA RefreshKeeps ==
    ASSUME RowsTyped, RevisionInv, DerivedInv, NEW g \in Games, NEW s \in Settings, refreshFromApi(g, s)
    PROVE  Result
  <1> DEFINE R == [row[g] EXCEPT !.settings = s]
  <1>1. /\ HasRow(g) /\ row' = [row EXCEPT ![g] = R] /\ index' = [index EXCEPT ![g] = s]
        /\ astray' = IF row[g].placeholder THEN astray \cup {g} ELSE astray
        /\ UNCHANGED <<mirror, maps, mapsCache, derived, working, bucket, pub>>
    BY DEF refreshFromApi, indexSettings
  <1>2. row[g] \in Row /\ s \in KnownSettings
    BY <1>1 DEF RowsTyped, HasRow, KnownSettings
  <1>3. /\ R \in Row /\ R.uploads = row[g].uploads /\ R.rid = row[g].rid /\ R.settings = s
        /\ R.placeholder = row[g].placeholder /\ R.map = row[g].map
    BY <1>2 DEF Row
  <1> HIDE DEF R
  <1>4. row'[g] = R /\ HasRow(g)' /\ \A h \in Games \ {g} : row'[h] = row[h] /\ (HasRow(h)' <=> HasRow(h))
    BY <1>1, <1>3, RowIsNotAbsent DEF RowsTyped, HasRow
  <1>5. RowsTyped'
    BY <1>1, <1>2, <1>3 DEF RowsTyped
  <1>6. \A h \in Games : HasRow(h)' =>
             /\ \A u \in row'[h].uploads : Named(u, h)
             /\ row'[h].rid # None => \E u \in row'[h].uploads : u.rid = row'[h].rid
    BY <1>1, <1>3, <1>4 DEF RevisionInv
  <1>7. RevisionInv' /\ Grows
    BY <1>1, <1>6, RowsOnly
  <1>8. ASSUME NEW h \in Games \ astray'
        PROVE  /\ index'[h] = IF HasRow(h)' THEN row'[h].settings ELSE mirror'[h]
               /\ HasRow(h)' /\ row'[h].placeholder => row'[h].settings = mirror'[h]
    <2>1. CASE h = g
      <3>1. ~row[g].placeholder
        BY <1>1, <1>8, <2>1
      <3>2. ~row'[h].placeholder
        BY <1>3, <1>4, <2>1, <3>1
      <3>3. index'[h] = s /\ row'[h].settings = s /\ HasRow(h)'
        BY <1>1, <1>3, <1>4, <2>1 DEF RowsTyped
      <3> QED
        BY <3>2, <3>3
    <2>2. CASE h # g
      <3>1. h \in Games \ astray /\ index'[h] = index[h] /\ row'[h] = row[h] /\ (HasRow(h)' <=> HasRow(h))
        BY <1>1, <1>4, <1>8, <2>2 DEF RowsTyped
      <3> QED
        BY <1>1, <3>1 DEF DerivedInv
    <2> QED
      BY <2>1, <2>2
  <1>9. \A h \in Games : /\ HasRow(h)' <=> HasRow(h)
                         /\ row'[h].placeholder = row[h].placeholder
                         /\ row'[h].map = row[h].map /\ row'[h].uploads = row[h].uploads
                         /\ row'[h].rid = row[h].rid
    BY <1>1, <1>3, <1>4
  <1>10. DerivedInv'
    <2>1. derived' => \A h \in Games : Published(h)' => row'[h].map = None \/ row'[h].map \in maps'
      BY <1>1, <1>9 DEF DerivedInv, Published
    <2>2. mapsCache' # NoCopy => mapsCache' = maps'
      BY <1>1 DEF DerivedInv
    <2> QED
      BY <1>8, <2>1, <2>2 DEF DerivedInv
  <1>11. \A h \in Games : Kept(h)
    BY <1>9 DEF Kept, Published
  <1> QED
    BY <1>5, <1>7, <1>10, <1>11 DEF Result

LEMMA MirrorKeeps ==
    ASSUME RowsTyped, RevisionInv, DerivedInv, NEW g \in Games, NEW s \in Settings, gamesInsert(g, s)
    PROVE  Result
  <1>1. /\ mirror' = [mirror EXCEPT ![g] = s]
        /\ UNCHANGED <<row, maps, mapsCache, derived, working, bucket, pub>>
    BY DEF gamesInsert
  <1>2. IF HasRow(g)
        THEN /\ UNCHANGED index
             /\ astray' = IF row[g].placeholder /\ s # row[g].settings THEN astray \cup {g} ELSE astray
        ELSE index' = [index EXCEPT ![g] = s] /\ astray' = astray \ {g}
    BY DEF gamesInsert, indexSettings
  <1>3. RowsTyped'
    BY <1>1, <1>2 DEF RowsTyped, KnownSettings
  <1>4. RevisionInv' /\ Grows /\ \A h \in Games : Kept(h)
    BY <1>1, RowsAlike
  <1>5. ASSUME NEW h \in Games \ astray'
        PROVE  /\ index'[h] = IF HasRow(h)' THEN row'[h].settings ELSE mirror'[h]
               /\ HasRow(h)' /\ row'[h].placeholder => row'[h].settings = mirror'[h]
    <2>1. HasRow(h)' <=> HasRow(h)
      BY <1>1 DEF HasRow
    <2>2. CASE h = g /\ HasRow(g)
      <3>1. h \notin astray /\ mirror'[h] = s /\ index'[h] = index[h]
        BY <1>1, <1>2, <1>5, <2>2 DEF RowsTyped
      <3>2. row[h].placeholder => row[h].settings = s
        BY <1>2, <1>5, <2>2
      <3>3. index[h] = row[h].settings
        BY <2>2, <3>1 DEF DerivedInv
      <3> QED
        BY <1>1, <2>1, <2>2, <3>1, <3>2, <3>3
    <2>3. CASE h = g /\ ~HasRow(g)
      BY <1>1, <1>2, <2>1, <2>3 DEF RowsTyped
    <2>4. CASE h # g
      <3>1. h \notin astray /\ mirror'[h] = mirror[h] /\ index'[h] = index[h]
        BY <1>1, <1>2, <1>5, <2>4 DEF RowsTyped
      <3> QED
        BY <1>1, <2>1, <3>1 DEF DerivedInv
    <2> QED
      BY <2>2, <2>3, <2>4
  <1>6. DerivedInv'
    BY <1>1, <1>5 DEF DerivedInv, Published, HasRow
  <1> QED
    BY <1>3, <1>4, <1>6 DEF Result

\* A placeholder is seeded from the mirror, so that the index is right before and after it.
LEMMA PlaceholderKeeps ==
    ASSUME RowsTyped, RevisionInv, DerivedInv, NEW g \in Games, ensureCatalogPlaceholder(g)
    PROVE  Result
  <1>1. /\ working' = [working EXCEPT ![g] = TRUE]
        /\ UNCHANGED <<mirror, maps, mapsCache, derived, bucket, pub, astray>>
    BY DEF ensureCatalogPlaceholder
  <1>2. CASE HasRow(g)
    <2>1. UNCHANGED <<row, index>>
      BY <1>2 DEF ensureCatalogPlaceholder
    <2>2. RowsTyped' /\ DerivedInv'
      BY <1>1, <2>1 DEF RowsTyped, DerivedInv, Published, HasRow
    <2> QED
      BY <1>1, <2>1, <2>2, RowsAlike DEF Result
  <1>3. CASE ~HasRow(g)
    <2> DEFINE R == [placeholder |-> TRUE, rid |-> None, uploads |-> {},
                     view |-> None, ally |-> None, settings |-> mirror[g],
                     map |-> IF mirror[g] = None THEN None ELSE MapOf[g]]
    <2>1. /\ row' = [row EXCEPT ![g] = R]
          /\ IF mirror[g] = None THEN UNCHANGED index ELSE index' = [index EXCEPT ![g] = mirror[g]]
      BY <1>3 DEF ensureCatalogPlaceholder, indexSettings
    <2>2. R \in Row
      <3> DEFINE m == IF mirror[g] = None THEN None ELSE MapOf[g]
      <3>1. m \in KnownMaps /\ mirror[g] \in KnownSettings
        BY DEF KnownMaps, RowsTyped
      <3> HIDE DEF m
      <3>2. [placeholder |-> TRUE, rid |-> None, uploads |-> {}, view |-> None, ally |-> None,
             settings |-> mirror[g], map |-> m] \in Row
        BY <3>1 DEF Row, Allies
      <3> QED
        BY <3>2 DEF m
    <2>3. R.uploads = {} /\ R.rid = None /\ R.settings = mirror[g] /\ R.placeholder = TRUE
      OBVIOUS
    <2> HIDE DEF R
    <2>4. row'[g] = R /\ HasRow(g)' /\ \A h \in Games \ {g} : row'[h] = row[h] /\ (HasRow(h)' <=> HasRow(h))
      BY <2>1, <2>2, RowIsNotAbsent DEF RowsTyped, HasRow
    <2>5. RowsTyped'
      BY <1>1, <2>1, <2>2 DEF RowsTyped
    <2>6. \A h \in Games : HasRow(h)' =>
               /\ \A u \in row'[h].uploads : Named(u, h)
               /\ row'[h].rid # None => \E u \in row'[h].uploads : u.rid = row'[h].rid
      BY <2>3, <2>4 DEF RevisionInv
    <2>7. RevisionInv' /\ Grows
      BY <1>1, <2>6, RowsOnly
    <2>8. ASSUME NEW h \in Games \ astray'
          PROVE  /\ index'[h] = IF HasRow(h)' THEN row'[h].settings ELSE mirror'[h]
                 /\ HasRow(h)' /\ row'[h].placeholder => row'[h].settings = mirror'[h]
      <3>1. CASE h = g
        <4>1. index[g] = mirror[g]
          BY <1>1, <1>3, <2>8, <3>1 DEF DerivedInv
        <4>2. index'[g] = mirror[g]
          BY <2>1, <4>1 DEF RowsTyped
        <4> QED
          BY <1>1, <2>3, <2>4, <3>1, <4>2
      <3>2. CASE h # g
        <4>1. index'[h] = index[h]
          BY <2>1, <3>2 DEF RowsTyped
        <4> QED
          BY <1>1, <2>4, <2>8, <3>2, <4>1 DEF DerivedInv
      <3> QED
        BY <3>1, <3>2
    <2>9. \A h \in Games : Published(h)' => Published(h) /\ row'[h] = row[h]
      <3>1. ~Published(g)'
        BY <2>3, <2>4 DEF Published
      <3> QED
        BY <2>4, <3>1 DEF Published
    <2>10. DerivedInv'
      <3>1. derived' => \A h \in Games : Published(h)' => row'[h].map = None \/ row'[h].map \in maps'
        BY <1>1, <2>9 DEF DerivedInv
      <3>2. mapsCache' # NoCopy => mapsCache' = maps'
        BY <1>1 DEF DerivedInv
      <3> QED
        BY <2>8, <3>1, <3>2 DEF DerivedInv
    <2>11. \A h \in Games : Kept(h)
      BY <1>3, <2>4 DEF Kept, Published
    <2> QED
      BY <2>5, <2>7, <2>10, <2>11 DEF Result
  <1> QED
    BY <1>2, <1>3

\* A placeholder that goes leaves the index on what the mirror says.
LEMMA DropKeeps ==
    ASSUME RowsTyped, RevisionInv, DerivedInv, NEW g \in Games, dropCatalogPlaceholder(g)
    PROVE  Result
  <1>1. /\ working' = [working EXCEPT ![g] = FALSE]
        /\ row' = IF Published(g) THEN row ELSE [row EXCEPT ![g] = NoRow]
        /\ UNCHANGED <<mirror, index, maps, mapsCache, derived, bucket, pub, astray>>
    BY DEF dropCatalogPlaceholder, derivedVars
  <1>2. CASE Published(g)
    <2>1. UNCHANGED row
      BY <1>1, <1>2
    <2>2. RowsTyped' /\ DerivedInv'
      BY <1>1, <2>1 DEF RowsTyped, DerivedInv, Published, HasRow
    <2> QED
      BY <1>1, <2>1, <2>2, RowsAlike DEF Result
  <1>3. CASE ~Published(g)
    <2>1. row' = [row EXCEPT ![g] = NoRow]
      BY <1>1, <1>3
    <2>2. ~HasRow(g)' /\ \A h \in Games \ {g} : row'[h] = row[h] /\ (HasRow(h)' <=> HasRow(h))
      BY <2>1 DEF RowsTyped, HasRow
    <2>3. RowsTyped'
      BY <1>1, <2>1 DEF RowsTyped
    <2>4. \A h \in Games : HasRow(h)' =>
               /\ \A u \in row'[h].uploads : Named(u, h)
               /\ row'[h].rid # None => \E u \in row'[h].uploads : u.rid = row'[h].rid
      BY <2>2 DEF RevisionInv
    <2>5. RevisionInv' /\ Grows
      BY <1>1, <2>4, RowsOnly
    <2>6. ASSUME NEW h \in Games \ astray'
          PROVE  /\ index'[h] = IF HasRow(h)' THEN row'[h].settings ELSE mirror'[h]
                 /\ HasRow(h)' /\ row'[h].placeholder => row'[h].settings = mirror'[h]
      <3>1. CASE h = g
        <4>1. index[g] = mirror[g]
          BY <1>1, <1>3, <2>6, <3>1 DEF DerivedInv, Published
        <4> QED
          BY <1>1, <2>2, <3>1, <4>1
      <3>2. CASE h # g
        BY <1>1, <2>2, <2>6, <3>2 DEF DerivedInv
      <3> QED
        BY <3>1, <3>2
    <2>7. \A h \in Games : Published(h)' => Published(h) /\ row'[h] = row[h]
      BY <2>2 DEF Published
    <2>8. DerivedInv'
      <3>1. derived' => \A h \in Games : Published(h)' => row'[h].map = None \/ row'[h].map \in maps'
        BY <1>1, <2>7 DEF DerivedInv
      <3>2. mapsCache' # NoCopy => mapsCache' = maps'
        BY <1>1 DEF DerivedInv
      <3> QED
        BY <2>6, <3>1, <3>2 DEF DerivedInv
    <2>9. \A h \in Games : Kept(h)
      BY <1>3, <2>2 DEF Kept, Published
    <2> QED
      BY <2>3, <2>5, <2>8, <2>9 DEF Result
  <1> QED
    BY <1>2, <1>3

\* The maps list: read into its copy, the copy dropped, the table rebuilt.
LEMMA MapsKeep ==
    ASSUME RowsTyped, RevisionInv, DerivedInv, mapNames \/ CacheExpires \/ Instantiated
    PROVE  Result
  <1>1. UNCHANGED <<row, mirror, index, working, bucket, pub, astray>>
    BY DEF mapNames, CacheExpires, Instantiated
  <1>2. /\ derived' \in BOOLEAN
        /\ mapsCache' # NoCopy => mapsCache' = maps'
        /\ derived' => \A g \in Games : Published(g) => row[g].map = None \/ row[g].map \in maps'
    <2>1. CASE mapNames
      BY <2>1 DEF mapNames, DerivedInv, RowsTyped
    <2>2. CASE CacheExpires
      BY <2>2 DEF CacheExpires, DerivedInv, RowsTyped
    <2>3. CASE Instantiated
      <3>1. CASE derived' = TRUE /\ maps' = rebuilt /\ mapsCache' = rebuilt
        BY <3>1 DEF rebuilt, Published
      <3>2. CASE mapsCache' = NoCopy /\ UNCHANGED <<maps, derived>>
        BY <3>2 DEF DerivedInv, RowsTyped
      <3> QED
        BY <2>3, <3>1, <3>2 DEF Instantiated
    <2> QED
      BY <2>1, <2>2, <2>3
  <1>3. RowsTyped'
    BY <1>1, <1>2 DEF RowsTyped
  <1>4. DerivedInv'
    BY <1>1, <1>2 DEF DerivedInv, Published, HasRow
  <1> QED
    BY <1>1, <1>3, <1>4, RowsAlike DEF Result
-----------------------------------------------------------------------------
CatalogInv == RowsTyped /\ RevisionInv /\ DerivedInv

LEMMA CatalogInit == Init => CatalogInv
  <1> SUFFICES ASSUME Init PROVE CatalogInv
    OBVIOUS
  <1>1. PICK old \in SUBSET Games :
           row = [g \in Games |-> IF g \in old
                        THEN [placeholder |-> FALSE, rid |-> None, uploads |-> {}, view |-> None,
                              ally |-> None, map |-> MapOf[g], settings |-> None]
                        ELSE NoRow]
    BY DEF Init
  <1>2. ASSUME NEW g \in Games
        PROVE  \/ row[g] = NoRow
               \/ row[g] \in Row /\ row[g].uploads = {} /\ row[g].rid = None /\ row[g].settings = None
                  /\ row[g].placeholder = FALSE
    <2> DEFINE R == [placeholder |-> FALSE, rid |-> None, uploads |-> {}, view |-> None,
                     ally |-> None, map |-> MapOf[g], settings |-> None]
    <2>1. MapOf[g] \in KnownMaps
      BY DEF KnownMaps
    <2>2. R \in Row
      BY <2>1 DEF Row, Allies, KnownSettings
    <2>3. R.uploads = {} /\ R.rid = None /\ R.settings = None /\ R.placeholder = FALSE
      OBVIOUS
    <2>4. row[g] = R \/ row[g] = NoRow
      BY <1>1
    <2> HIDE DEF R
    <2> QED
      BY <2>2, <2>3, <2>4
  <1>3. /\ mirror = [g \in Games |-> None] /\ index = [g \in Games |-> None]
        /\ maps = {} /\ mapsCache = NoCopy /\ derived = FALSE
        /\ working = [g \in Games |-> FALSE] /\ bucket = [g \in Games |-> <<>>]
        /\ pub = [c \in Captures |-> Idle] /\ astray = {}
    BY DEF Init
  <1>4. RowsTyped
    <2>1. row \in [Games -> Row \cup {NoRow}]
      BY <1>1, <1>2
    <2>2. Idle \in Publisher
      BY DEF Idle, Publisher
    <2> QED
      BY <1>3, <2>1, <2>2 DEF RowsTyped, KnownSettings
  <1>5. RevisionInv
    <2>1. \A g \in Games : DOMAIN bucket[g] = {}
      BY <1>3
    <2>2. \A c \in Captures : pub[c].pc = "idle"
      BY <1>3 DEF Idle
    <2> QED
      BY <1>2, <2>1, <2>2 DEF RevisionInv, HasRow
  <1>6. DerivedInv
    BY <1>2, <1>3 DEF DerivedInv, HasRow
  <1> QED
    BY <1>4, <1>5, <1>6 DEF CatalogInv

LEMMA CatalogStep == CatalogInv /\ Next => Result
  <1> SUFFICES ASSUME CatalogInv, Next PROVE Result
    OBVIOUS
  <1> USE DEF CatalogInv
  <1>1. ASSUME NEW c \in Captures, Publishing(c) PROVE Result
    <2>1. ASSUME NEW v \in Views(c), Registers(c, v) PROVE Result
      BY <2>1, RegistersKeeps DEF Result
    <2> QED
      BY <1>1, <2>1, AsksKeeps, UploadsKeeps, PublishAgainKeeps DEF Publishing
  <1>2. ASSUME NEW g \in Games, Admin(g) PROVE Result
    BY <1>2, SetViewKeeps, RefreshKeeps, MirrorKeeps DEF Admin
  <1>3. ASSUME NEW g \in Games, ensureCatalogPlaceholder(g) \/ dropCatalogPlaceholder(g) PROVE Result
    BY <1>3, PlaceholderKeeps, DropKeeps
  <1>4. CASE mapNames \/ CacheExpires \/ Instantiated
    BY <1>4, MapsKeep
  <1> QED
    BY <1>1, <1>2, <1>3, <1>4 DEF Next

THEOREM CatalogAlways == Spec => []CatalogInv
  <1>1. CatalogInv /\ [Next]_vars => CatalogInv'
    <2>1. CASE UNCHANGED vars
      <3>1. UNCHANGED <<row, mirror, index, maps, mapsCache, derived, working, bucket, pub, astray>>
        BY <2>1 DEF vars, derivedVars
      <3>2. CatalogInv => RowsTyped' /\ DerivedInv'
        BY <3>1 DEF CatalogInv, RowsTyped, DerivedInv, Published, HasRow
      <3>3. CatalogInv => RevisionInv'
        BY <3>1, RowsAlike DEF CatalogInv
      <3> QED
        BY <3>2, <3>3 DEF CatalogInv
    <2> QED
      BY <2>1, CatalogStep DEF CatalogInv, Result
  <1> QED
    BY <1>1, CatalogInit, PTL DEF Spec

\* For any games and any number of racing, dying and repeated publishers: every revision the
\* catalog lists is in the bucket under that name with those bytes (UploadStatic of
\* internal/packer, upsert and mergeUploads of replayindex.ts).
THEOREM RevsAreOfBytes == Spec => []RevIsOfBytes
  <1>1. CatalogInv => RevIsOfBytes
    BY DEF CatalogInv, RevisionInv, RevIsOfBytes, Named
  <1> QED
    BY <1>1, CatalogAlways, PTL

\* The settings index and the list of maps follow the rows, whatever order the mirror, the
\* placeholders, the refreshes and the publishers come in (indexSettings, noteMap).
THEOREM DerivedAlwaysFollows == Spec => []DerivedFollows
  <1>1. CatalogInv => DerivedFollows
    BY DEF CatalogInv, DerivedInv, DerivedFollows
  <1> QED
    BY <1>1, CatalogAlways, PTL

\* No step forgets a revision, takes the main replay's place or writes over published bytes.
THEOREM NothingIsEverLost == Spec => NothingIsLost
  <1> DEFINE Lossless == \A g \in Games :
         /\ Published(g) => HasRow(g)' /\ {u.rid : u \in row[g].uploads}
                                             \subseteq {u.rid : u \in row'[g].uploads}
         /\ Published(g) /\ isMainRid(row[g].rid) => isMainRid(row'[g].rid)
         /\ \A r \in DOMAIN bucket[g] : r \in DOMAIN bucket'[g] /\ bucket'[g][r] = bucket[g][r]
  <1>1. CatalogInv /\ [Next]_vars => [Lossless]_vars
    <2>1. ASSUME CatalogInv, Next PROVE Lossless
      <3>1. Result
        BY <2>1, CatalogStep
      <3> QED
        BY <3>1 DEF Result, Kept, Grows
    <2> QED
      BY <2>1
  <1> QED
    BY <1>1, CatalogAlways, PTL DEF Spec, NothingIsLost

-----------------------------------------------------------------------------
(* PART TWO: THE ENGINE'S DATA DIRECTORY.                                  *)

Files == UNION {FilesOf[b] : b \in Builds}
Copies == {"user", "seed", Cut, Absent}
Stream == [pid : Nat, span : {"none", "stub", "most", "whole"}]
Folder == [lock : [pid : Nat, stamped : BOOLEAN], cfg : Copies, bak : Copies, stream : [Builds -> Stream],
           packages : Seq(Builds), half : SUBSET Builds, pool : SUBSET Files]
Steps == {"idle", "create", "look", "clear", "stamp", "provision", "package", "leftovers", "over", "heal",
          "backup", "seed", "launch", "engine", "judge", "restore", "unlock", "abandon"}
Engines == {"off", "loading", "up", "quit", "killed"}
Sayings == {"nothing", "error", "oom", "truncated", "published"}
Task == [pid : Nat \ {0}, pc : Steps, kind : {"run", "prune"}, build : Builds \cup {"unset"}, tries : Nat,
         existed : BOOLEAN, engine : Engines, tripped : BOOLEAN, stopped : BOOLEAN, wrote : BOOLEAN,
         capture : Stream, said : Sayings]
Tasks == [Workers -> Task]
Past == [cfg : {"user", Absent}, pids : Nat, tasks : Nat, upsets : Nat,
         raced : BOOLEAN, cut : BOOLEAN, bare : BOOLEAN]

TypeOK ==
    /\ folder \in Folder
    /\ task \in Tasks
    /\ strays \subseteq [engine : BOOLEAN, build : Builds, pid : Nat \ {0}]
    /\ past \in Past

\* While the lock kept processes apart, one is in the folder at most, and none beside a child a
\* killed one left behind.
AloneInv == ~past.raced =>
    /\ \A p, q \in Workers : Holds(p) /\ Holds(q) => p = q
    /\ strays # {} => \A p \in Workers : ~Holds(p)

\* No two processes have a pid in common, and no file has one that was not given out yet.
PidInv ==
    /\ \A p \in Workers : task[p].pid <= past.pids
    /\ \A p, q \in Workers : task[p].pid = task[q].pid => p = q
    /\ folder.lock.pid <= past.pids /\ \A b \in Builds : folder.stream[b].pid <= past.pids

\* A lock that names a live process is that process's own, which is in the folder.
LockInv == \A p \in Workers : folder.lock.pid = task[p].pid => Holds(p)

\* How far a task has come tells what it can be about, and what it has said.
Deciding == {"restore", "unlock", "abandon", "idle"}
TaskInv == \A p \in Workers :
    /\ At(p, {"provision", "package", "heal", "backup", "seed", "restore", "abandon"} \cup Running) => task[p].kind = "run"
    /\ task[p].kind = "run" /\ ~At(p, {"idle"}) => task[p].build \in Builds
    /\ task[p].build \in Builds => task[p].kind = "run"
    /\ ~At(p, Deciding) => task[p].said = "nothing"
    /\ ~At(p, Deciding \cup {"engine", "judge"}) => ~task[p].tripped /\ ~task[p].wrote

\* A stream carries the pid of a process only while that process has a run of the stream's build
\* which wrote it and was not published.
StreamInv == \A b \in Builds :
    /\ folder.stream[b].pid = 0 => folder.stream[b] = NoStream
    /\ \A p \in Workers : folder.stream[b].pid = task[p].pid =>
         /\ task[p].build = b /\ At(p, Running \cup {"restore", "unlock", "abandon"})
         /\ task[p].said # "published"

\* What a run reads back, once its widget has written, is its own stream or none.
OwnInv == \A p \in Workers : task[p].wrote /\ ~past.raced =>
    /\ At(p, {"engine"}) => LET s == folder.stream[task[p].build] IN s = NoStream \/ s.pid = task[p].pid
    /\ At(p, {"judge"}) => task[p].capture = NoStream \/ task[p].capture.pid = task[p].pid

VerdictInv ==
    /\ \A p \in Workers : At(p, {"judge"}) => task[p].engine \in {"quit", "killed"}
    /\ PublishedIsEarned

\* The pool has the files of what is installed, and of what is about to be.
ContentInv == ~past.raced =>
    /\ Listed(folder.packages) \subseteq folder.pool
    /\ \A p \in Workers : At(p, {"package"}) => FilesOf[task[p].build] \subseteq folder.pool
    /\ \A s \in strays : ~s.engine => FilesOf[s.build] \subseteq folder.pool

\* From the copy of the config to its way back the backup is what it was; without a config
\* nothing is ever backed up.
Seeded == {"seed", "restore"} \cup Running
ConfigInv == ~past.raced =>
    /\ ConfigKept
    /\ past.cfg = "user" /\ ~past.cut => \A p \in Workers :
         /\ At(p, {"backup"}) => folder.bak = Absent
         /\ At(p, Seeded) => task[p].existed /\ folder.bak = "user"
    /\ past.cfg = Absent /\ ~past.bare =>
         folder.bak = Absent /\ \A p \in Workers : At(p, Seeded) => ~task[p].existed

IInv ==
    /\ TypeOK /\ AloneInv /\ PidInv /\ LockInv /\ TaskInv /\ StreamInv /\ OwnInv /\ VerdictInv
    /\ ContentInv /\ ConfigInv

\* The parts of the folder and of a task, which every step leaves in place.
FolderParts == {"lock", "cfg", "bak", "stream", "packages", "half", "pool"}
TaskParts == {"pid", "pc", "kind", "build", "tries", "existed", "engine", "tripped", "stopped", "wrote", "capture", "said"}

\* The records have the fields they are declared with.
LEMMA Shape ==
    ASSUME TypeOK
    PROVE  /\ DOMAIN folder = FolderParts /\ DOMAIN folder.lock = {"pid", "stamped"}
           /\ DOMAIN folder.stream = Builds
           /\ \A b \in Builds : DOMAIN folder.stream[b] = {"pid", "span"}
           /\ DOMAIN task = Workers /\ \A p \in Workers : DOMAIN task[p] = TaskParts
           /\ \A p \in Workers : task[p].pid \in Nat \ {0}
           /\ DOMAIN past = {"cfg", "pids", "tasks", "upsets", "raced", "cut", "bare"} /\ past.pids \in Nat
  BY DEF TypeOK, Folder, Tasks, Task, Stream, Past, FolderParts, TaskParts

\* What the steps with several outcomes have in common.
Keeps(parts) == \A f \in parts : folder'[f] = folder[f]
ToPc(p, pcs) == \E pc \in pcs : task' = [task EXCEPT ![p].pc = pc]

\* What a step with several outcomes leaves alone in all of them, and where its process goes.
LEMMA ProvisionDoes ==
    ASSUME TypeOK, NEW p \in Workers, Provision(p)
    PROVE  /\ At(p, {"provision"}) /\ strays' = strays /\ Keeps({"lock", "cfg", "bak", "stream"})
           /\ ToPc(p, {"heal", "package"}) \/ task' = [task EXCEPT ![p].said = "error", ![p].pc = "unlock"]
           /\ \A f \in {"raced", "pids", "cfg", "cut", "bare"} : past'[f] = past[f]
  <1>0. /\ At(p, {"provision"}) /\ strays' = strays
        /\ ToPc(p, {"heal", "package"}) \/ task' = [task EXCEPT ![p].said = "error", ![p].pc = "unlock"]
        /\ \A f \in {"raced", "pids", "cfg", "cut", "bare"} : past'[f] = past[f]
    BY Shape DEF Provision, Upset, Fails, At, Goes, ToPc
  <1>1. CASE folder' = folder
    BY <1>1, <1>0 DEF Keeps
  <1>2. CASE folder' = [folder EXCEPT !.packages = Touched(task[p].build)]
    BY <1>2, <1>0 DEF Keeps
  <1>3. CASE folder' = [folder EXCEPT !.pool = @ \cup FilesOf[task[p].build], !.half = @ \cup {task[p].build}]
    BY <1>3, <1>0 DEF Keeps
  <1> QED
    BY <1>1, <1>2, <1>3 DEF Provision

\* What a worker that is through does: it prunes the pool on, or unlocks.
LEMMA OverDoes ==
    ASSUME TypeOK, NEW p \in Workers, Over(p)
    PROVE  /\ At(p, {"over"}) /\ strays' = strays /\ past' = past /\ Keeps({"lock", "cfg", "bak", "stream", "half"})
           /\ task' = task \/ ToPc(p, {"unlock"})
  <1>1. CASE folder' = folder
    BY <1>1 DEF Over, Keeps, ToPc, Goes
  <1>2. CASE folder' = gcPool([folder EXCEPT !.packages = Tail(@)]) /\ task' = task
    BY <1>2 DEF Over, gcPool, Keeps
  <1> QED
    BY <1>1, <1>2 DEF Over

\* What healing writes.
LEMMA HealDoes ==
    ASSUME TypeOK, NEW p \in Workers, Heal(p)
    PROVE  /\ At(p, {"heal"}) /\ strays' = strays /\ Keeps({"lock", "stream", "packages", "pool", "half"})
           /\ task' = task \/ ToPc(p, {"backup"})
           /\ past'.raced = past.raced /\ past'.pids = past.pids
  <1>1. /\ At(p, {"heal"}) /\ strays' = strays
        /\ \/ folder' = folder
           \/ folder' = [folder EXCEPT !.cfg = folder.bak]
           \/ folder' = [folder EXCEPT !.cfg = Cut, !.bak = Absent]
           \/ folder' = [folder EXCEPT !.bak = Absent]
    BY DEF Heal
  <1>2. task' = task \/ ToPc(p, {"backup"})
    BY DEF Heal, Goes, ToPc
  <1>3. past'.raced = past.raced /\ past'.pids = past.pids
    BY Shape DEF Heal, WriteFails
  <1> QED
    BY <1>1, <1>2, <1>3, Shape DEF FolderParts, Keeps

\* What putting the configuration back does, to what.
LEMMA RestoreDoes ==
    ASSUME TypeOK, NEW p \in Workers, Restore(p)
    PROVE  /\ At(p, {"restore"}) /\ strays' = strays /\ Keeps({"lock", "stream", "packages", "pool", "half"})
           /\ task' = task \/ ToPc(p, {"unlock"})
           /\ past'.raced = past.raced /\ past'.pids = past.pids
  <1>1. /\ At(p, {"restore"}) /\ strays' = strays
        /\ \/ folder' = [folder EXCEPT !.cfg = folder.bak]
           \/ folder' = [folder EXCEPT !.cfg = Absent, !.bak = Absent]
           \/ folder' = [folder EXCEPT !.cfg = Cut, !.bak = Absent]
           \/ folder' = [folder EXCEPT !.bak = Absent]
    BY DEF Restore
  <1>2. task' = task \/ ToPc(p, {"unlock"})
    BY DEF Restore, Goes, ToPc
  <1>3. past'.raced = past.raced /\ past'.pids = past.pids
    BY Shape DEF Restore, WriteFails
  <1> QED
    BY <1>1, <1>2, <1>3, Shape DEF FolderParts, Keeps

\* A kill takes the task away, and may break off a write and leave a child.
LEMMA DiesDoes ==
    ASSUME TypeOK, NEW p \in Workers, Dies(p)
    PROVE  /\ ~At(p, {"idle"}) /\ Keeps({"lock", "stream", "packages", "pool", "half"})
           /\ task' = [task EXCEPT ![p] = AtRest(past.pids + 1)]
           /\ \E left \in SUBSET Children(p) : strays' = strays \cup left
           /\ past'.raced = past.raced /\ past'.pids = past.pids + 1 /\ past'.cfg = past.cfg
  <1>1. PICK broken \in SUBSET Writing(p) :
          /\ folder' = [f \in DOMAIN folder |-> IF f \in broken THEN Cut ELSE folder[f]]
          /\ past' = [past EXCEPT !.upsets = @ + 1, !.pids = @ + 1, !.cut = @ \/ "bak" \in broken,
                !.bare = @ \/ (~task[p].existed /\ (At(p, Running \cup {"restore"}) \/ (At(p, {"seed"}) /\ "cfg" \in broken)))]
    BY DEF Dies
  <1>2. broken \subseteq {"cfg", "bak"}
    BY DEF Writing
  <1>3. Keeps({"lock", "stream", "packages", "pool", "half"})
    BY <1>1, <1>2, Shape DEF FolderParts, Keeps
  <1>4. past'.raced = past.raced /\ past'.pids = past.pids + 1 /\ past'.cfg = past.cfg
    BY <1>1, Shape
  <1> QED
    BY <1>3 DEF Dies

\* A lock file is created or found.
LEMMA CreateDoes ==
    ASSUME TypeOK, NEW p \in Workers, Create(p)
    PROVE  /\ At(p, {"create"}) /\ strays' = strays /\ Keeps({"cfg", "bak", "stream", "packages", "half", "pool"})
           /\ ToPc(p, {"stamp", "look"})
           /\ (past.raced => past'.raced) /\ past'.pids = past.pids
           /\ past'.cfg = past.cfg /\ past'.cut = past.cut /\ past'.bare = past.bare
  <1>1. CASE folder.lock = Unlocked
    <2>1. /\ (past.raced => past'.raced) /\ past'.pids = past.pids
          /\ past'.cfg = past.cfg /\ past'.cut = past.cut /\ past'.bare = past.bare
      BY Shape DEF Create
    <2>2. Keeps({"cfg", "bak", "stream", "packages", "half", "pool"})
      BY Shape DEF Create, FolderParts, Keeps
    <2> QED
      BY <2>1, <2>2 DEF Create, Goes, ToPc
  <1>2. CASE folder.lock # Unlocked
    BY <1>2 DEF Create, Keeps, Goes, ToPc
  <1> QED
    BY <1>1, <1>2

\* A prune first drops what no run is about to need.
LEMMA LeftoversDoes ==
    ASSUME TypeOK, NEW p \in Workers, Leftovers(p)
    PROVE  /\ At(p, {"leftovers"}) /\ strays' = strays /\ past' = past /\ Keeps({"lock", "cfg", "bak", "packages"})
           /\ folder'.stream = [b \in Builds |-> NoStream]
           /\ folder'.pool = folder.pool \cap Listed(folder.packages)
           /\ ToPc(p, {"over"})
  <1> DEFINE d == [folder EXCEPT !.half = {}, !.stream = [b \in Builds |-> NoStream]]
  <1>1. /\ DOMAIN d = FolderParts /\ d.stream = [b \in Builds |-> NoStream] /\ d.pool = folder.pool
        /\ d.packages = folder.packages /\ d.lock = folder.lock /\ d.cfg = folder.cfg /\ d.bak = folder.bak
    BY Shape DEF FolderParts
  <1>2. folder' = [d EXCEPT !.pool = d.pool \cap Listed(d.packages)]
    BY DEF Leftovers, gcPool
  <1> HIDE DEF d
  <1>3. At(p, {"leftovers"}) /\ strays' = strays /\ past' = past /\ ToPc(p, {"over"})
    BY DEF Leftovers, Goes, ToPc
  <1>4. /\ Keeps({"lock", "cfg", "bak", "packages"}) /\ folder'.stream = d.stream
        /\ folder'.pool = d.pool \cap Listed(d.packages)
    BY <1>1, <1>2 DEF Keeps
  <1> QED
    BY <1>1, <1>3, <1>4

\* A stray writes on in a file of its own only, or completes its package.
LEMMA StrayDoes ==
    ASSUME TypeOK, NEW s \in strays, Stray(s)
    PROVE  /\ strays' = strays \ {s} /\ task' = task /\ past' = past /\ Keeps({"lock", "cfg", "bak", "pool"})
           /\ \A b \in Builds : folder'.stream[b].pid = folder.stream[b].pid
           /\ \A b \in Builds : folder.stream[b].pid = 0 => folder'.stream[b] = folder.stream[b]
           /\ IF s.engine THEN folder'.packages = folder.packages ELSE folder'.packages = Touched(s.build)
  <1>1. strays' = strays \ {s} /\ task' = task /\ past' = past
    BY DEF Stray
  <1>2. s.pid # 0 /\ s.build \in Builds
    BY DEF TypeOK
  <1>3. CASE s.engine
    <2> PICK span \in {folder.stream[s.build].span, "whole"} :
          folder' = [folder EXCEPT !.stream[s.build].span = IF folder.stream[s.build].pid = s.pid THEN span ELSE @]
      BY <1>3 DEF Stray
    <2> DEFINE x == [folder.stream[s.build] EXCEPT !.span = IF folder.stream[s.build].pid = s.pid THEN span ELSE @]
    <2>1. folder' = [folder EXCEPT !.stream = [folder.stream EXCEPT ![s.build] = x]]
      OBVIOUS
    <2>2. folder.stream[s.build] \in Stream
      BY DEF TypeOK, Folder
    <2>3. x.pid = folder.stream[s.build].pid /\ (folder.stream[s.build].pid = 0 => x = folder.stream[s.build])
      BY <1>2, <2>2 DEF Stream
    <2> HIDE DEF x
    <2> QED
      BY <1>1, <1>3, <2>1, <2>3, Shape DEF FolderParts, Keeps
  <1>4. CASE ~s.engine
    BY <1>4, Shape DEF Stray, FolderParts, Keeps
  <1> QED
    BY <1>3, <1>4

\* A task that goes on, unwinds, begins or ends is a task again.
LEMMA GoesTyped ==
    ASSUME task \in Tasks, NEW p \in Workers, NEW pc \in Steps, Goes(p, pc)
    PROVE  task' \in Tasks
  BY DEF Tasks, Task, Goes

\* A task that fails is still a task.
LEMMA FailsTyped ==
    ASSUME task \in Tasks, NEW p \in Workers, Fails(p)
    PROVE  task' \in Tasks
  <1> DEFINE pc == IF At(p, Running) THEN "restore" ELSE "unlock"
             t == [task[p] EXCEPT !.said = "error", !.pc = pc]
  <1>1. task[p] \in Task /\ pc \in Steps /\ "error" \in Sayings
    BY DEF Tasks, Steps, Sayings
  <1>2. task' = [task EXCEPT ![p] = t]
    BY DEF Fails
  <1> HIDE DEF pc
  <1>3. t \in Task
    BY <1>1 DEF Task
  <1> HIDE DEF t
  <1> QED
    BY <1>2, <1>3 DEF Tasks

\* So is one at rest, and one that begins.
LEMMA TaskBegun ==
    ASSUME NEW pid \in Nat \ {0}
    PROVE  /\ AtRest(pid) \in Task
           /\ \A kind \in {"run", "prune"}, b \in Builds \cup {"unset"} :
                [AtRest(pid) EXCEPT !.pc = "create", !.kind = kind, !.build = b] \in Task
  BY DEF AtRest, Task, Steps, Sayings, Engines, Stream, NoStream

\* Beginning keeps the tasks' types.
LEMMA BeginTyped ==
    ASSUME task \in Tasks, NEW p \in Workers, NEW kind \in {"run", "prune"}, NEW b \in Builds \cup {"unset"}, Begin(p, kind, b)
    PROVE  task' \in Tasks
  <1>1. task[p].pid \in Nat \ {0}
    BY DEF Tasks, Task
  <1>2. [AtRest(task[p].pid) EXCEPT !.pc = "create", !.kind = kind, !.build = b] \in Task
    BY <1>1, TaskBegun
  <1> QED
    BY <1>2 DEF Begin, Tasks

\* Every step keeps the tasks' types: what it writes into one is of the right type.
LEMMA TaskTyped ==
    ASSUME task \in Tasks, past.pids \in Nat, \A b \in Builds : folder.stream[b] \in Stream, TaskInv, DirNext
    PROVE  task' \in Tasks
  <1>0. {"provision", "leftovers", "heal", "package", "over", "unlock", "backup", "restore", "clear", "idle", "abandon", "stamp", "look", "launch"} \subseteq Steps
    BY DEF Steps
  <1>1. CASE \E p \in Workers, b \in Builds : Begin(p, "run", b)
    BY <1>1, BeginTyped
  <1>2. CASE \E p \in Workers : BeginPrune(p)
    BY <1>2, BeginTyped DEF BeginPrune
  <1>3. CASE \E p \in Workers : Create(p)
    BY <1>3, <1>0, GoesTyped DEF Create
  <1>4. CASE \E p \in Workers : Stamp(p)
    BY <1>4, <1>0, GoesTyped DEF Stamp
  <1>5. CASE \E p \in Workers : Look(p)
    BY <1>5, <1>0, GoesTyped DEF Look, Tasks, Task, Sayings
  <1>6. CASE \E p \in Workers : Clear(p)
    <2> PICK p \in Workers : Clear(p)
      BY <1>6
    <2> DEFINE said == IF task[p].tries = 1 THEN "error" ELSE task[p].said
               pc == IF task[p].tries = 0 THEN "create" ELSE IF task[p].kind = "run" THEN "abandon" ELSE "idle"
               t == [task[p] EXCEPT !.tries = @ + 1, !.said = said, !.pc = pc]
    <2>1. task[p] \in Task
      BY DEF Tasks
    <2>2. said \in Sayings /\ pc \in Steps /\ task[p].tries + 1 \in Nat
      BY <2>1 DEF Task, Sayings, Steps
    <2>3. task' = [task EXCEPT ![p] = t]
      BY DEF Clear
    <2> HIDE DEF said, pc
    <2>4. t \in Task
      BY <2>1, <2>2 DEF Task
    <2> HIDE DEF t
    <2> QED
      BY <2>3, <2>4 DEF Tasks
  <1>7. CASE \E p \in Workers : Unlock(p)
    BY <1>7, <1>0, GoesTyped DEF Unlock
  <1>8. CASE \E p \in Workers : removeAbandonedStream(p)
    BY <1>8, <1>0, GoesTyped DEF removeAbandonedStream
  <1>9. CASE \E p \in Workers : Provision(p)
    BY <1>9, <1>0, GoesTyped, FailsTyped DEF Provision
  <1>10. CASE \E p \in Workers : Package(p)
    BY <1>10, <1>0, GoesTyped DEF Package
  <1>11. CASE \E p \in Workers : PackageFails(p)
    BY <1>11, FailsTyped DEF PackageFails
  <1>12. CASE \E p \in Workers : Leftovers(p)
    BY <1>12, <1>0, GoesTyped DEF Leftovers
  <1>13. CASE \E p \in Workers : Over(p)
    BY <1>13, <1>0, GoesTyped DEF Over
  <1>14. CASE \E p \in Workers : Heal(p)
    BY <1>14, <1>0, GoesTyped DEF Heal
  <1>15. CASE \E p \in Workers : Backup(p)
    <2> PICK p \in Workers : Backup(p)
      BY <1>15
    <2>1. CASE Fails(p)
      BY <2>1, FailsTyped
    <2>2. CASE task' = [task EXCEPT ![p].existed = (folder.cfg # Absent), ![p].pc = "seed"]
      <3> DEFINE t == [task[p] EXCEPT !.existed = (folder.cfg # Absent), !.pc = "seed"]
      <3>1. task[p] \in Task
        BY DEF Tasks
      <3>2. t \in Task
        BY <3>1 DEF Task, Steps
      <3>3. task' = [task EXCEPT ![p] = t]
        BY <2>2
      <3> HIDE DEF t
      <3> QED
        BY <3>2, <3>3 DEF Tasks
    <2> QED
      BY <2>1, <2>2 DEF Backup
  <1>16. CASE \E p \in Workers : Seed(p)
    BY <1>16, <1>0, GoesTyped, FailsTyped DEF Seed
  <1>17. CASE \E p \in Workers : Restore(p)
    BY <1>17, <1>0, GoesTyped DEF Restore
  <1>18. CASE \E p \in Workers : Launch(p)
    BY <1>18, FailsTyped DEF Launch, Tasks, Task, Steps
  <1>19. CASE \E p \in Workers : WidgetLoads(p)
    <2> PICK p \in Workers : WidgetLoads(p)
      BY <1>19
    <2> DEFINE t == [task[p] EXCEPT !.engine = "up", !.wrote = TRUE]
    <2>1. task[p] \in Task
      BY DEF Tasks
    <2>2. t \in Task
      BY <2>1 DEF Task, Engines
    <2>3. task' = [task EXCEPT ![p] = t]
      BY DEF WidgetLoads
    <2> HIDE DEF t
    <2> QED
      BY <2>2, <2>3 DEF Tasks
  <1>20. CASE \E p \in Workers : Simulates(p)
    BY <1>20 DEF Simulates
  <1>21. CASE \E p \in Workers : EngineEnds(p)
    BY <1>21 DEF EngineEnds, Tasks, Task, Engines
  <1>22. CASE \E p \in Workers : killEngine(p)
    BY <1>22 DEF killEngine, Tasks, Task, Engines
  <1>23. CASE \E p \in Workers : WatchMemory(p)
    <2> PICK p \in Workers : WatchMemory(p)
      BY <1>23
    <2> DEFINE t == [task[p] EXCEPT !.tripped = TRUE]
    <2>1. task[p] \in Task
      BY DEF Tasks
    <2>2. t \in Task
      BY <2>1 DEF Task
    <2>3. task' = [task EXCEPT ![p] = t]
      BY DEF WatchMemory
    <2> HIDE DEF t
    <2> QED
      BY <2>2, <2>3 DEF Tasks
  <1>24. CASE \E p \in Workers : Cancel(p)
    <2> PICK p \in Workers : Cancel(p)
      BY <1>24
    <2> DEFINE t == [task[p] EXCEPT !.stopped = TRUE]
    <2>1. task[p] \in Task
      BY DEF Tasks
    <2>2. t \in Task
      BY <2>1 DEF Task
    <2>3. task' = [task EXCEPT ![p] = t]
      BY DEF Cancel
    <2> HIDE DEF t
    <2> QED
      BY <2>2, <2>3 DEF Tasks
  <1>25. CASE \E p \in Workers : Consume(p)
    <2> PICK p \in Workers : Consume(p)
      BY <1>25
    <2> DEFINE t == [task[p] EXCEPT !.pc = "judge", !.capture = folder.stream[task[p].build]]
    <2>1. task[p] \in Task
      BY DEF Tasks
    <2>4. task[p].build \in Builds
      BY DEF Consume, TaskInv, At, Running
    <2>2. t \in Task
      BY <2>1, <2>4 DEF Task, Steps
    <2>3. task' = [task EXCEPT ![p] = t]
      BY DEF Consume
    <2> HIDE DEF t
    <2> QED
      BY <2>2, <2>3 DEF Tasks
  <1>26. CASE \E p \in Workers : Judge(p)
    <2> PICK p \in Workers, said \in Sayings : task' = [task EXCEPT ![p].said = said, ![p].pc = "restore"]
      BY <1>26 DEF Judge, Verdict, Sayings
    <2> DEFINE t == [task[p] EXCEPT !.said = said, !.pc = "restore"]
    <2>1. task[p] \in Task
      BY DEF Tasks
    <2>2. t \in Task
      BY <2>1 DEF Task, Steps
    <2>3. task' = [task EXCEPT ![p] = t]
      OBVIOUS
    <2> HIDE DEF t
    <2> QED
      BY <2>2, <2>3 DEF Tasks
  <1>27. CASE \E p \in Workers : Dies(p)
    <2> PICK p \in Workers : task' = [task EXCEPT ![p] = AtRest(past.pids + 1)]
      BY <1>27 DEF Dies
    <2> DEFINE t == AtRest(past.pids + 1)
    <2>1. past.pids + 1 \in Nat \ {0}
      OBVIOUS
    <2>2. t \in Task
      BY <2>1, TaskBegun
    <2>3. task' = [task EXCEPT ![p] = t]
      OBVIOUS
    <2> HIDE DEF t
    <2> QED
      BY <2>2, <2>3 DEF Tasks
  <1>28. CASE \E s \in strays : Stray(s)
    BY <1>28 DEF Stray
  <1> QED
    BY <1>1, <1>2, <1>3, <1>4, <1>5, <1>6, <1>7, <1>8, <1>9, <1>10, <1>11, <1>12, <1>13, <1>14, <1>15,
       <1>16, <1>17, <1>18, <1>19, <1>20, <1>21, <1>22, <1>23, <1>24, <1>25, <1>26, <1>27, <1>28
    DEF DirNext, Step, LockStep, ContentStep, ConfigStep, EngineStep

\* Taking a place out of an order leaves the others there.
LEMMA Removed ==
    ASSUME NEW S, NEW s \in Seq(S), NEW n \in DOMAIN s
    PROVE  /\ RemoveAt(s, n) \in Seq(S)
           /\ \A i \in DOMAIN RemoveAt(s, n) : \E k \in DOMAIN s : RemoveAt(s, n)[i] = s[k]
  <1> DEFINE left == SubSeq(s, 1, n - 1)
             right == SubSeq(s, n + 1, Len(s))
  <1>1. /\ DOMAIN s = 1 .. Len(s) /\ Len(s) \in Nat /\ n \in 1 .. Len(s)
        /\ \A i \in 1 .. Len(s) : s[i] \in S
    BY LenProperties, ElementOfSeq
  <1>2. left \in Seq(S) /\ Len(left) = n - 1 /\ \A i \in 1 .. n - 1 : left[i] = s[i]
    <2>1. /\ 1 \in Int /\ n - 1 \in Int /\ \A i \in 1 .. n - 1 : s[i] \in S
          /\ (n - 1) - 1 + 1 = n - 1 /\ \A i \in 1 .. n - 1 : 1 + i - 1 = i
      BY <1>1
    <2>2. Len(left) = (IF 1 <= n - 1 THEN (n - 1) - 1 + 1 ELSE 0) /\ left \in Seq(S)
          /\ \A i \in 1 .. (n - 1) - 1 + 1 : left[i] = s[1 + i - 1]
      BY <2>1, SubSeqProperties
    <2> HIDE DEF left
    <2> QED
      BY <2>2
  <1>3. right \in Seq(S) /\ Len(right) = Len(s) - n /\ \A i \in 1 .. Len(s) - n : right[i] = s[n + i]
    <2>1. /\ n + 1 \in Int /\ Len(s) \in Int /\ \A i \in n + 1 .. Len(s) : s[i] \in S
          /\ Len(s) - (n + 1) + 1 = Len(s) - n /\ \A i \in 1 .. Len(s) - n : (n + 1) + i - 1 = n + i
      BY <1>1
    <2>2. Len(right) = (IF n + 1 <= Len(s) THEN Len(s) - (n + 1) + 1 ELSE 0) /\ right \in Seq(S)
          /\ \A i \in 1 .. Len(s) - (n + 1) + 1 : right[i] = s[(n + 1) + i - 1]
      BY <2>1, SubSeqProperties
    <2> HIDE DEF right
    <2> QED
      BY <2>1, <2>2
  <1> HIDE DEF left, right
  <1>4. /\ left \o right \in Seq(S) /\ Len(left \o right) = Len(s) - 1
        /\ \A i \in 1 .. Len(s) - 1 : (left \o right)[i] = IF i <= n - 1 THEN left[i] ELSE right[i - (n - 1)]
    <2>1. Len(left) + Len(right) = Len(s) - 1
      BY <1>2, <1>3
    <2>2. /\ left \o right \in Seq(S) /\ Len(left \o right) = Len(left) + Len(right)
          /\ \A i \in 1 .. Len(left) + Len(right) :
               (left \o right)[i] = IF i <= Len(left) THEN left[i] ELSE right[i - Len(left)]
      BY <1>2, <1>3, ConcatProperties
    <2> QED
      BY <1>2, <2>1, <2>2
  <1>5. \A i \in 1 .. Len(s) - 1 : \E k \in 1 .. Len(s) : (left \o right)[i] = s[k]
    <2> TAKE i \in 1 .. Len(s) - 1
    <2>1. CASE i <= n - 1
      BY <1>2, <2>1
    <2>2. CASE ~(i <= n - 1)
      <3>1. i - (n - 1) \in 1 .. Len(s) - n /\ n + (i - (n - 1)) \in 1 .. Len(s)
        BY <1>1, <2>2
      <3> QED
        BY <1>3, <1>4, <2>2, <3>1
    <2> QED
      BY <2>1, <2>2
  <1>6. DOMAIN (left \o right) = 1 .. Len(s) - 1
    BY <1>4, LenProperties
  <1>7. RemoveAt(s, n) = left \o right
    BY DEF RemoveAt, left, right
  <1> QED
    BY <1>1, <1>4, <1>5, <1>6, <1>7

\* A touch adds at most the package touched.
LEMMA TouchedHas ==
    ASSUME folder.packages \in Seq(Builds), NEW b \in Builds
    PROVE  /\ Touched(b) \in Seq(Builds)
           /\ Listed(Touched(b)) \subseteq Listed(folder.packages) \cup FilesOf[b]
  <1> DEFINE order == folder.packages
             at == {i \in DOMAIN order : order[i] = b}
             rest == IF at = {} THEN order ELSE RemoveAt(order, CHOOSE i \in at : TRUE)
  <1>1. rest \in Seq(Builds) /\ \A i \in DOMAIN rest : \E k \in DOMAIN order : rest[i] = order[k]
    <2> DEFINE n == CHOOSE i \in at : TRUE
    <2>1. CASE at = {}
      BY <2>1
    <2>2. CASE at # {}
      <3>1. n \in DOMAIN order
        BY <2>2
      <3> HIDE DEF n
      <3>2. /\ RemoveAt(order, n) \in Seq(Builds)
            /\ \A i \in DOMAIN RemoveAt(order, n) : \E k \in DOMAIN order : RemoveAt(order, n)[i] = order[k]
        BY <3>1, Removed
      <3>3. rest = RemoveAt(order, n)
        BY <2>2 DEF n
      <3> QED
        BY <3>2, <3>3
    <2> QED
      BY <2>1, <2>2
  <1>0. Touched(b) = Append(rest, b)
    BY DEF Touched
  <1> HIDE DEF rest
  <1>2. /\ Append(rest, b) \in Seq(Builds) /\ Len(Append(rest, b)) = Len(rest) + 1
        /\ \A i \in 1 .. Len(rest) : Append(rest, b)[i] = rest[i]
        /\ Append(rest, b)[Len(rest) + 1] = b
    BY <1>1, AppendProperties
  <1>3. DOMAIN Append(rest, b) = 1 .. Len(rest) + 1 /\ DOMAIN rest = 1 .. Len(rest) /\ Len(rest) \in Nat
    BY <1>1
  <1>4. \A i \in DOMAIN Append(rest, b) : FilesOf[Append(rest, b)[i]] \subseteq Listed(order) \cup FilesOf[b]
    BY <1>1 DEF Listed
  <1>5. Listed(Append(rest, b)) \subseteq Listed(order) \cup FilesOf[b]
    BY <1>4 DEF Listed
  <1> QED
    BY <1>0, <1>2, <1>5

\* Dropping the package used longest ago adds none.
LEMMA TailHas ==
    ASSUME NEW s \in Seq(Builds), Len(s) > 1
    PROVE  Tail(s) \in Seq(Builds) /\ Listed(Tail(s)) \subseteq Listed(s)
  <1>1. /\ Tail(s) \in Seq(Builds) /\ Len(Tail(s)) = Len(s) - 1
        /\ \A i \in 1 .. Len(s) - 1 : Tail(s)[i] = s[i + 1]
    BY HeadTailProperties, EmptySeq
  <1>2. DOMAIN Tail(s) = 1 .. Len(s) - 1 /\ DOMAIN s = 1 .. Len(s) /\ Len(s) \in Nat
    BY <1>1, LenProperties
  <1>3. \A i \in DOMAIN Tail(s) : FilesOf[Tail(s)[i]] \subseteq Listed(s)
    BY DEF Listed
  <1> QED
    BY DEF Listed

Locks == [pid : Nat, stamped : BOOLEAN]
Streams == [Builds -> Stream]

\* The folder stays one whatever a step changes of it.
LEMMA FolderWith ==
    ASSUME NEW d \in Folder
    PROVE  /\ \A x \in Locks : [d EXCEPT !.lock = x] \in Folder
           /\ \A x \in Copies : [d EXCEPT !.cfg = x] \in Folder /\ [d EXCEPT !.bak = x] \in Folder
           /\ \A x, y \in Copies : [d EXCEPT !.cfg = x, !.bak = y] \in Folder
           /\ \A x \in Streams : [d EXCEPT !.stream = x] \in Folder
           /\ \A x \in Seq(Builds) : [d EXCEPT !.packages = x] \in Folder
           /\ \A x \in Seq(Builds), y \in SUBSET Builds : [d EXCEPT !.packages = x, !.half = y] \in Folder
           /\ \A x \in SUBSET Files, y \in SUBSET Builds : [d EXCEPT !.pool = x, !.half = y] \in Folder
           /\ \A x \in SUBSET Builds, y \in Streams : [d EXCEPT !.half = x, !.stream = y] \in Folder
  BY DEF Folder, Locks, Streams

\* What the folder's files are.
LEMMA FolderHas ==
    ASSUME NEW d \in Folder
    PROVE  /\ d.lock \in Locks /\ d.cfg \in Copies /\ d.bak \in Copies /\ d.stream \in Streams
           /\ d.packages \in Seq(Builds) /\ d.half \in SUBSET Builds /\ d.pool \in SUBSET Files
           /\ Unlocked \in Locks /\ {Cut, Absent, "seed"} \subseteq Copies /\ NoStream \in Stream
           /\ \A b \in Builds : d.stream[b] \in Stream
  BY DEF Folder, Locks, Streams, Stream, Copies, Unlocked, NoStream

\* Collecting the pool keeps the folder one.
LEMMA Collected ==
    ASSUME NEW d \in Folder
    PROVE  gcPool(d) \in Folder
  <1>1. d.pool \cap Listed(d.packages) \in SUBSET Files
    BY FolderHas
  <1>2. \A x \in SUBSET Files : [d EXCEPT !.pool = x] \in Folder
    BY DEF Folder
  <1> QED
    BY <1>1, <1>2 DEF gcPool

\* Every step keeps the folder's types.
LEMMA FolderTyped ==
    ASSUME TypeOK, TaskInv, DirNext
    PROVE  folder' \in Folder
  <1> DEFINE d == folder
  <1>a. d \in Folder /\ task \in Tasks /\ d = folder
    BY DEF TypeOK
  <1> HIDE DEF d
  <1>b. \A p \in Workers : task[p].pid \in Nat
    BY <1>a DEF Tasks, Task
  <1>c. \A p \in Workers : At(p, {"abandon", "provision", "package", "engine", "judge"}) => task[p].build \in Builds
    BY DEF TaskInv, At, Running
  <1>3. CASE \E p \in Workers : Create(p)
    <2> PICK p \in Workers : Create(p)
      BY <1>3
    <2>1. [pid |-> task[p].pid, stamped |-> FALSE] \in Locks
      BY <1>b DEF Locks
    <2>2. folder' = d \/ folder' = [d EXCEPT !.lock = [pid |-> task[p].pid, stamped |-> FALSE]]
      BY <1>a DEF Create
    <2> QED
      BY <1>a, <2>1, <2>2, FolderWith
  <1>4. CASE \E p \in Workers : Stamp(p)
    <2>1. d.lock \in Locks
      BY <1>a, FolderHas
    <2>2. [d.lock EXCEPT !.stamped = TRUE] \in Locks
      BY <2>1 DEF Locks
    <2>3. folder' = d \/ folder' = [d EXCEPT !.lock = [d.lock EXCEPT !.stamped = TRUE]]
      BY <1>4, <1>a DEF Stamp
    <2>4. [d EXCEPT !.lock = [d.lock EXCEPT !.stamped = TRUE]] \in Folder
      BY <1>a, <2>2, FolderWith
    <2> QED
      BY <1>a, <2>3, <2>4
  <1>6. CASE \E p \in Workers : Clear(p) \/ Unlock(p)
    <2>1. folder' = [d EXCEPT !.lock = Unlocked]
      BY <1>6, <1>a DEF Clear, Unlock
    <2> QED
      BY <1>a, <2>1, FolderWith, FolderHas
  <1>8. CASE \E b \in Builds, x \in Stream : folder' = [folder EXCEPT !.stream[b] = x]
    <2> PICK b \in Builds, x \in Stream : folder' = [folder EXCEPT !.stream[b] = x]
      BY <1>8
    <2>1. d.stream \in Streams
      BY <1>a, FolderHas
    <2>2. [d.stream EXCEPT ![b] = x] \in Streams
      BY <2>1 DEF Streams
    <2>3. folder' = [d EXCEPT !.stream = [d.stream EXCEPT ![b] = x]]
      BY <1>a
    <2>4. [d EXCEPT !.stream = [d.stream EXCEPT ![b] = x]] \in Folder
      BY <1>a, <2>2, FolderWith
    <2> QED
      BY <2>3, <2>4
  <1>9. CASE \E p \in Workers : removeAbandonedStream(p) \/ WidgetLoads(p)
    <2> PICK p \in Workers : removeAbandonedStream(p) \/ WidgetLoads(p)
      BY <1>9
    <2>1. task[p].build \in Builds
      BY <1>c DEF removeAbandonedStream, WidgetLoads, At
    <2>2. [pid |-> task[p].pid, span |-> "stub"] \in Stream /\ NoStream \in Stream
      BY <1>b DEF Stream, NoStream
    <2>3. \E x \in Stream : folder' = [folder EXCEPT !.stream[task[p].build] = x]
      BY <2>2 DEF removeAbandonedStream, WidgetLoads
    <2> QED
      BY <1>8, <2>1, <2>3
  <1>10. CASE \E p \in Workers : Simulates(p)
    <2> PICK p \in Workers : Simulates(p)
      BY <1>10
    <2> DEFINE b == task[p].build
               x == [folder.stream[b] EXCEPT !.span = Longer[folder.stream[b].span]]
    <2>1. b \in Builds
      BY <1>c DEF Simulates, At
    <2>2. folder.stream[b] \in Stream
      BY <1>a, <2>1, FolderHas
    <2>3. x \in Stream
      BY <2>2 DEF Stream, Longer
    <2>4. folder' = [folder EXCEPT !.stream[b] = x]
      BY DEF Simulates
    <2> HIDE DEF b, x
    <2> QED
      BY <1>8, <2>1, <2>3, <2>4
  <1>11. CASE \E p \in Workers : Provision(p)
    <2> PICK p \in Workers : Provision(p)
      BY <1>11
    <2> DEFINE b == task[p].build
    <2>1. b \in Builds
      BY <1>c DEF Provision, At
    <2>2. d.packages \in Seq(Builds) /\ d.pool \in SUBSET Files /\ d.half \in SUBSET Builds
      BY <1>a, FolderHas
    <2>3. Touched(b) \in Seq(Builds) /\ d.pool \cup FilesOf[b] \in SUBSET Files /\ d.half \cup {b} \in SUBSET Builds
      BY <1>a, <2>1, <2>2, TouchedHas DEF Files
    <2>4. \/ folder' = d \/ folder' = [d EXCEPT !.packages = Touched(b)]
          \/ folder' = [d EXCEPT !.pool = d.pool \cup FilesOf[b], !.half = d.half \cup {b}]
      BY <1>a DEF Provision
    <2> HIDE DEF b
    <2>5. /\ [d EXCEPT !.packages = Touched(b)] \in Folder
          /\ [d EXCEPT !.pool = d.pool \cup FilesOf[b], !.half = d.half \cup {b}] \in Folder
      BY <1>a, <2>3, FolderWith
    <2> QED
      BY <1>a, <2>4, <2>5
  <1>12. CASE \E b \in Builds : folder' = [folder EXCEPT !.packages = Touched(b), !.half = @ \ {b}]
    <2> PICK b \in Builds : folder' = [folder EXCEPT !.packages = Touched(b), !.half = @ \ {b}]
      BY <1>12
    <2>1. d.packages \in Seq(Builds) /\ d.half \in SUBSET Builds
      BY <1>a, FolderHas
    <2>2. Touched(b) \in Seq(Builds) /\ d.half \ {b} \in SUBSET Builds
      BY <1>a, <2>1, TouchedHas
    <2>3. folder' = [d EXCEPT !.packages = Touched(b), !.half = d.half \ {b}]
      BY <1>a
    <2>4. [d EXCEPT !.packages = Touched(b), !.half = d.half \ {b}] \in Folder
      BY <1>a, <2>2, FolderWith
    <2> QED
      BY <2>3, <2>4
  <1>13. CASE \E p \in Workers : Package(p)
    BY <1>c, <1>12, <1>13 DEF Package, At
  <1>14. CASE \E p \in Workers : Leftovers(p)
    <2> DEFINE none == [b \in Builds |-> NoStream]
    <2>1. none \in Streams /\ {} \in SUBSET Builds
      BY <1>a, FolderHas DEF Streams
    <2>2. folder' = gcPool([d EXCEPT !.half = {}, !.stream = none])
      BY <1>a, <1>14 DEF Leftovers
    <2> HIDE DEF none
    <2> QED
      BY <1>a, <2>1, <2>2, FolderWith, Collected
  <1>15. CASE \E p \in Workers : Over(p)
    <2>1. folder' = d \/ (Len(d.packages) > 1 /\ folder' = gcPool([d EXCEPT !.packages = Tail(d.packages)]))
      BY <1>a, <1>15 DEF Over
    <2>2. Len(d.packages) > 1 => Tail(d.packages) \in Seq(Builds)
      BY <1>a, FolderHas
    <2> QED
      BY <1>a, <2>1, <2>2, FolderWith, Collected
  <1>16. CASE \E p \in Workers : Heal(p) \/ Restore(p)
    <2>1. \/ folder' = d \/ folder' = [d EXCEPT !.cfg = d.bak] \/ folder' = [d EXCEPT !.cfg = Cut, !.bak = Absent]
          \/ folder' = [d EXCEPT !.cfg = Absent, !.bak = Absent] \/ folder' = [d EXCEPT !.bak = Absent]
      BY <1>a, <1>16 DEF Heal, Restore
    <2>2. d.bak \in Copies /\ Cut \in Copies /\ Absent \in Copies
      BY <1>a, FolderHas
    <2>3. /\ [d EXCEPT !.cfg = d.bak] \in Folder /\ [d EXCEPT !.bak = Absent] \in Folder
          /\ [d EXCEPT !.cfg = Cut, !.bak = Absent] \in Folder /\ [d EXCEPT !.cfg = Absent, !.bak = Absent] \in Folder
      BY <1>a, <2>2, FolderWith
    <2> QED
      BY <1>a, <2>1, <2>3
  <1>17. CASE \E p \in Workers : Backup(p) \/ Seed(p)
    <2>1. \/ folder' = d \/ folder' = [d EXCEPT !.bak = d.cfg] \/ folder' = [d EXCEPT !.bak = Cut]
          \/ folder' = [d EXCEPT !.cfg = "seed"] \/ folder' = [d EXCEPT !.cfg = Cut]
      BY <1>a, <1>17 DEF Backup, Seed
    <2>2. d.cfg \in Copies /\ Cut \in Copies /\ "seed" \in Copies
      BY <1>a, FolderHas
    <2>3. /\ [d EXCEPT !.bak = d.cfg] \in Folder /\ [d EXCEPT !.bak = Cut] \in Folder
          /\ [d EXCEPT !.cfg = "seed"] \in Folder /\ [d EXCEPT !.cfg = Cut] \in Folder
      BY <1>a, <2>2, FolderWith
    <2> QED
      BY <1>a, <2>1, <2>3
  <1>18. CASE \E p \in Workers : Judge(p)
    <2> PICK p \in Workers : Judge(p)
      BY <1>18
    <2>1. task[p].build \in Builds /\ NoStream \in Stream
      BY <1>c DEF Judge, At, Stream, NoStream
    <2>2. folder' = folder \/ folder' = [folder EXCEPT !.stream[task[p].build] = NoStream]
      BY DEF Judge
    <2> QED
      BY <1>a, <1>8, <2>1, <2>2
  <1>19. CASE \E p \in Workers : Dies(p)
    <2> PICK p \in Workers : Dies(p)
      BY <1>19
    <2>1. PICK broken \in SUBSET {"cfg", "bak"} : folder' = [f \in DOMAIN folder |-> IF f \in broken THEN Cut ELSE folder[f]]
      BY DEF Dies, Writing
    <2> QED
      BY <1>a, <2>1 DEF Folder, Copies
  <1>20. CASE \E s \in strays : Stray(s)
    <2> PICK s \in strays : Stray(s)
      BY <1>20
    <2>1. s.build \in Builds
      BY DEF TypeOK
    <2>2. CASE s.engine
      <3> PICK span \in {folder.stream[s.build].span, "whole"} :
            folder' = [folder EXCEPT !.stream[s.build].span = IF folder.stream[s.build].pid = s.pid THEN span ELSE @]
        BY <2>2 DEF Stray
      <3> DEFINE x == [folder.stream[s.build] EXCEPT !.span = IF folder.stream[s.build].pid = s.pid THEN span ELSE @]
      <3>1. folder.stream[s.build] \in Stream
        BY <1>a, <2>1, FolderHas
      <3>2. x \in Stream
        BY <3>1 DEF Stream
      <3>3. folder' = [folder EXCEPT !.stream[s.build] = x]
        OBVIOUS
      <3>4. \E y \in Stream : folder' = [folder EXCEPT !.stream[s.build] = y]
        BY <3>2, <3>3
      <3> QED
        BY <1>8, <2>1, <3>4
    <2>3. CASE ~s.engine
      BY <1>12, <2>1, <2>3 DEF Stray
    <2> QED
      BY <2>2, <2>3
  <1>21. CASE folder' = folder
    BY <1>a, <1>21
  <1>22. CASE \E p \in Workers : \/ \E b \in Builds : Begin(p, "run", b)
                                 \/ BeginPrune(p) \/ Look(p) \/ PackageFails(p) \/ Launch(p) \/ EngineEnds(p)
                                 \/ killEngine(p) \/ WatchMemory(p) \/ Cancel(p) \/ Consume(p)
    BY <1>21, <1>22
    DEF Begin, BeginPrune, Look, PackageFails, Launch, EngineEnds, killEngine, WatchMemory, Cancel,
        Consume
  <1> QED
    BY <1>3, <1>4, <1>6, <1>9, <1>10, <1>11, <1>13, <1>14, <1>15, <1>16, <1>17, <1>18, <1>19, <1>20, <1>22
    DEF DirNext, Step, LockStep, ContentStep, ConfigStep, EngineStep

Strays == [engine : BOOLEAN, build : Builds, pid : Nat \ {0}]

\* A child that is left behind carries its parent's pid and build.
LEMMA StraysTyped ==
    ASSUME TypeOK, TaskInv, DirNext
    PROVE  strays' \subseteq Strays
  <1>a. strays \subseteq Strays
    BY DEF TypeOK, Strays
  <1>1. CASE \E p \in Workers : Dies(p)
    <2> PICK p \in Workers : Dies(p)
      BY <1>1
    <2> PICK left \in SUBSET Children(p) : strays' = strays \cup left
      BY DEF Dies
    <2>1. task[p].pid \in Nat \ {0}
      BY DEF TypeOK, Tasks, Task
    <2>2. At(p, {"package", "engine"}) => task[p].build \in Builds
      BY DEF TaskInv, At, Running
    <2>3. Children(p) \subseteq Strays
      <3> DEFINE c == [engine |-> At(p, {"engine"}), build |-> task[p].build, pid |-> task[p].pid]
      <3>0. At(p, {"engine"}) \in BOOLEAN
        BY DEF At
      <3>1. At(p, {"package", "engine"}) => c \in Strays
        BY <2>1, <2>2, <3>0 DEF Strays
      <3>2. Children(p) \subseteq {c} /\ (Children(p) # {} => At(p, {"package", "engine"}))
        BY DEF Children, At
      <3> QED
        BY <3>1, <3>2
    <2> QED
      BY <1>a, <2>3
  <1>2. CASE \E s \in strays : Stray(s)
    BY <1>a, <1>2 DEF Stray
  <1>3. CASE strays' = strays
    BY <1>a, <1>3
  <1>4. CASE \E p \in Workers : Step(p)
    BY <1>3, <1>4 DEF Step, LockStep, Create, Stamp, Look, Clear, Unlock, removeAbandonedStream,
      ContentStep, Provision, Package, PackageFails, Leftovers, Over, ConfigStep, Heal, Backup, Seed, Restore,
      EngineStep, Launch, WidgetLoads, Simulates, EngineEnds, killEngine
  <1>5. CASE \E p \in Workers : \/ \E b \in Builds : Begin(p, "run", b)
                                \/ BeginPrune(p) \/ WatchMemory(p) \/ Cancel(p) \/ Consume(p) \/ Judge(p)
    BY <1>3, <1>5 DEF Begin, BeginPrune, WatchMemory, Cancel, Consume, Judge
  <1> QED
    BY <1>1, <1>2, <1>4, <1>5 DEF DirNext

\* The history stays one with a count, and with one of the marks, moved on.
LEMMA PastWith ==
    ASSUME past \in Past
    PROVE  /\ past.upsets + 1 \in Nat /\ past.pids + 1 \in Nat /\ past.tasks + 1 \in Nat
           /\ \A n \in Nat : [past EXCEPT !.tasks = n] \in Past /\ [past EXCEPT !.upsets = n] \in Past
           /\ \A x \in BOOLEAN : [past EXCEPT !.raced = x] \in Past
           /\ \A n \in Nat, x \in BOOLEAN : [past EXCEPT !.upsets = n, !.cut = x] \in Past
           /\ \A n \in Nat, x \in BOOLEAN : [past EXCEPT !.upsets = n, !.bare = x] \in Past
           /\ \A n, m \in Nat, x, y \in BOOLEAN :
                 [past EXCEPT !.upsets = n, !.pids = m, !.cut = x, !.bare = y] \in Past
  <1>1. past.upsets + 1 \in Nat /\ past.pids + 1 \in Nat /\ past.tasks + 1 \in Nat
    BY DEF Past
  <1>2. \A n \in Nat : [past EXCEPT !.tasks = n] \in Past /\ [past EXCEPT !.upsets = n] \in Past
    BY DEF Past
  <1>3. \A d \in Past, x \in BOOLEAN :
          [d EXCEPT !.raced = x] \in Past /\ [d EXCEPT !.cut = x] \in Past /\ [d EXCEPT !.bare = x] \in Past
    BY DEF Past
  <1>4. ASSUME NEW n \in Nat, NEW m \in Nat, NEW x \in BOOLEAN, NEW y \in BOOLEAN
        PROVE  /\ [past EXCEPT !.upsets = n, !.cut = x] \in Past /\ [past EXCEPT !.upsets = n, !.bare = x] \in Past
               /\ [past EXCEPT !.upsets = n, !.pids = m, !.cut = x, !.bare = y] \in Past
    <2> DEFINE new == [past EXCEPT !.upsets = n]
               newer == [past EXCEPT !.upsets = n, !.pids = m]
    <2>1. new \in Past /\ newer \in Past
      BY DEF Past
    <2>2. /\ [past EXCEPT !.upsets = n, !.cut = x] = [new EXCEPT !.cut = x]
          /\ [past EXCEPT !.upsets = n, !.bare = x] = [new EXCEPT !.bare = x]
          /\ [past EXCEPT !.upsets = n, !.pids = m, !.cut = x, !.bare = y] = [[newer EXCEPT !.cut = x] EXCEPT !.bare = y]
      BY DEF Past
    <2> HIDE DEF new, newer
    <2>3. [newer EXCEPT !.cut = x] \in Past
      BY <1>3, <2>1
    <2> QED
      BY <1>3, <2>1, <2>2
  <1> QED
    BY <1>1, <1>2, <1>3, <1>4

\* What a step may change of the history.
LEMMA PastTyped ==
    ASSUME past \in Past, DirNext
    PROVE  past' \in Past /\ past'.cfg = past.cfg
  <1>a. /\ past.raced \in BOOLEAN /\ past.cut \in BOOLEAN /\ past.bare \in BOOLEAN
        /\ past.pids \in Nat /\ past.tasks \in Nat /\ past.upsets \in Nat /\ past.cfg \in {"user", Absent}
        /\ "cfg" \in DOMAIN past
    BY DEF Past
  <1>1. CASE past' = past
    BY <1>1
  <1>2. CASE past' = [past EXCEPT !.upsets = @ + 1]
    BY <1>2, PastWith, <1>a
  <1>3. CASE past' = [past EXCEPT !.upsets = @ + 1, !.cut = TRUE]
    BY <1>3, PastWith, <1>a
  <1>4. CASE \E p \in Workers : Create(p)
    <2> PICK p \in Workers : past' = past \/ past' = [past EXCEPT !.raced = @ \/ strays # {} \/ \E q \in Workers \ {p} : Holds(q)]
      BY <1>4 DEF Create
    <2> DEFINE x == past.raced \/ strays # {} \/ \E q \in Workers \ {p} : Holds(q)
    <2>1. x \in BOOLEAN
      OBVIOUS
    <2>2. past' = past \/ past' = [past EXCEPT !.raced = x]
      OBVIOUS
    <2> HIDE DEF x
    <2> QED
      BY PastWith, <1>a
  <1>5. CASE \E p \in Workers, kind \in {"run", "prune"}, b \in Builds \cup {"unset"} : Begin(p, kind, b)
    BY <1>5, PastWith, <1>a DEF Begin
  <1>6. CASE \E p \in Workers : Seed(p)
    <2> PICK p \in Workers : past' = past \/ past' = [past EXCEPT !.upsets = @ + 1, !.bare = @ \/ ~task[p].existed]
      BY <1>6 DEF Seed
    <2> DEFINE x == past.bare \/ ~task[p].existed
    <2>1. x \in BOOLEAN
      OBVIOUS
    <2>2. past' = past \/ past' = [past EXCEPT !.upsets = @ + 1, !.bare = x]
      OBVIOUS
    <2> HIDE DEF x
    <2> QED
      BY PastWith, <1>a
  <1>7. CASE \E p \in Workers : Dies(p)
    <2> PICK p \in Workers : Dies(p)
      BY <1>7
    <2> PICK broken \in SUBSET Writing(p) :
          past' = [past EXCEPT !.upsets = @ + 1, !.pids = @ + 1, !.cut = @ \/ "bak" \in broken,
              !.bare = @ \/ (~task[p].existed /\ (At(p, Running \cup {"restore"}) \/ (At(p, {"seed"}) /\ "cfg" \in broken)))]
      BY DEF Dies
    <2> DEFINE x == past.cut \/ "bak" \in broken
               y == past.bare \/ (~task[p].existed /\ (At(p, Running \cup {"restore"}) \/ (At(p, {"seed"}) /\ "cfg" \in broken)))
    <2>1. x \in BOOLEAN /\ y \in BOOLEAN
      OBVIOUS
    <2>2. past' = [past EXCEPT !.upsets = @ + 1, !.pids = @ + 1, !.cut = x, !.bare = y]
      OBVIOUS
    <2> HIDE DEF x, y
    <2>3. past.upsets + 1 \in Nat /\ past.pids + 1 \in Nat
      BY <1>a
    <2>4. [past EXCEPT !.upsets = past.upsets + 1, !.pids = past.pids + 1, !.cut = x, !.bare = y] \in Past
      BY <2>1, PastWith
    <2> QED
      BY <2>2, <2>4
  <1>8. CASE \E p \in Workers : Step(p)
    <2>1. CASE \E p \in Workers : LockStep(p)
      BY <2>1, <1>4 DEF LockStep, Stamp, Look, Clear, Unlock, removeAbandonedStream
    <2>2. CASE \E p \in Workers : ContentStep(p)
      BY <2>2, <1>2 DEF ContentStep, Provision, Package, PackageFails, Leftovers, Over, Upset
    <2>3. CASE \E p \in Workers : ConfigStep(p)
      BY <2>3, <1>3, <1>6 DEF ConfigStep, Heal, Backup, Restore, WriteFails
    <2>4. CASE \E p \in Workers : EngineStep(p)
      BY <2>4, <1>2 DEF EngineStep, Launch, WidgetLoads, Simulates, EngineEnds, killEngine, Upset
    <2> QED
      BY <1>8, <2>1, <2>2, <2>3, <2>4 DEF Step
  <1>9. CASE \E p \in Workers : WatchMemory(p) \/ Cancel(p) \/ Consume(p) \/ Judge(p)
    BY <1>9, <1>2 DEF WatchMemory, Cancel, Consume, Judge, Upset
  <1>10. CASE \E s \in strays : Stray(s)
    BY <1>10 DEF Stray
  <1> QED
    BY <1>5, <1>7, <1>8, <1>9, <1>10 DEF DirNext, BeginPrune

\* Only a lock file that is created puts a process into the folder, and where that makes two of
\* them, or one beside a stray, raced says so.
LEMMA AloneKept ==
    ASSUME TypeOK, AloneInv, DirNext
    PROVE  AloneInv'
  <1>1. CASE \E p \in Workers, b \in Builds : Begin(p, "run", b)
    BY <1>1 DEF Begin, AloneInv, At, Goes, Holds, Opening, Running
  <1>2. CASE \E p \in Workers : BeginPrune(p)
    BY <1>2 DEF BeginPrune, Begin, AloneInv, At, Goes, Holds, Opening, Running
  <1>3. CASE \E p \in Workers : Create(p)
    <2> PICK p \in Workers : Create(p)
      BY <1>3
    <2>1. CASE folder.lock = Unlocked
      <3>1. past'.raced = (past.raced \/ strays # {} \/ \E q \in Workers \ {p} : Holds(q))
        BY <2>1, Shape DEF Create
      <3>2. \A q \in Workers \ {p} : Holds(q)' <=> Holds(q)
        BY Shape DEF Create, Goes, Holds, At
      <3> QED
        BY <3>1, <3>2 DEF Create, AloneInv
    <2>2. CASE folder.lock # Unlocked
      BY <2>2, Shape DEF Create, AloneInv, TaskParts, Goes, At, Holds, Opening
    <2> QED
      BY <2>1, <2>2
  <1>4. CASE \E p \in Workers : Stamp(p)
    BY <1>4 DEF Stamp, AloneInv, At, Goes, Holds, Opening, Running
  <1>5. CASE \E p \in Workers : Look(p)
    BY <1>5, Shape DEF Look, AloneInv, TaskParts, At, Goes, Holds, Opening, Running
  <1>6. CASE \E p \in Workers : Clear(p)
    BY <1>6, Shape DEF Clear, TaskParts, At, Running
  <1>7. CASE \E p \in Workers : Unlock(p)
    BY <1>7 DEF Unlock, AloneInv, At, Goes, Holds, Running
  <1>8. CASE \E p \in Workers : removeAbandonedStream(p)
    BY <1>8 DEF removeAbandonedStream, AloneInv, At, Goes, Holds, Running
  <1>9. CASE \E p \in Workers : Provision(p)
    <2> PICK p \in Workers : Provision(p)
      BY <1>9
    <2>0. At(p, {"provision"}) /\ strays' = strays /\ past'.raced = past.raced
      BY ProvisionDoes DEF Keeps
    <2>1. CASE ToPc(p, {"heal", "package"})
      BY <2>0, <2>1 DEF AloneInv, ToPc, At, Holds, Opening
    <2>2. CASE task' = [task EXCEPT ![p].said = "error", ![p].pc = "unlock"]
      BY <2>0, <2>2, Shape DEF TaskParts, At
    <2> QED
      BY <2>1, <2>2, ProvisionDoes
  <1>10. CASE \E p \in Workers : Package(p)
    BY <1>10 DEF Package, AloneInv, At, Goes, Holds, Opening, Running
  <1>11. CASE \E p \in Workers : PackageFails(p)
    BY <1>11, Shape DEF PackageFails, Fails, TaskParts, At
  <1>12. CASE \E p \in Workers : Leftovers(p)
    BY <1>12 DEF Leftovers, AloneInv, At, Goes, Holds, Opening, Running
  <1>13. CASE \E p \in Workers : Over(p)
    BY <1>13, Shape, OverDoes DEF AloneInv, ToPc, At, Holds, Opening
  <1>14. CASE \E p \in Workers : Heal(p)
    BY <1>14, Shape, HealDoes DEF AloneInv, ToPc, At, Holds, Opening
  <1>15. CASE \E p \in Workers : Backup(p)
    BY <1>15, Shape DEF Backup, Fails, TaskParts, At
  <1>16. CASE \E p \in Workers : Seed(p)
    BY <1>16, Shape DEF Seed, Fails, AloneInv, TaskParts, At, Goes, Holds, Opening
  <1>17. CASE \E p \in Workers : Restore(p)
    BY <1>17, Shape, RestoreDoes DEF AloneInv, ToPc, At, Holds, Opening
  <1>18. CASE \E p \in Workers : Launch(p)
    BY <1>18, Shape DEF Launch, Upset, Fails, AloneInv, At, Holds, Opening
  <1>19. CASE \E p \in Workers : WidgetLoads(p)
    BY <1>19, Shape DEF WidgetLoads, AloneInv, At, Holds, Running
  <1>20. CASE \E p \in Workers : Simulates(p)
    BY <1>20 DEF Simulates, AloneInv, At, Holds, Running
  <1>21. CASE \E p \in Workers : EngineEnds(p)
    BY <1>21, Shape DEF EngineEnds, Upset, AloneInv, TaskParts, At, Holds, Running
  <1>22. CASE \E p \in Workers : killEngine(p)
    BY <1>22 DEF killEngine, AloneInv, At, Holds, Running
  <1>23. CASE \E p \in Workers : WatchMemory(p)
    BY <1>23 DEF WatchMemory, Upset, AloneInv, At, Holds, Running
  <1>24. CASE \E p \in Workers : Cancel(p)
    BY <1>24 DEF Cancel, Upset, AloneInv, At, Holds, Running
  <1>25. CASE \E p \in Workers : Consume(p)
    BY <1>25, Shape DEF Consume, AloneInv, At, Goes, Holds, Opening, Running
  <1>26. CASE \E p \in Workers : Judge(p)
    BY <1>26, Shape DEF Judge, TaskParts, At, Running
  <1>27. CASE \E p \in Workers : Dies(p)
    <2> PICK p \in Workers : Dies(p)
      BY <1>27
    <2>1. ~Holds(p)' /\ \A q \in Workers \ {p} : Holds(q)' <=> Holds(q)
      BY DiesDoes, Shape DEF AtRest, Holds, At
    <2>2. PICK left \in SUBSET Children(p) : strays' = strays \cup left
      BY DiesDoes
    <2>3. left # {} => Holds(p)
      BY DEF Children, Holds, At, Opening
    <2>4. past'.raced = past.raced
      BY DiesDoes
    <2> QED
      BY <2>1, <2>2, <2>3, <2>4 DEF AloneInv
  <1>28. CASE \E s \in strays : Stray(s)
    BY <1>28 DEF Stray, AloneInv, At, Holds, Running
  <1> QED
    BY <1>1, <1>2, <1>3, <1>4, <1>5, <1>6, <1>7, <1>8, <1>9, <1>10, <1>11, <1>12, <1>13, <1>14, <1>15,
       <1>16, <1>17, <1>18, <1>19, <1>20, <1>21, <1>22, <1>23, <1>24, <1>25, <1>26, <1>27, <1>28
    DEF DirNext, Step, LockStep, ContentStep, ConfigStep, EngineStep

\* A kill hands out a pid none had before, and nothing else writes one that is not its own.
LEMMA PidKept ==
    ASSUME TypeOK, PidInv, TaskInv, DirNext
    PROVE  PidInv'
  <1>1. CASE \E p \in Workers, b \in Builds : Begin(p, "run", b)
    BY <1>1 DEF Begin, AtRest, PidInv
  <1>2. CASE \E p \in Workers : BeginPrune(p)
    BY <1>2 DEF BeginPrune, Begin, AtRest, PidInv
  <1>3. CASE \E p \in Workers : Create(p)
    BY <1>3, Shape DEF Create, PidInv, FolderParts, TaskParts, Goes, NoStream
  <1>4. CASE \E p \in Workers : Stamp(p)
    BY <1>4 DEF Stamp, PidInv, Goes, Running, Unlocked, NoStream
  <1>5. CASE \E p \in Workers : Look(p)
    BY <1>5, Shape DEF Look, PidInv, TaskParts, Goes, Running, Unlocked, NoStream
  <1>6. CASE \E p \in Workers : Clear(p)
    BY <1>6, Shape DEF Clear, TaskParts, At, NoStream
  <1>7. CASE \E p \in Workers : Unlock(p)
    BY <1>7, Shape DEF Unlock, PidInv, Goes, Running, Unlocked, NoStream
  <1>8. CASE \E p \in Workers : removeAbandonedStream(p)
    BY <1>8, Shape DEF removeAbandonedStream, PidInv, Goes, Running, Unlocked, NoStream
  <1>9. CASE \E p \in Workers : Provision(p)
    <2> PICK p \in Workers : Provision(p)
      BY <1>9
    <2>0. At(p, {"provision"}) /\ strays' = strays /\ past'.raced = past.raced /\ past'.pids = past.pids /\ Keeps({"lock", "stream"})
      BY ProvisionDoes DEF Keeps
    <2>1. CASE ToPc(p, {"heal", "package"})
      BY <2>0, <2>1 DEF PidInv, Keeps, ToPc
    <2>2. CASE task' = [task EXCEPT ![p].said = "error", ![p].pc = "unlock"]
      BY <2>0, <2>2, Shape DEF PidInv, Keeps
    <2> QED
      BY <2>1, <2>2, ProvisionDoes
  <1>10. CASE \E p \in Workers : Package(p)
    BY <1>10 DEF Package, PidInv, Goes, Running, Unlocked, NoStream
  <1>11. CASE \E p \in Workers : PackageFails(p)
    BY <1>11, Shape DEF PackageFails, Upset, Fails, PidInv, Unlocked, NoStream
  <1>12. CASE \E p \in Workers : Leftovers(p)
    BY <1>12, Shape DEF Leftovers, gcPool, PidInv, Goes, Running, Unlocked, NoStream
  <1>13. CASE \E p \in Workers : Over(p)
    BY <1>13, Shape, OverDoes DEF PidInv, TaskParts, Keeps, ToPc
  <1>14. CASE \E p \in Workers : Heal(p)
    BY <1>14, Shape, HealDoes DEF PidInv, TaskParts, Keeps, ToPc
  <1>15. CASE \E p \in Workers : Backup(p)
    BY <1>15, Shape DEF Backup, Fails, TaskParts, At, Unlocked, NoStream
  <1>16. CASE \E p \in Workers : Seed(p)
    BY <1>16, Shape DEF Seed, Fails, PidInv, FolderParts, TaskParts, At, Goes, Unlocked, NoStream
  <1>17. CASE \E p \in Workers : Restore(p)
    BY <1>17, Shape, RestoreDoes DEF PidInv, TaskParts, Keeps, ToPc
  <1>18. CASE \E p \in Workers : Launch(p)
    BY <1>18, Shape DEF Launch, Upset, Fails, PidInv, TaskParts, Unlocked, NoStream
  <1>19. CASE \E p \in Workers : WidgetLoads(p)
    BY <1>19, Shape DEF WidgetLoads, PidInv, Goes, Running, Unlocked, NoStream
  <1>20. CASE \E p \in Workers : Simulates(p)
    BY <1>20 DEF Simulates, PidInv, Goes, Running, Unlocked, NoStream
  <1>21. CASE \E p \in Workers : EngineEnds(p)
    BY <1>21, Shape DEF EngineEnds, Upset, PidInv, TaskParts, Goes, Running, Unlocked, NoStream
  <1>22. CASE \E p \in Workers : killEngine(p)
    BY <1>22 DEF killEngine, PidInv, Goes, Running, Unlocked, NoStream
  <1>23. CASE \E p \in Workers : WatchMemory(p)
    BY <1>23 DEF WatchMemory, Upset, PidInv, Goes, Running, Unlocked, NoStream
  <1>24. CASE \E p \in Workers : Cancel(p)
    BY <1>24 DEF Cancel, Upset, PidInv, Goes, Running, Unlocked, NoStream
  <1>25. CASE \E p \in Workers : Consume(p)
    BY <1>25, Shape DEF Consume, PidInv, Goes, Running, Unlocked, NoStream
  <1>26. CASE \E p \in Workers : Judge(p)
    BY <1>26, Shape DEF Judge, TaskParts, At
  <1>27. CASE \E p \in Workers : Dies(p)
    <2> PICK p \in Workers : Dies(p)
      BY <1>27
    <2> DEFINE n == past.pids + 1
    <2>1. past.pids \in Nat /\ past'.pids = n /\ Keeps({"lock", "stream"})
      BY DiesDoes, Shape DEF Keeps
    <2>2. \A q \in Workers : task'[q].pid = IF q = p THEN n ELSE task[q].pid
      BY DiesDoes, Shape DEF AtRest
    <2>3. folder.lock.pid \in Nat /\ \A b \in Builds : folder.stream[b].pid \in Nat
      BY DEF TypeOK, Folder, Stream
    <2> QED
      BY <2>1, <2>2, <2>3, Shape DEF PidInv, Keeps
  <1>28. CASE \E s \in strays : Stray(s)
    BY <1>28, StrayDoes DEF PidInv, Keeps
  <1> QED
    BY <1>1, <1>2, <1>3, <1>4, <1>5, <1>6, <1>7, <1>8, <1>9, <1>10, <1>11, <1>12, <1>13, <1>14, <1>15,
       <1>16, <1>17, <1>18, <1>19, <1>20, <1>21, <1>22, <1>23, <1>24, <1>25, <1>26, <1>27, <1>28
    DEF DirNext, Step, LockStep, ContentStep, ConfigStep, EngineStep

\* A lock is written with its process's pid, and one that leaves the folder takes it away.
LEMMA LockKept ==
    ASSUME TypeOK, PidInv, LockInv, DirNext
    PROVE  LockInv'
  <1>1. CASE \E p \in Workers, b \in Builds : Begin(p, "run", b)
    BY <1>1 DEF Begin, AtRest, LockInv, At, Holds, Unlocked, Running
  <1>2. CASE \E p \in Workers : BeginPrune(p)
    BY <1>2 DEF BeginPrune, Begin, AtRest, LockInv, At, Holds, Unlocked, Running
  <1>3. CASE \E p \in Workers : Create(p)
    BY <1>3, Shape DEF Create, LockInv, PidInv, FolderParts, TaskParts, At, Goes, Holds, Opening, Running
  <1>4. CASE \E p \in Workers : Stamp(p)
    BY <1>4 DEF Stamp, LockInv, At, Goes, Holds, Opening, Unlocked, Running
  <1>5. CASE \E p \in Workers : Look(p)
    BY <1>5, Shape DEF Look, LockInv, TaskParts, At, Goes, Holds, Opening, Unlocked, Running
  <1>6. CASE \E p \in Workers : Clear(p)
    BY <1>6, Shape DEF Clear, TaskParts, At, Running
  <1>7. CASE \E p \in Workers : Unlock(p)
    BY <1>7, Shape DEF Unlock, LockInv, Goes, Unlocked, Running
  <1>8. CASE \E p \in Workers : removeAbandonedStream(p)
    BY <1>8 DEF removeAbandonedStream, LockInv, At, Goes, Holds, Unlocked, Running
  <1>9. CASE \E p \in Workers : Provision(p)
    <2> PICK p \in Workers : Provision(p)
      BY <1>9
    <2>0. At(p, {"provision"}) /\ strays' = strays /\ past'.raced = past.raced /\ folder'.lock = folder.lock
      BY ProvisionDoes DEF Keeps
    <2>1. CASE ToPc(p, {"heal", "package"})
      BY <2>0, <2>1 DEF LockInv, ToPc, At, Holds, Opening
    <2>2. CASE task' = [task EXCEPT ![p].said = "error", ![p].pc = "unlock"]
      BY <2>0, <2>2, Shape DEF TaskParts, At
    <2> QED
      BY <2>1, <2>2, ProvisionDoes
  <1>10. CASE \E p \in Workers : Package(p)
    BY <1>10 DEF Package, LockInv, At, Goes, Holds, Opening, Unlocked, Running
  <1>11. CASE \E p \in Workers : PackageFails(p)
    BY <1>11, Shape DEF PackageFails, Fails, TaskParts, At
  <1>12. CASE \E p \in Workers : Leftovers(p)
    BY <1>12 DEF Leftovers, gcPool, LockInv, At, Goes, Holds, Opening, Unlocked, Running
  <1>13. CASE \E p \in Workers : Over(p)
    BY <1>13, Shape, OverDoes DEF LockInv, TaskParts, Keeps, ToPc, At, Holds, Opening
  <1>14. CASE \E p \in Workers : Heal(p)
    BY <1>14, Shape, HealDoes DEF LockInv, TaskParts, Keeps, ToPc, At, Holds, Opening
  <1>15. CASE \E p \in Workers : Backup(p)
    BY <1>15, Shape DEF Backup, Fails, TaskParts, At
  <1>16. CASE \E p \in Workers : Seed(p)
    BY <1>16, Shape DEF Seed, Fails, LockInv, FolderParts, TaskParts, At, Goes, Holds, Opening
  <1>17. CASE \E p \in Workers : Restore(p)
    BY <1>17, Shape, RestoreDoes DEF LockInv, TaskParts, Keeps, ToPc, At, Holds, Opening
  <1>18. CASE \E p \in Workers : Launch(p)
    BY <1>18, Shape DEF Launch, Fails, LockInv, TaskParts, At, Holds, Opening
  <1>19. CASE \E p \in Workers : WidgetLoads(p)
    BY <1>19, Shape DEF WidgetLoads, LockInv, At, Holds, Unlocked, Running
  <1>20. CASE \E p \in Workers : Simulates(p)
    BY <1>20 DEF Simulates, LockInv, At, Holds, Unlocked, Running
  <1>21. CASE \E p \in Workers : EngineEnds(p)
    BY <1>21, Shape DEF EngineEnds, LockInv, TaskParts, At, Holds, Unlocked, Running
  <1>22. CASE \E p \in Workers : killEngine(p)
    BY <1>22 DEF killEngine, LockInv, At, Holds, Unlocked, Running
  <1>23. CASE \E p \in Workers : WatchMemory(p)
    BY <1>23 DEF WatchMemory, LockInv, At, Holds, Unlocked, Running
  <1>24. CASE \E p \in Workers : Cancel(p)
    BY <1>24 DEF Cancel, LockInv, At, Holds, Unlocked, Running
  <1>25. CASE \E p \in Workers : Consume(p)
    BY <1>25, Shape DEF Consume, LockInv, At, Goes, Holds, Opening, Unlocked, Running
  <1>26. CASE \E p \in Workers : Judge(p)
    BY <1>26, Shape DEF Judge, TaskParts, At, Unlocked, Running
  <1>27. CASE \E p \in Workers : Dies(p)
    BY <1>27, Shape, DiesDoes DEF LockInv, PidInv, AtRest, Keeps, At, Holds
  <1>28. CASE \E s \in strays : Stray(s)
    BY <1>28, Shape DEF Stray, LockInv, FolderParts, At, Goes, Holds, Opening, Unlocked, Running
  <1> QED
    BY <1>1, <1>2, <1>3, <1>4, <1>5, <1>6, <1>7, <1>8, <1>9, <1>10, <1>11, <1>12, <1>13, <1>14, <1>15,
       <1>16, <1>17, <1>18, <1>19, <1>20, <1>21, <1>22, <1>23, <1>24, <1>25, <1>26, <1>27, <1>28
    DEF DirNext, Step, LockStep, ContentStep, ConfigStep, EngineStep

\* A task's kind leads it its way, and it says nothing before it is told off or judged.
LEMMA TaskInvKept ==
    ASSUME TypeOK, TaskInv, DirNext
    PROVE  TaskInv'
  <1>1. CASE \E p \in Workers, b \in Builds : Begin(p, "run", b)
    BY <1>1 DEF Begin, AtRest, TaskInv, At
  <1>2. CASE \E p \in Workers : BeginPrune(p)
    <2>1. "unset" \notin Builds
      BY DataDirAssumption
    <2> QED
      BY <1>2, <2>1 DEF BeginPrune, Begin, AtRest, TaskInv, At, Running
  <1>3. CASE \E p \in Workers : Create(p)
    BY <1>3, Shape DEF Create, TaskInv, Goes, TaskParts, At, Running, Deciding
  <1>4. CASE \E p \in Workers : Stamp(p)
    <2> PICK p \in Workers : Stamp(p)
      BY <1>4
    <2>1. task[p].kind \in {"run", "prune"}
      BY DEF TypeOK, Tasks, Task
    <2> QED
      BY <2>1 DEF Stamp, TaskInv, Goes, At, Running, Deciding
  <1>5. CASE \E p \in Workers : Look(p)
    BY <1>5, Shape DEF Look, TaskInv, Goes, TaskParts, At, Running, Deciding
  <1>6. CASE \E p \in Workers : Clear(p)
    BY <1>6, Shape DEF Clear, TaskParts, At
  <1>7. CASE \E p \in Workers : Unlock(p)
    BY <1>7 DEF Unlock, TaskInv, Goes, At, Running, Deciding
  <1>8. CASE \E p \in Workers : removeAbandonedStream(p)
    BY <1>8 DEF removeAbandonedStream, TaskInv, Goes, At, Deciding
  <1>9. CASE \E p \in Workers : Provision(p)
    <2> PICK p \in Workers : Provision(p)
      BY <1>9
    <2>0. At(p, {"provision"}) /\ strays' = strays /\ past'.raced = past.raced
      BY ProvisionDoes DEF Keeps
    <2>1. CASE ToPc(p, {"heal", "package"})
      BY <2>0, <2>1 DEF TaskInv, ToPc, At, Deciding
    <2>2. CASE task' = [task EXCEPT ![p].said = "error", ![p].pc = "unlock"]
      BY <2>0, <2>2, Shape DEF TaskParts, At
    <2> QED
      BY <2>1, <2>2, ProvisionDoes
  <1>10. CASE \E p \in Workers : Package(p)
    BY <1>10 DEF Package, TaskInv, Goes, At, Deciding
  <1>11. CASE \E p \in Workers : PackageFails(p)
    BY <1>11, Shape DEF PackageFails, Fails, TaskParts, At
  <1>12. CASE \E p \in Workers : Leftovers(p)
    BY <1>12 DEF Leftovers, TaskInv, Goes, At, Running, Deciding
  <1>13. CASE \E p \in Workers : Over(p)
    BY <1>13, Shape, OverDoes DEF TaskInv, AtRest, TaskParts, ToPc, At, Running, Deciding
  <1>14. CASE \E p \in Workers : Heal(p)
    BY <1>14, Shape, HealDoes DEF TaskInv, TaskParts, ToPc, At, Deciding
  <1>15. CASE \E p \in Workers : Backup(p)
    BY <1>15, Shape DEF Backup, Fails, TaskParts, At
  <1>16. CASE \E p \in Workers : Seed(p)
    BY <1>16, Shape DEF Seed, Fails, TaskInv, Goes, TaskParts, At, Deciding
  <1>17. CASE \E p \in Workers : Restore(p)
    BY <1>17, Shape, RestoreDoes DEF TaskInv, TaskParts, ToPc, At, Deciding
  <1>18. CASE \E p \in Workers : Launch(p)
    BY <1>18, Shape DEF Launch, Fails, TaskInv, Goes, TaskParts, At, Running, Deciding
  <1>19. CASE \E p \in Workers : WidgetLoads(p)
    BY <1>19, Shape DEF WidgetLoads, TaskInv, At
  <1>20. CASE \E p \in Workers : Simulates(p)
    BY <1>20 DEF Simulates, TaskInv, At
  <1>21. CASE \E p \in Workers : EngineEnds(p)
    BY <1>21, Shape DEF EngineEnds, TaskInv, TaskParts, At
  <1>22. CASE \E p \in Workers : killEngine(p)
    BY <1>22 DEF killEngine, TaskInv, At
  <1>23. CASE \E p \in Workers : WatchMemory(p)
    BY <1>23 DEF WatchMemory, TaskInv, At
  <1>24. CASE \E p \in Workers : Cancel(p)
    BY <1>24 DEF Cancel, TaskInv, At
  <1>25. CASE \E p \in Workers : Consume(p)
    BY <1>25, Shape DEF Consume, TaskInv, At, Running, Deciding
  <1>26. CASE \E p \in Workers : Judge(p)
    BY <1>26, Shape DEF Judge, TaskParts, At
  <1>27. CASE \E p \in Workers : Dies(p)
    <2>1. "unset" \notin Builds
      BY DataDirAssumption
    <2> QED
      BY <1>27, Shape, DiesDoes DEF TaskInv, AtRest, At
  <1>28. CASE \E s \in strays : Stray(s)
    BY <1>28 DEF Stray, TaskInv, At
  <1> QED
    BY <1>1, <1>2, <1>3, <1>4, <1>5, <1>6, <1>7, <1>8, <1>9, <1>10, <1>11, <1>12, <1>13, <1>14, <1>15,
       <1>16, <1>17, <1>18, <1>19, <1>20, <1>21, <1>22, <1>23, <1>24, <1>25, <1>26, <1>27, <1>28
    DEF DirNext, Step, LockStep, ContentStep, ConfigStep, EngineStep

\* A stream takes a pid from the widget that writes it only, and loses it when its run does not
\* publish; a kill gives its process a pid no stream has.
LEMMA StreamKept ==
    ASSUME TypeOK, PidInv, TaskInv, StreamInv, DirNext
    PROVE  StreamInv'
  <1>1. CASE \E p \in Workers, b \in Builds : Begin(p, "run", b)
    BY <1>1 DEF Begin, AtRest, StreamInv, At, Running
  <1>2. CASE \E p \in Workers : BeginPrune(p)
    BY <1>2 DEF BeginPrune, Begin, AtRest, StreamInv, At, Running
  <1>3. CASE \E p \in Workers : Create(p)
    BY <1>3, Shape DEF Create, StreamInv, FolderParts, TaskParts, At, Goes, Running
  <1>4. CASE \E p \in Workers : Stamp(p)
    BY <1>4 DEF Stamp, StreamInv, At, Goes, Running
  <1>5. CASE \E p \in Workers : Look(p)
    BY <1>5, Shape DEF Look, StreamInv, TaskParts, At, Goes, Running
  <1>6. CASE \E p \in Workers : Clear(p)
    BY <1>6, Shape DEF Clear, TaskParts, At
  <1>7. CASE \E p \in Workers : Unlock(p)
    <2> PICK p \in Workers : Unlock(p)
      BY <1>7
    <2>1. /\ At(p, {"unlock"}) /\ folder'.stream = folder.stream
          /\ task' = [task EXCEPT ![p].pc = IF task[p].kind = "run" /\ task[p].said # "published" THEN "abandon" ELSE "idle"]
      BY DEF Unlock, Goes
    <2>2. task[p].build \in Builds => task[p].kind = "run"
      BY DEF TaskInv
    <2>3. \A q \in Workers : /\ task'[q].pid = task[q].pid /\ task'[q].build = task[q].build /\ task'[q].said = task[q].said
                             /\ q # p => task'[q].pc = task[q].pc
      BY <2>1
    <2>4. task[p].build \in Builds /\ task[p].said # "published" => task'[p].pc = "abandon"
      BY <2>1, <2>2, Shape
    <2> QED
      BY <2>1, <2>4 DEF StreamInv, At
  <1>8. CASE \E p \in Workers : removeAbandonedStream(p)
    BY <1>8, Shape DEF removeAbandonedStream, StreamInv, At, Goes, NoStream
  <1>9. CASE \E p \in Workers : Provision(p)
    <2> PICK p \in Workers : Provision(p)
      BY <1>9
    <2>0. At(p, {"provision"}) /\ strays' = strays /\ past'.raced = past.raced /\ Keeps({"stream"})
      BY ProvisionDoes DEF Keeps
    <2>1. CASE ToPc(p, {"heal", "package"})
      BY <2>0, <2>1 DEF StreamInv, Keeps, ToPc, At, Running
    <2>2. CASE task' = [task EXCEPT ![p].said = "error", ![p].pc = "unlock"]
      BY <2>0, <2>2, Shape DEF StreamInv, Keeps, At
    <2> QED
      BY <2>1, <2>2, ProvisionDoes
  <1>10. CASE \E p \in Workers : Package(p)
    BY <1>10 DEF Package, StreamInv, At, Goes, Running
  <1>11. CASE \E p \in Workers : PackageFails(p)
    BY <1>11, Shape DEF PackageFails, Fails, StreamInv, At
  <1>12. CASE \E p \in Workers : Leftovers(p)
    BY <1>12, Shape DEF Leftovers, gcPool, StreamInv, Goes, NoStream
  <1>13. CASE \E p \in Workers : Over(p)
    BY <1>13, Shape, OverDoes DEF StreamInv, TaskParts, Keeps, ToPc, At
  <1>14. CASE \E p \in Workers : Heal(p)
    BY <1>14, Shape, HealDoes DEF StreamInv, AtRest, TaskParts, Keeps, ToPc, At, Running
  <1>15. CASE \E p \in Workers : Backup(p)
    BY <1>15, Shape DEF Backup, Fails, TaskParts, At
  <1>16. CASE \E p \in Workers : Seed(p)
    BY <1>16, Shape DEF Seed, Fails, StreamInv, FolderParts, TaskParts, At, Goes, Running
  <1>17. CASE \E p \in Workers : Restore(p)
    BY <1>17, Shape, RestoreDoes DEF StreamInv, TaskParts, Keeps, ToPc, At
  <1>18. CASE \E p \in Workers : Launch(p)
    BY <1>18, Shape DEF Launch, Fails, StreamInv, TaskParts, At, Running
  <1>19. CASE \E p \in Workers : WidgetLoads(p)
    <2> PICK p \in Workers : WidgetLoads(p)
      BY <1>19
    <2> DEFINE b == task[p].build
    <2>1. b \in Builds /\ task[p].said = "nothing" /\ task[p].pid # 0 /\ At(p, {"engine"})
      BY Shape DEF WidgetLoads, TaskInv, At, Deciding, Running
    <2>2. folder'.stream = [folder.stream EXCEPT ![b] = [pid |-> task[p].pid, span |-> "stub"]]
      BY DEF WidgetLoads
    <2>3. \A q \in Workers : /\ task'[q].pid = task[q].pid /\ task'[q].build = task[q].build
                             /\ task'[q].said = task[q].said /\ task'[q].pc = task[q].pc
      BY Shape DEF WidgetLoads
    <2>4. \A a \in Builds : folder'.stream[a] = IF a = b THEN [pid |-> task[p].pid, span |-> "stub"] ELSE folder.stream[a]
      BY <2>2, Shape
    <2>5. \A q \in Workers : task[q].pid = task[p].pid => q = p
      BY DEF PidInv
    <2> HIDE DEF b
    <2>6. b = task[p].build
      BY DEF b
    <2> QED
      BY <2>1, <2>3, <2>4, <2>5, <2>6 DEF StreamInv, At, Running
  <1>20. CASE \E p \in Workers : Simulates(p)
    BY <1>20, Shape DEF Simulates, StreamInv, At
  <1>21. CASE \E p \in Workers : EngineEnds(p)
    BY <1>21, Shape DEF EngineEnds, StreamInv, TaskParts, At
  <1>22. CASE \E p \in Workers : killEngine(p)
    BY <1>22 DEF killEngine, StreamInv, At
  <1>23. CASE \E p \in Workers : WatchMemory(p)
    BY <1>23 DEF WatchMemory, StreamInv, At
  <1>24. CASE \E p \in Workers : Cancel(p)
    BY <1>24 DEF Cancel, StreamInv, At
  <1>25. CASE \E p \in Workers : Consume(p)
    BY <1>25, Shape DEF Consume, StreamInv, At, Running
  <1>26. CASE \E p \in Workers : Judge(p)
    BY <1>26, Shape DEF Judge, TaskParts, At
  <1>27. CASE \E p \in Workers : Dies(p)
    BY <1>27, Shape, DiesDoes DEF StreamInv, PidInv, AtRest, Keeps, At
  <1>28. CASE \E s \in strays : Stray(s)
    BY <1>28, StrayDoes DEF StreamInv, At
  <1> QED
    BY <1>1, <1>2, <1>3, <1>4, <1>5, <1>6, <1>7, <1>8, <1>9, <1>10, <1>11, <1>12, <1>13, <1>14, <1>15,
       <1>16, <1>17, <1>18, <1>19, <1>20, <1>21, <1>22, <1>23, <1>24, <1>25, <1>26, <1>27, <1>28
    DEF DirNext, Step, LockStep, ContentStep, ConfigStep, EngineStep

\* Only the run in the folder writes its stream; a stray writes on in files of its own pid.
LEMMA OwnKept ==
    ASSUME TypeOK, AloneInv, TaskInv, OwnInv, DirNext
    PROVE  OwnInv'
  <1>1. CASE \E p \in Workers, b \in Builds : Begin(p, "run", b)
    BY <1>1 DEF Begin, OwnInv, At
  <1>2. CASE \E p \in Workers : BeginPrune(p)
    BY <1>2 DEF BeginPrune, Begin, OwnInv, At
  <1>3. CASE \E p \in Workers : Create(p)
    BY <1>3, Shape, CreateDoes DEF OwnInv, TaskParts, Keeps, ToPc, At
  <1>4. CASE \E p \in Workers : Stamp(p)
    BY <1>4 DEF Stamp, OwnInv, At, Goes
  <1>5. CASE \E p \in Workers : Look(p)
    BY <1>5, Shape DEF Look, OwnInv, TaskParts, At, Goes
  <1>6. CASE \E p \in Workers : Clear(p)
    BY <1>6, Shape DEF Clear, OwnInv, FolderParts, At, Goes, Running, NoStream
  <1>7. CASE \E p \in Workers : Unlock(p)
    BY <1>7 DEF Unlock, OwnInv, At, Goes
  <1>8. CASE \E p \in Workers : removeAbandonedStream(p)
    BY <1>8 DEF removeAbandonedStream, OwnInv, At, Goes
  <1>9. CASE \E p \in Workers : Provision(p)
    <2> PICK p \in Workers : Provision(p)
      BY <1>9
    <2>0. At(p, {"provision"}) /\ strays' = strays /\ past'.raced = past.raced /\ Keeps({"stream"})
      BY ProvisionDoes DEF Keeps
    <2>1. CASE ToPc(p, {"heal", "package"})
      BY <2>0, <2>1 DEF OwnInv, Keeps, ToPc, At, Running
    <2>2. CASE task' = [task EXCEPT ![p].said = "error", ![p].pc = "unlock"]
      BY <2>0, <2>2, Shape DEF OwnInv, Keeps, At, Running
    <2> QED
      BY <2>1, <2>2, ProvisionDoes
  <1>10. CASE \E p \in Workers : Package(p)
    BY <1>10 DEF Package, OwnInv, At, Goes
  <1>11. CASE \E p \in Workers : PackageFails(p)
    BY <1>11, Shape DEF PackageFails, Upset, Fails, OwnInv, At
  <1>12. CASE \E p \in Workers : Leftovers(p)
    BY <1>12, Shape, LeftoversDoes DEF OwnInv, TaskInv, TaskParts, ToPc, At, Running
  <1>13. CASE \E p \in Workers : Over(p)
    BY <1>13, Shape, OverDoes DEF OwnInv, AtRest, TaskParts, Keeps, ToPc, At, Running
  <1>14. CASE \E p \in Workers : Heal(p)
    BY <1>14, Shape, HealDoes DEF OwnInv, AtRest, TaskParts, Keeps, ToPc, At, Running
  <1>15. CASE \E p \in Workers : Backup(p)
    BY <1>15, Shape DEF Backup, Fails, TaskParts, At
  <1>16. CASE \E p \in Workers : Seed(p)
    BY <1>16, Shape DEF Seed, Fails, OwnInv, FolderParts, TaskParts, At, Goes
  <1>17. CASE \E p \in Workers : Restore(p)
    BY <1>17, Shape, RestoreDoes DEF OwnInv, AtRest, TaskParts, Keeps, ToPc, At, Running
  <1>18. CASE \E p \in Workers : Launch(p)
    <2> PICK p \in Workers : Launch(p)
      BY <1>18
    <2>1. ~task[p].wrote /\ At(p, {"launch"}) /\ folder' = folder
      BY DEF Launch, TaskInv, At, Deciding
    <2>2. \A q \in Workers : /\ task'[q].wrote = task[q].wrote /\ task'[q].capture = task[q].capture
                             /\ task'[q].pid = task[q].pid /\ task'[q].build = task[q].build
                             /\ q # p => task'[q].pc = task[q].pc
      BY Shape DEF Launch, Fails, TaskParts
    <2>3. past'.raced = past.raced
      BY Shape DEF Launch, Upset
    <2> QED
      BY <2>1, <2>2, <2>3 DEF OwnInv, At
  <1>19. CASE \E p \in Workers : WidgetLoads(p)
    <2> PICK p \in Workers : WidgetLoads(p)
      BY <1>19
    <2> DEFINE b == task[p].build
    <2>1. b \in Builds /\ At(p, {"engine"})
      BY DEF WidgetLoads, TaskInv, At, Running
    <2>2. \A q \in Workers : q # p => ~At(q, {"engine", "judge"})
      BY <2>1 DEF AloneInv, DirNext, Holds, At, Opening
    <2>3. \A q \in Workers : /\ task'[q].pid = task[q].pid /\ task'[q].build = task[q].build /\ task'[q].pc = task[q].pc
      BY Shape DEF WidgetLoads
    <2>4. folder'.stream[b].pid = task[p].pid
      BY <2>1, Shape DEF WidgetLoads
    <2> QED
      BY <2>1, <2>2, <2>3, <2>4 DEF OwnInv, At
  <1>20. CASE \E p \in Workers : Simulates(p)
    BY <1>20, Shape DEF Simulates, OwnInv, At, Goes, Running, NoStream
  <1>21. CASE \E p \in Workers : EngineEnds(p)
    BY <1>21, Shape DEF EngineEnds, Upset, OwnInv, TaskParts, At
  <1>22. CASE \E p \in Workers : killEngine(p)
    BY <1>22 DEF killEngine, OwnInv, At
  <1>23. CASE \E p \in Workers : WatchMemory(p)
    BY <1>23 DEF WatchMemory, Upset, OwnInv, At
  <1>24. CASE \E p \in Workers : Cancel(p)
    BY <1>24 DEF Cancel, Upset, OwnInv, At
  <1>25. CASE \E p \in Workers : Consume(p)
    BY <1>25, Shape DEF Consume, OwnInv, At
  <1>26. CASE \E p \in Workers : Judge(p)
    BY <1>26, Shape DEF Judge, OwnInv, At
  <1>27. CASE \E p \in Workers : Dies(p)
    BY <1>27, Shape, DiesDoes DEF OwnInv, AtRest, Keeps, ToPc, At, Running
  <1>28. CASE \E s \in strays : Stray(s)
    <2> PICK s \in strays : Stray(s)
      BY <1>28
    <2>1. \A b \in Builds : /\ folder'.stream[b].pid = folder.stream[b].pid
                            /\ folder.stream[b] = NoStream => folder'.stream[b] = NoStream
      BY StrayDoes DEF NoStream
    <2>2. \A p \in Workers : At(p, {"engine"}) => task[p].build \in Builds
      BY DEF TaskInv, At, Running
    <2> QED
      BY <2>1, <2>2, StrayDoes DEF OwnInv, At
  <1> QED
    BY <1>1, <1>2, <1>3, <1>4, <1>5, <1>6, <1>7, <1>8, <1>9, <1>10, <1>11, <1>12, <1>13, <1>14, <1>15,
       <1>16, <1>17, <1>18, <1>19, <1>20, <1>21, <1>22, <1>23, <1>24, <1>25, <1>26, <1>27, <1>28
    DEF DirNext, Step, LockStep, ContentStep, ConfigStep, EngineStep

\* A run is judged once, from what it read back, how its engine ended and what the guard saw.
LEMMA VerdictKept ==
    ASSUME TypeOK, TaskInv, OwnInv, VerdictInv, DirNext
    PROVE  VerdictInv'
  <1>1. CASE \E p \in Workers, b \in Builds : Begin(p, "run", b)
    BY <1>1 DEF Begin, AtRest, VerdictInv, PublishedIsEarned, At
  <1>2. CASE \E p \in Workers : BeginPrune(p)
    BY <1>2 DEF BeginPrune, Begin, AtRest, VerdictInv, PublishedIsEarned, At
  <1>3. CASE \E p \in Workers : Create(p)
    BY <1>3, Shape, CreateDoes DEF VerdictInv, PublishedIsEarned, TaskParts, ToPc, At
  <1>4. CASE \E p \in Workers : Stamp(p)
    BY <1>4 DEF Stamp, VerdictInv, PublishedIsEarned, At, Goes
  <1>5. CASE \E p \in Workers : Look(p)
    BY <1>5, Shape DEF Look, VerdictInv, PublishedIsEarned, TaskParts, At, Goes
  <1>6. CASE \E p \in Workers : Clear(p)
    BY <1>6, Shape DEF Clear, VerdictInv, PublishedIsEarned, Deciding, TaskInv, FolderParts, At
  <1>7. CASE \E p \in Workers : Unlock(p)
    BY <1>7 DEF Unlock, VerdictInv, PublishedIsEarned, At, Goes
  <1>8. CASE \E p \in Workers : removeAbandonedStream(p)
    BY <1>8 DEF removeAbandonedStream, VerdictInv, PublishedIsEarned, At, Goes
  <1>9. CASE \E p \in Workers : Provision(p)
    <2> PICK p \in Workers : Provision(p)
      BY <1>9
    <2>0. At(p, {"provision"}) /\ strays' = strays /\ past'.raced = past.raced
      BY ProvisionDoes DEF Keeps
    <2>1. CASE ToPc(p, {"heal", "package"})
      BY <2>0, <2>1 DEF VerdictInv, ToPc, PublishedIsEarned, At
    <2>2. CASE task' = [task EXCEPT ![p].said = "error", ![p].pc = "unlock"]
      BY <2>0, <2>2, Shape DEF TaskParts, At
    <2> QED
      BY <2>1, <2>2, ProvisionDoes
  <1>10. CASE \E p \in Workers : Package(p)
    BY <1>10 DEF Package, VerdictInv, PublishedIsEarned, At, Goes
  <1>11. CASE \E p \in Workers : PackageFails(p)
    BY <1>11, Shape DEF PackageFails, Upset, Fails, VerdictInv, PublishedIsEarned, Deciding, TaskInv, At
  <1>12. CASE \E p \in Workers : Leftovers(p)
    BY <1>12 DEF Leftovers, VerdictInv, PublishedIsEarned, At, Goes
  <1>13. CASE \E p \in Workers : Over(p)
    <2> PICK p \in Workers : Over(p)
      BY <1>13
    <2>1. At(p, {"over"}) /\ past' = past
      BY OverDoes
    <2>2. ~task[p].tripped /\ task[p].said = "nothing"
      BY <2>1 DEF TaskInv, Deciding, At
    <2>3. CASE task' = task
      BY <2>1, <2>3 DEF VerdictInv, PublishedIsEarned, At
    <2>4. CASE ToPc(p, {"unlock"})
      BY <2>1, <2>2, <2>4 DEF VerdictInv, PublishedIsEarned, ToPc, At
    <2> QED
      BY <2>3, <2>4, OverDoes
  <1>14. CASE \E p \in Workers : Heal(p)
    BY <1>14, Shape, HealDoes DEF VerdictInv, PublishedIsEarned, AtRest, TaskParts, ToPc, At, Running, Deciding
  <1>15. CASE \E p \in Workers : Backup(p)
    BY <1>15, Shape DEF Backup, Fails, TaskParts, At
  <1>16. CASE \E p \in Workers : Seed(p)
    BY <1>16, Shape DEF Seed, Fails, VerdictInv, PublishedIsEarned, TaskParts, At, Goes
  <1>17. CASE \E p \in Workers : Restore(p)
    BY <1>17, Shape, RestoreDoes
    DEF VerdictInv, PublishedIsEarned, AtRest, TaskParts, ToPc, At, Running, Deciding
  <1>18. CASE \E p \in Workers : Launch(p)
    BY <1>18, Shape DEF Launch, Fails, VerdictInv, PublishedIsEarned, TaskParts, At
  <1>19. CASE \E p \in Workers : WidgetLoads(p)
    BY <1>19, Shape DEF WidgetLoads, VerdictInv, PublishedIsEarned, At
  <1>20. CASE \E p \in Workers : Simulates(p)
    BY <1>20 DEF Simulates, VerdictInv, PublishedIsEarned, At
  <1>21. CASE \E p \in Workers : EngineEnds(p)
    BY <1>21, Shape DEF EngineEnds, Upset, VerdictInv, PublishedIsEarned, TaskParts, At
  <1>22. CASE \E p \in Workers : killEngine(p)
    BY <1>22 DEF killEngine, VerdictInv, PublishedIsEarned, At
  <1>23. CASE \E p \in Workers : WatchMemory(p)
    BY <1>23 DEF WatchMemory, Upset, VerdictInv, PublishedIsEarned, At
  <1>24. CASE \E p \in Workers : Cancel(p)
    BY <1>24 DEF Cancel, Upset, VerdictInv, PublishedIsEarned, At
  <1>25. CASE \E p \in Workers : Consume(p)
    BY <1>25, Shape DEF Consume, VerdictInv, PublishedIsEarned, Deciding, TaskInv, At
  <1>26. CASE \E p \in Workers : Judge(p)
    BY <1>26, Shape DEF Judge, TaskParts, At
  <1>27. CASE \E p \in Workers : Dies(p)
    BY <1>27, Shape, DiesDoes DEF VerdictInv, PublishedIsEarned, AtRest, ToPc, At, Running, Deciding
  <1>28. CASE \E s \in strays : Stray(s)
    BY <1>28 DEF Stray, VerdictInv, PublishedIsEarned, At
  <1> QED
    BY <1>1, <1>2, <1>3, <1>4, <1>5, <1>6, <1>7, <1>8, <1>9, <1>10, <1>11, <1>12, <1>13, <1>14, <1>15,
       <1>16, <1>17, <1>18, <1>19, <1>20, <1>21, <1>22, <1>23, <1>24, <1>25, <1>26, <1>27, <1>28
    DEF DirNext, Step, LockStep, ContentStep, ConfigStep, EngineStep

\* Pool files go only where a prune is alone with the packages, and every package that comes has
\* its own in the pool first.
LEMMA ContentKept ==
    ASSUME TypeOK, AloneInv, TaskInv, ContentInv, DirNext
    PROVE  ContentInv'
  <1>1. CASE \E p \in Workers, b \in Builds : Begin(p, "run", b)
    BY <1>1 DEF Begin, ContentInv, At, Goes
  <1>2. CASE \E p \in Workers : BeginPrune(p)
    BY <1>2 DEF BeginPrune, Begin, ContentInv, At, Goes
  <1>3. CASE \E p \in Workers : Create(p)
    BY <1>3, Shape, CreateDoes DEF ContentInv, TaskParts, Keeps, ToPc, At
  <1>4. CASE \E p \in Workers : Stamp(p)
    BY <1>4 DEF Stamp, ContentInv, At, Goes
  <1>5. CASE \E p \in Workers : Look(p)
    BY <1>5, Shape DEF Look, ContentInv, TaskParts, At, Goes
  <1>6. CASE \E p \in Workers : Clear(p)
    BY <1>6, Shape DEF Clear, ContentInv, At, Goes
  <1>7. CASE \E p \in Workers : Unlock(p)
    BY <1>7 DEF Unlock, ContentInv, At, Goes
  <1>8. CASE \E p \in Workers : removeAbandonedStream(p)
    BY <1>8 DEF removeAbandonedStream, ContentInv, At, Goes
  <1>9. CASE \E p \in Workers : Provision(p)
    <2> PICK p \in Workers : Provision(p)
      BY <1>9
    <2> DEFINE b == task[p].build
    <2>1. b \in Builds /\ folder.packages \in Seq(Builds)
      BY DEF Provision, TaskInv, At, TypeOK, Folder
    <2>2. \A q \in Workers : task'[q].build = task[q].build /\ (q # p => task'[q].pc = task[q].pc)
      BY Shape DEF Provision, Goes, Fails, TaskParts
    <2>3. strays' = strays /\ past'.raced = past.raced
      BY ProvisionDoes
    <2>4. CASE b \in ToSet(folder.packages) /\ folder' = [folder EXCEPT !.packages = Touched(b)] /\ Goes(p, "heal")
      <3>1. FilesOf[b] \subseteq Listed(folder.packages)
        BY <2>4 DEF Listed, ToSet
      <3>2. Listed(Touched(b)) \subseteq Listed(folder.packages)
        BY <2>1, <3>1, TouchedHas
      <3>3. folder'.packages = Touched(b) /\ folder'.pool = folder.pool /\ task'[p].pc = "heal"
        BY <2>4, Shape DEF Goes
      <3> QED
        BY <2>2, <2>3, <3>2, <3>3 DEF ContentInv, At
    <2>5. CASE folder' = [folder EXCEPT !.pool = @ \cup FilesOf[b], !.half = @ \cup {b}] /\ Goes(p, "package")
      <3>1. folder'.packages = folder.packages /\ folder'.pool = folder.pool \cup FilesOf[b]
        BY <2>5
      <3> QED
        BY <2>2, <2>3, <3>1 DEF ContentInv, At
    <2>6. CASE folder' = folder /\ Fails(p)
      <3>1. task'[p].pc # "package"
        BY <2>6, Shape DEF Fails
      <3> QED
        BY <2>2, <2>3, <2>6, <3>1 DEF ContentInv, At
    <2> QED
      BY <2>4, <2>5, <2>6 DEF Provision
  <1>10. CASE \E p \in Workers : Package(p)
    <2> PICK p \in Workers : Package(p)
      BY <1>10
    <2> DEFINE b == task[p].build
    <2>1. b \in Builds /\ At(p, {"package"}) /\ folder.packages \in Seq(Builds)
      BY DEF Package, TaskInv, At, TypeOK, Folder
    <2>2. Listed(Touched(b)) \subseteq Listed(folder.packages) \cup FilesOf[b]
      BY <2>1, TouchedHas
    <2>3. folder'.packages = Touched(b) /\ folder'.pool = folder.pool /\ UNCHANGED <<strays, past>>
      BY DEF Package
    <2>4. \A q \in Workers : task'[q].build = task[q].build /\ (q # p => task'[q].pc = task[q].pc) /\ task'[p].pc = "heal"
      BY Shape DEF Package, Goes
    <2> QED
      BY <2>1, <2>2, <2>3, <2>4 DEF ContentInv, At
  <1>11. CASE \E p \in Workers : PackageFails(p)
    BY <1>11, Shape DEF PackageFails, Upset, Fails, ContentInv, At, Goes
  <1>12. CASE \E p \in Workers : Leftovers(p)
    <2> PICK p \in Workers : Leftovers(p)
      BY <1>12
    <2>1. strays = {} /\ \A q \in Workers : q # p => ~At(q, {"package"})
      BY LeftoversDoes DEF DirNext, AloneInv, Holds, At, Opening
    <2>2. \A q \in Workers : (q # p => task'[q].pc = task[q].pc) /\ task'[p].pc = "over"
      BY LeftoversDoes, Shape DEF ToPc, TaskParts
    <2> QED
      BY <2>1, <2>2, LeftoversDoes DEF ContentInv, At, Keeps
  <1>13. CASE \E p \in Workers : Over(p)
    <2> PICK p \in Workers : Over(p)
      BY <1>13
    <2>1. strays = {} /\ \A q \in Workers : ~At(q, {"package"})
      BY OverDoes DEF DirNext, AloneInv, Holds, At, Opening
    <2>2. strays' = strays /\ past' = past /\ \A q \in Workers : ~At(q, {"package"})'
      BY <2>1, OverDoes, Shape DEF ToPc, TaskParts, At
    <2>3. CASE folder' = folder
      BY <2>2, <2>3 DEF ContentInv
    <2>4. CASE Len(folder.packages) > 1 /\ folder' = gcPool([folder EXCEPT !.packages = Tail(@)])
      <3> DEFINE d == [folder EXCEPT !.packages = Tail(@)]
      <3>1. DOMAIN d = FolderParts /\ d.packages = Tail(folder.packages) /\ d.pool = folder.pool
        BY Shape DEF FolderParts
      <3>2. folder' = [d EXCEPT !.pool = d.pool \cap Listed(d.packages)]
        BY <2>4 DEF gcPool
      <3> HIDE DEF d
      <3>3. folder'.packages = Tail(folder.packages) /\ folder'.pool = folder.pool \cap Listed(Tail(folder.packages))
        BY <3>1, <3>2
      <3>4. Listed(Tail(folder.packages)) \subseteq Listed(folder.packages)
        BY <2>4, TailHas DEF TypeOK, Folder
      <3> QED
        BY <2>1, <2>2, <3>3, <3>4 DEF ContentInv
    <2> QED
      BY <2>3, <2>4 DEF Over
  <1>14. CASE \E p \in Workers : Heal(p)
    BY <1>14, Shape, HealDoes DEF ContentInv, TaskParts, Keeps, ToPc, At
  <1>15. CASE \E p \in Workers : Backup(p)
    BY <1>15, Shape DEF Backup, Fails, TaskParts, At, Goes
  <1>16. CASE \E p \in Workers : Seed(p)
    BY <1>16, Shape DEF Seed, Fails, ContentInv, FolderParts, TaskParts, At, Goes
  <1>17. CASE \E p \in Workers : Restore(p)
    BY <1>17, Shape, RestoreDoes DEF ContentInv, TaskParts, Keeps, ToPc, At
  <1>18. CASE \E p \in Workers : Launch(p)
    BY <1>18, Shape DEF Launch, Fails, ContentInv, TaskParts, At, Goes
  <1>19. CASE \E p \in Workers : WidgetLoads(p)
    BY <1>19, Shape DEF WidgetLoads, ContentInv, At, Goes
  <1>20. CASE \E p \in Workers : Simulates(p)
    BY <1>20 DEF Simulates, ContentInv, At, Goes
  <1>21. CASE \E p \in Workers : EngineEnds(p)
    BY <1>21, Shape DEF EngineEnds, Upset, ContentInv, TaskParts, At, Goes
  <1>22. CASE \E p \in Workers : killEngine(p)
    BY <1>22 DEF killEngine, ContentInv, At, Goes
  <1>23. CASE \E p \in Workers : WatchMemory(p)
    BY <1>23 DEF WatchMemory, Upset, ContentInv, At, Goes
  <1>24. CASE \E p \in Workers : Cancel(p)
    BY <1>24 DEF Cancel, Upset, ContentInv, At, Goes
  <1>25. CASE \E p \in Workers : Consume(p)
    BY <1>25, Shape DEF Consume, ContentInv, At, Goes
  <1>26. CASE \E p \in Workers : Judge(p)
    BY <1>26, Shape DEF Judge, ContentInv, At, Goes
  <1>27. CASE \E p \in Workers : Dies(p)
    <2> PICK p \in Workers : Dies(p)
      BY <1>27
    <2>1. PICK left \in SUBSET Children(p) : strays' = strays \cup left
      BY DiesDoes
    <2>2. \A c \in left : ~c.engine => At(p, {"package"}) /\ c.build = task[p].build
      <3> DEFINE k == [engine |-> At(p, {"engine"}), build |-> task[p].build, pid |-> task[p].pid]
      <3>1. left \subseteq {k} /\ (left # {} => At(p, {"package"}) \/ At(p, {"engine"}))
        BY <2>1 DEF Children
      <3>2. (k.engine <=> At(p, {"engine"})) /\ k.build = task[p].build
        BY Zenon
      <3> HIDE DEF k
      <3> QED
        BY <3>1, <3>2
    <2>3. task'[p].pc = "idle" /\ \A q \in Workers : q # p => task'[q] = task[q]
      BY DiesDoes, Shape DEF AtRest
    <2>4. past'.raced = past.raced /\ folder'.packages = folder.packages /\ folder'.pool = folder.pool
      BY DiesDoes DEF Keeps
    <2> QED
      BY <2>1, <2>2, <2>3, <2>4 DEF ContentInv, At
  <1>28. CASE \E s \in strays : Stray(s)
    <2> PICK s \in strays : Stray(s)
      BY <1>28
    <2>1. s.build \in Builds /\ folder.packages \in Seq(Builds)
      BY DEF TypeOK, Folder
    <2>2. Listed(Touched(s.build)) \subseteq Listed(folder.packages) \cup FilesOf[s.build]
      BY <2>1, TouchedHas
    <2> QED
      BY <2>2, StrayDoes DEF ContentInv, At, Keeps
  <1> QED
    BY <1>1, <1>2, <1>3, <1>4, <1>5, <1>6, <1>7, <1>8, <1>9, <1>10, <1>11, <1>12, <1>13, <1>14, <1>15,
       <1>16, <1>17, <1>18, <1>19, <1>20, <1>21, <1>22, <1>23, <1>24, <1>25, <1>26, <1>27, <1>28
    DEF DirNext, Step, LockStep, ContentStep, ConfigStep, EngineStep

\* The config as the one process in the folder finds it.
ConfigAt(p) ==
    /\ past.cfg = "user" => \/ past.cut
                            \/ /\ (IF folder.bak # Absent THEN folder.bak ELSE folder.cfg) = "user"
                               /\ At(p, {"backup"}) => folder.bak = Absent
                               /\ At(p, Seeded) => task[p].existed /\ folder.bak = "user"
    /\ past.cfg # "user" => \/ past.bare
                            \/ /\ folder.cfg = Absent \/ At(p, Running \cup {"restore"})
                               /\ folder.bak = Absent /\ (At(p, Seeded) => ~task[p].existed)

\* What the invariant says of it.
LEMMA HolderConfig ==
    ASSUME TypeOK, AloneInv, ConfigInv, ~past.raced, NEW p \in Workers, Holds(p)
    PROVE  ConfigAt(p)
  <1>1. past.cfg \in {"user", Absent}
    BY DEF TypeOK, Past
  <1>2. \A q \in Workers : At(q, Running \cup {"restore"}) => q = p
    BY DEF AloneInv, Holds, At, Opening, Running
  <1> QED
    BY <1>1, <1>2 DEF ConfigAt, ConfigInv, ConfigKept

\* It is the whole of it: no other process is anywhere near.
LEMMA ConfigOfHolder ==
    ASSUME TypeOK, AloneInv, ~past.raced, NEW p \in Workers, Holds(p),
           past'.cfg = past.cfg, \A q \in Workers : q # p => task'[q] = task[q], ConfigAt(p)'
    PROVE  ConfigInv'
  <1>1. past'.cfg \in {"user", Absent}
    BY DEF TypeOK, Past
  <1>2. \A q \in Workers : q # p => ~At(q, Seeded \cup {"backup"})'
    BY DEF AloneInv, Holds, At, Opening, Running, Seeded
  <1> QED
    BY <1>2 DEF ConfigAt, ConfigInv, ConfigKept, At, Absent

\* Each step of the one in the folder takes the config on, from wherever it found it.
LEMMA ConfigKeeps ==
    ASSUME TypeOK, AloneInv, ConfigInv, DirNext
    PROVE  ConfigInv'
  <1>1. CASE \E p \in Workers, b \in Builds : Begin(p, "run", b)
    BY <1>1 DEF Begin, ConfigInv, ConfigKept, Seeded, At, Running, Goes
  <1>2. CASE \E p \in Workers : BeginPrune(p)
    BY <1>2 DEF BeginPrune, Begin, ConfigInv, ConfigKept, Seeded, At, Running, Goes
  <1>3. CASE \E p \in Workers : Create(p)
    BY <1>3, Shape, CreateDoes DEF ConfigInv, ConfigKept, Seeded, TaskParts, At, Running, Keeps, ToPc
  <1>4. CASE \E p \in Workers : Stamp(p)
    BY <1>4 DEF Stamp, ConfigInv, ConfigKept, Seeded, At, Running, Goes
  <1>5. CASE \E p \in Workers : Look(p)
    BY <1>5, Shape DEF Look, ConfigInv, ConfigKept, Seeded, TaskParts, At, Running, Goes
  <1>6. CASE \E p \in Workers : Clear(p)
    BY <1>6, Shape DEF Clear, TaskParts, At, Goes
  <1>7. CASE \E p \in Workers : Unlock(p)
    BY <1>7 DEF Unlock, ConfigInv, ConfigKept, Seeded, At, Running, Goes
  <1>8. CASE \E p \in Workers : removeAbandonedStream(p)
    BY <1>8 DEF removeAbandonedStream, ConfigInv, ConfigKept, Seeded, At, Running, Goes
  <1>9. CASE \E p \in Workers : Provision(p)
    <2> PICK p \in Workers : Provision(p)
      BY <1>9
    <2>0. /\ At(p, {"provision"}) /\ folder'.cfg = folder.cfg /\ folder'.bak = folder.bak
          /\ past'.raced = past.raced /\ past'.cfg = past.cfg /\ past'.cut = past.cut /\ past'.bare = past.bare
      BY ProvisionDoes DEF Keeps
    <2>1. task'[p].pc \notin Seeded \cup {"backup"} /\ \A q \in Workers : q # p => task'[q] = task[q]
      <3>1. CASE ToPc(p, {"heal", "package"})
        BY <3>1, Shape DEF ToPc, Seeded, Running
      <3>2. CASE task' = [task EXCEPT ![p].said = "error", ![p].pc = "unlock"]
        BY <3>2, Shape DEF Seeded, Running
      <3> QED
        BY <3>1, <3>2, ProvisionDoes
    <2> QED
      BY <2>0, <2>1 DEF ConfigInv, ConfigKept, At, Running
  <1>10. CASE \E p \in Workers : Package(p)
    BY <1>10 DEF Package, ConfigInv, ConfigKept, Seeded, At, Running, Goes
  <1>11. CASE \E p \in Workers : PackageFails(p)
    BY <1>11, Shape DEF PackageFails, Fails, TaskParts, At, Goes
  <1>12. CASE \E p \in Workers : Leftovers(p)
    BY <1>12, Shape, LeftoversDoes DEF ConfigInv, ConfigKept, Seeded, TaskParts, At, Running, Keeps, ToPc
  <1>13. CASE \E p \in Workers : Over(p)
    BY <1>13, Shape, OverDoes DEF ConfigInv, ConfigKept, Seeded, TaskParts, At, Running, Keeps, ToPc
  <1>14. CASE \E p \in Workers : Heal(p)
    <2> PICK p \in Workers : Heal(p)
      BY <1>14
    <2>1. At(p, {"heal"}) /\ ~past.raced
      BY DEF Heal, DirNext
    <2>2. Holds(p) /\ ConfigAt(p)
      BY <2>1, HolderConfig DEF Holds, At, Opening
    <2>3. past'.cfg = past.cfg /\ \A q \in Workers : q # p => task'[q] = task[q]
      BY Shape DEF Heal, Goes, WriteFails
    <2> SUFFICES ConfigAt(p)'
      BY <2>1, <2>2, <2>3, ConfigOfHolder
    <2>4. CASE folder.bak = Absent /\ Goes(p, "backup") /\ UNCHANGED <<folder, past>>
      <3>1. task'[p].pc = "backup"
        BY <2>4, Shape DEF Goes
      <3> QED
        BY <2>1, <2>2, <2>4, <3>1 DEF ConfigAt, At, Seeded, Running
    <2>5. CASE folder.bak # Absent /\ folder' = [folder EXCEPT !.cfg = folder.bak] /\ UNCHANGED <<task, past>>
      <3>1. folder'.cfg = folder.bak /\ folder'.bak = folder.bak
        BY <2>5
      <3> QED
        BY <2>2, <2>5 DEF ConfigAt, At
    <2>6. CASE folder.bak # Absent /\ WriteFails /\ folder' = [folder EXCEPT !.cfg = Cut, !.bak = Absent] /\ Goes(p, "backup")
      <3>1. past'.cut /\ past'.bare = past.bare /\ past'.cfg = past.cfg
        BY <2>6 DEF WriteFails
      <3> QED
        BY <2>2, <2>6, <3>1 DEF ConfigAt
    <2>7. CASE folder.cfg = folder.bak /\ folder.bak # Absent /\ folder' = [folder EXCEPT !.bak = Absent] /\ Goes(p, "backup") /\ UNCHANGED past
      <3>1. folder'.cfg = folder.cfg /\ folder'.bak = Absent /\ task'[p].pc = "backup"
        BY <2>7, Shape DEF Goes
      <3> QED
        BY <2>2, <2>7, <3>1 DEF ConfigAt, At, Seeded, Running
    <2> QED
      BY <2>4, <2>5, <2>6, <2>7 DEF Heal
  <1>15. CASE \E p \in Workers : Backup(p)
    <2> PICK p \in Workers : Backup(p)
      BY <1>15
    <2>1. At(p, {"backup"}) /\ ~past.raced
      BY DEF Backup, DirNext
    <2>2. Holds(p) /\ ConfigAt(p)
      BY <2>1, HolderConfig DEF Holds, At, Opening
    <2>3. past'.cfg = past.cfg /\ \A q \in Workers : q # p => task'[q] = task[q]
      BY Shape DEF Backup, WriteFails, Fails
    <2> SUFFICES ConfigAt(p)'
      BY <2>1, <2>2, <2>3, ConfigOfHolder
    <2> DEFINE there == folder.cfg # Absent
    <2>4. CASE /\ folder' = IF there THEN [folder EXCEPT !.bak = folder.cfg] ELSE folder
               /\ task' = [task EXCEPT ![p].existed = there, ![p].pc = "seed"] /\ UNCHANGED past
      <3>1. task'[p].pc = "seed" /\ task'[p].existed = there
        BY <2>4, Shape
      <3>2. folder'.cfg = folder.cfg /\ folder'.bak = IF there THEN folder.cfg ELSE folder.bak
        BY <2>4
      <3> QED
        BY <2>1, <2>2, <2>4, <3>1, <3>2 DEF ConfigAt, At, Running, Absent
    <2>5. CASE there /\ WriteFails
      <3>1. past'.cut /\ past'.bare = past.bare /\ past'.cfg = past.cfg
        BY <2>5 DEF WriteFails
      <3> QED
        BY <2>1, <2>2, <2>5, <3>1 DEF ConfigAt, At, Running
    <2> QED
      BY <2>4, <2>5 DEF Backup
  <1>16. CASE \E p \in Workers : Seed(p)
    <2> PICK p \in Workers : Seed(p)
      BY <1>16
    <2>1. At(p, {"seed"}) /\ ~past.raced
      BY DEF Seed, DirNext
    <2>2. Holds(p) /\ ConfigAt(p)
      BY <2>1, HolderConfig DEF Holds, At, Opening
    <2>3. past'.cfg = past.cfg /\ \A q \in Workers : q # p => task'[q] = task[q]
      BY Shape DEF Seed, Goes, Fails
    <2> SUFFICES ConfigAt(p)'
      BY <2>1, <2>2, <2>3, ConfigOfHolder
    <2>4. CASE folder' = [folder EXCEPT !.cfg = "seed"] /\ Goes(p, "launch") /\ UNCHANGED past
      <3>1. folder'.bak = folder.bak /\ task'[p].pc = "launch" /\ task'[p].existed = task[p].existed
        BY <2>4, Shape DEF Goes
      <3> QED
        BY <2>1, <2>2, <2>4, <3>1 DEF ConfigAt, At, Seeded, Running, Absent
    <2>5. CASE /\ folder' = [folder EXCEPT !.cfg = Cut] /\ Fails(p)
               /\ past' = [past EXCEPT !.upsets = @ + 1, !.bare = @ \/ ~task[p].existed]
      <3>1. folder'.bak = folder.bak /\ task'[p].pc = "unlock"
        BY <2>1, <2>5, Shape DEF Fails, TaskParts, At
      <3>2. past'.cut = past.cut /\ past'.bare = (past.bare \/ ~task[p].existed) /\ past'.cfg = past.cfg
        BY <2>5, Shape
      <3> QED
        BY <2>1, <2>2, <3>1, <3>2 DEF ConfigAt, At, Seeded, Running, Absent
    <2> QED
      BY <2>4, <2>5 DEF Seed
  <1>17. CASE \E p \in Workers : Restore(p)
    <2> PICK p \in Workers : Restore(p)
      BY <1>17
    <2>1. At(p, {"restore"}) /\ ~past.raced
      BY DEF Restore, DirNext
    <2>2. Holds(p) /\ ConfigAt(p)
      BY <2>1, HolderConfig DEF Holds, At, Opening
    <2>3. past'.cfg = past.cfg /\ \A q \in Workers : q # p => task'[q] = task[q]
      BY Shape DEF Restore, Goes, WriteFails
    <2> SUFFICES ConfigAt(p)'
      BY <2>1, <2>2, <2>3, ConfigOfHolder
    <2>4. CASE ~task[p].existed /\ folder' = [folder EXCEPT !.cfg = Absent, !.bak = Absent] /\ Goes(p, "unlock") /\ UNCHANGED past
      <3>1. folder'.cfg = Absent /\ folder'.bak = Absent /\ task'[p].pc = "unlock"
        BY <2>4, Shape DEF Goes
      <3> QED
        BY <2>1, <2>2, <2>4, <3>1 DEF ConfigAt, At, Seeded, Running
    <2>5. CASE task[p].existed /\ folder' = [folder EXCEPT !.cfg = folder.bak] /\ UNCHANGED <<task, past>>
      <3>1. folder'.cfg = folder.bak /\ folder'.bak = folder.bak
        BY <2>5
      <3> QED
        BY <2>1, <2>2, <2>5 DEF ConfigAt, At, Seeded
    <2>6. CASE task[p].existed /\ WriteFails /\ folder' = [folder EXCEPT !.cfg = Cut, !.bak = Absent] /\ Goes(p, "unlock")
      <3>1. past'.cut /\ past'.bare = past.bare /\ past'.cfg = past.cfg
        BY <2>6 DEF WriteFails
      <3> QED
        BY <2>1, <2>2, <2>6, <3>1 DEF ConfigAt, At, Seeded
    <2>7. CASE /\ task[p].existed /\ (folder.bak = Absent \/ folder.cfg = folder.bak)
               /\ folder' = [folder EXCEPT !.bak = Absent] /\ Goes(p, "unlock") /\ UNCHANGED past
      <3>1. folder'.cfg = folder.cfg /\ folder'.bak = Absent /\ task'[p].pc = "unlock"
        BY <2>7, Shape DEF Goes
      <3> QED
        BY <2>2, <2>7, <3>1 DEF ConfigAt, At, Seeded, Running
    <2> QED
      BY <2>4, <2>5, <2>6, <2>7 DEF Restore
  <1>18. CASE \E p \in Workers : Launch(p)
    BY <1>18, Shape DEF Launch, Fails, ConfigInv, ConfigKept, Seeded, TaskParts, At, Running, Goes
  <1>19. CASE \E p \in Workers : WidgetLoads(p)
    BY <1>19, Shape DEF WidgetLoads, ConfigInv, ConfigKept, At, Goes
  <1>20. CASE \E p \in Workers : Simulates(p)
    BY <1>20 DEF Simulates, ConfigInv, ConfigKept, At, Goes
  <1>21. CASE \E p \in Workers : EngineEnds(p)
    BY <1>21, Shape DEF EngineEnds, Upset, ConfigInv, ConfigKept, TaskParts, At, Goes
  <1>22. CASE \E p \in Workers : killEngine(p)
    BY <1>22 DEF killEngine, ConfigInv, ConfigKept, At, Goes
  <1>23. CASE \E p \in Workers : WatchMemory(p)
    BY <1>23 DEF WatchMemory, Upset, ConfigInv, ConfigKept, At, Goes
  <1>24. CASE \E p \in Workers : Cancel(p)
    BY <1>24 DEF Cancel, Upset, ConfigInv, ConfigKept, At, Goes
  <1>25. CASE \E p \in Workers : Consume(p)
    BY <1>25, Shape DEF Consume, ConfigInv, ConfigKept, Seeded, At, Running, Goes
  <1>26. CASE \E p \in Workers : Judge(p)
    BY <1>26, Shape DEF Judge, TaskParts, At, Goes
  <1>27. CASE \E p \in Workers : Dies(p)
    <2> PICK p \in Workers : Dies(p)
      BY <1>27
    <2>1. PICK broken \in SUBSET Writing(p) :
            /\ folder' = [f \in DOMAIN folder |-> IF f \in broken THEN Cut ELSE folder[f]]
            /\ past' = [past EXCEPT !.upsets = @ + 1, !.pids = @ + 1, !.cut = @ \/ "bak" \in broken,
                  !.bare = @ \/ (~task[p].existed /\ (At(p, Running \cup {"restore"}) \/ (At(p, {"seed"}) /\ "cfg" \in broken)))]
      BY DEF Dies
    <2> DEFINE left == ~task[p].existed /\ (At(p, Running \cup {"restore"}) \/ (At(p, {"seed"}) /\ "cfg" \in broken))
    <2>2. /\ past'.raced = past.raced /\ past'.cfg = past.cfg
          /\ past'.cut = (past.cut \/ "bak" \in broken) /\ past'.bare = (past.bare \/ left)
      BY <2>1, Shape
    <2>3. /\ folder'.cfg = IF "cfg" \in broken THEN Cut ELSE folder.cfg
          /\ folder'.bak = IF "bak" \in broken THEN Cut ELSE folder.bak
      BY <2>1, Shape DEF FolderParts
    <2>4. task'[p].pc = "idle" /\ \A q \in Workers : q # p => task'[q] = task[q]
      BY DiesDoes, Shape DEF AtRest
    <2>5. CASE Holds(p)
      <3>1. ~past.raced /\ ConfigAt(p)
        BY <2>5, HolderConfig DEF DirNext
      <3>2. /\ "cfg" \in broken => At(p, {"seed"}) \/ (At(p, {"heal", "restore"}) /\ folder.bak \notin {Absent, folder.cfg})
            /\ "bak" \in broken => At(p, {"backup"}) /\ folder.cfg # Absent
        BY <2>1 DEF Writing
      <3>3. ConfigAt(p)'
        BY <2>2, <2>3, <2>4, <3>1, <3>2 DEF ConfigAt, At, Seeded, Running, Absent
      <3> QED
        BY <2>2, <2>4, <2>5, <3>1, <3>3, ConfigOfHolder
    <2>6. CASE ~Holds(p)
      <3>1. ~At(p, Seeded \cup {"heal", "backup"})
        BY <2>6 DEF Holds, At, Opening, Seeded, Running
      <3>2. broken = {} /\ ~left
        BY <3>1 DEF Writing, At, Seeded
      <3> QED
        BY <2>2, <2>3, <2>4, <3>1, <3>2 DEF ConfigInv, ConfigKept, Seeded, At, Running
    <2> QED
      BY <2>5, <2>6
  <1>28. CASE \E s \in strays : Stray(s)
    BY <1>28, StrayDoes DEF ConfigInv, ConfigKept, At, Keeps
  <1> QED
    BY <1>1, <1>2, <1>3, <1>4, <1>5, <1>6, <1>7, <1>8, <1>9, <1>10, <1>11, <1>12, <1>13, <1>14, <1>15,
       <1>16, <1>17, <1>18, <1>19, <1>20, <1>21, <1>22, <1>23, <1>24, <1>25, <1>26, <1>27, <1>28
    DEF DirNext, Step, LockStep, ContentStep, ConfigStep, EngineStep

\* The directory as it is set up, with a config of the user's or none, is as it should be.
LEMMA Initially == DirInit => IInv
  <1> SUFFICES ASSUME DirInit PROVE IInv
    OBVIOUS
  <1>1. PICK cfg \in {"user", Absent}, installed \in Builds :
          /\ folder = [lock |-> Unlocked, cfg |-> cfg, bak |-> Absent, stream |-> [b \in Builds |-> NoStream],
                       packages |-> <<installed>>, half |-> {}, pool |-> FilesOf[installed]]
          /\ past = [cfg |-> cfg, pids |-> Max(Workers), tasks |-> 0, upsets |-> 0,
                     raced |-> FALSE, cut |-> FALSE, bare |-> FALSE]
    BY DEF DirInit
  <1>2. task = [p \in Workers |-> AtRest(p)] /\ strays = {}
    BY DEF DirInit
  <1>3. Max(Workers) \in Workers /\ \A p \in Workers : p <= Max(Workers)
    BY DataDirAssumption DEF Max
  <1>4. Workers \subseteq Nat \ {0}
    BY DataDirAssumption
  <1>5. \A p \in Workers : /\ task[p] = AtRest(p) /\ task[p].pid = p /\ task[p].pc = "idle" /\ task[p].kind = "run"
                           /\ task[p].build = "unset" /\ task[p].said = "nothing"
                           /\ ~task[p].tripped /\ ~task[p].wrote
    BY <1>2 DEF AtRest
  <1>6. /\ folder.lock.pid = 0 /\ folder.bak = Absent /\ folder.cfg = cfg /\ past.cfg = cfg /\ past.pids = Max(Workers)
        /\ folder.packages = <<installed>> /\ folder.pool = FilesOf[installed]
        /\ \A b \in Builds : folder.stream[b] = NoStream /\ folder.stream[b].pid = 0
    BY <1>1 DEF Unlocked, NoStream
  <1>7. TypeOK
    <2>1. folder \in Folder
      <3>1. FilesOf[installed] \in SUBSET Files /\ <<installed>> \in Seq(Builds)
        BY DEF Files
      <3>2. [b \in Builds |-> NoStream] \in [Builds -> Stream] /\ Unlocked \in [pid : Nat, stamped : BOOLEAN]
        BY DEF NoStream, Stream, Unlocked
      <3> QED
        BY <1>1, <3>1, <3>2 DEF Folder, Copies
    <2>2. task \in Tasks
      BY <1>2, <1>4, TaskBegun DEF Tasks
    <2>3. past \in Past
      BY <1>1, <1>3, <1>4 DEF Past
    <2> QED
      BY <1>2, <2>1, <2>2, <2>3 DEF TypeOK
  <1>8. AloneInv /\ LockInv /\ TaskInv /\ OwnInv /\ VerdictInv
    <2>1. AloneInv /\ OwnInv
      BY <1>5 DEF AloneInv, OwnInv, Holds, At
    <2>2. LockInv
      BY <1>4, <1>5, <1>6 DEF LockInv
    <2>3. TaskInv /\ VerdictInv
      BY <1>5 DEF TaskInv, VerdictInv, PublishedIsEarned, At
    <2> QED
      BY <2>1, <2>2, <2>3
  <1>9. PidInv /\ StreamInv
    <2>1. Max(Workers) \in Nat /\ 0 <= Max(Workers)
      <3>1. \A m \in Workers : m \in Nat /\ 0 <= m
        BY <1>4
      <3> QED
        BY <1>3, <3>1, Zenon
    <2>2. PidInv
      BY <1>3, <1>5, <1>6, <2>1 DEF PidInv
    <2>3. StreamInv
      BY <1>4, <1>5, <1>6 DEF StreamInv
    <2> QED
      BY <2>2, <2>3
  <1>10. ContentInv
    <2>1. Listed(folder.packages) = FilesOf[installed]
      BY <1>6 DEF Listed
    <2> QED
      BY <1>2, <1>5, <1>6, <2>1 DEF ContentInv, At
  <1>11. ConfigInv
    BY <1>5, <1>6 DEF ConfigInv, ConfigKept, At, Seeded, Running
  <1> QED
    BY <1>7, <1>8, <1>9, <1>10, <1>11 DEF IInv

\* The inductive invariant holds of every state of the directory that is followed.
THEOREM DirAlways == DirSpec => []IInv
  <1>1. IInv /\ [DirNext]_dirVars => IInv'
    <2> SUFFICES ASSUME IInv, [DirNext]_dirVars PROVE IInv'
      OBVIOUS
    <2>1. CASE DirNext
      <3>1. /\ TypeOK /\ AloneInv /\ PidInv /\ LockInv /\ TaskInv /\ StreamInv /\ OwnInv /\ VerdictInv
            /\ ContentInv /\ ConfigInv
        BY DEF IInv
      <3>2. TypeOK'
        <4>1. task \in Tasks /\ past \in Past /\ past.pids \in Nat /\ \A b \in Builds : folder.stream[b] \in Stream
          BY <3>1 DEF TypeOK, Folder, Past
        <4>2. task' \in Tasks
          BY <2>1, <3>1, <4>1, TaskTyped
        <4>3. folder' \in Folder /\ past' \in Past /\ strays' \subseteq Strays
          BY <2>1, <3>1, <4>1, FolderTyped, PastTyped, StraysTyped
        <4> QED
          BY <4>2, <4>3 DEF TypeOK, Strays
      <3>3. AloneInv' /\ PidInv' /\ LockInv' /\ TaskInv'
        BY <2>1, <3>1, AloneKept, PidKept, LockKept, TaskInvKept
      <3>4. StreamInv' /\ OwnInv' /\ VerdictInv'
        BY <2>1, <3>1, StreamKept, OwnKept, VerdictKept
      <3>5. ContentInv' /\ ConfigInv'
        BY <2>1, <3>1, ContentKept, ConfigKeeps
      <3> QED
        BY <3>2, <3>3, <3>4, <3>5 DEF IInv
    <2>2. CASE UNCHANGED dirVars
      BY <2>2 DEF dirVars, IInv, TypeOK, AloneInv, PidInv, LockInv, TaskInv, StreamInv, OwnInv, VerdictInv,
                  PublishedIsEarned, ContentInv, ConfigInv, ConfigKept, Holds, At
    <2> QED
      BY <2>1, <2>2
  <1> QED
    BY <1>1, Initially, PTL DEF DirSpec

\* While the lock kept the processes apart, the user's config is there, what is installed has all
\* its pool files, no stream stays behind but a killed run's, and no process that is not in the
\* folder keeps others out (EnableWidget, gcPool, removeAbandonedStream, LockDataDir): for any
\* number of processes and builds, killed at any steps.
THEOREM DirStaysKept == DirSpec => []DirIsKept
  <1>1. IInv => DirIsKept
    <2> SUFFICES ASSUME IInv, ~past.raced PROVE DirIsKept
      BY DEF DirIsKept
    <2>1. ConfigKept /\ Listed(folder.packages) \subseteq folder.pool
      BY DEF IInv, ConfigInv, ContentInv
    <2>2. \A b \in Builds, p \in Workers : folder.stream[b].pid = task[p].pid =>
            task[p].build = b /\ At(p, Running \cup {"restore", "unlock", "abandon"})
      BY DEF IInv, StreamInv
    <2>3. ASSUME NEW p \in Workers, readLock = task[p].pid PROVE Holds(p)
      <3>1. task[p].pid # 0
        BY Shape DEF IInv
      <3>2. folder.lock.pid = task[p].pid
        BY <2>3, <3>1 DEF readLock
      <3> QED
        BY <3>2 DEF IInv, LockInv
    <2> QED
      BY <2>1, <2>2, <2>3 DEF DirIsKept
  <1> QED
    BY <1>1, DirAlways, PTL

\* What is published as the game was left by an engine that ended by itself, is no stub, and is
\* what this run's widget wrote if it wrote, and a run the guard stopped says so and nothing else
\* (Run, memGuard): whenever kills, stops and trips fall.
THEOREM PublishedAlwaysEarned == DirSpec => []PublishedIsEarned
  <1>1. IInv => PublishedIsEarned
    BY DEF IInv, VerdictInv
  <1> QED
    BY <1>1, DirAlways, PTL
=============================================================================
