--------------------------- MODULE LavaSyncProofs ---------------------------
(***************************************************************************)
(* That the lava sync never marks a game lavabalance has not taken, for    *)
(* any games, any number of overlapping ticks and any number of faults.    *)
(*                                                                         *)
(* MarkedWasTaken is not inductive: what a tick is about to mark must have *)
(* been taken too (Posted).  A batch is left alone between its POST and    *)
(* its mark, lavabalance never lets go of a game, and only a tick's own    *)
(* steps touch the tick.                                                   *)
(***************************************************************************)
EXTENDS LavaSync, TLAPS

Posted == \A t \in Ticks : At(t, "mark") => \A g \in GamesOf(tick[t].batch) : held[g] # "none"

\* All the proof needs of the types: what a tick is, not how long its run may get.
Fields(rec) == rec = [f \in DOMAIN Idle |-> rec[f]]
Shape == /\ tick = [t \in Ticks |-> tick[t]]
         /\ \A t \in Ticks : Fields(tick[t]) /\ GamesOf(tick[t].batch) \subseteq Games
         /\ held = [g \in Games |-> held[g]]
         /\ mirror \subseteq Games /\ ended \subseteq Games /\ offered \subseteq Games

IInv == Shape /\ MarkedWasTaken /\ Posted

\* What a step of tick t writes into it: rec, with nothing to mark.
Plain(t, rec) == Becomes(t, rec) /\ Fields(rec) /\ GamesOf(rec.batch) \subseteq Games /\ rec.pc # "mark"

\* A record written over has the fields it had.
LEMMA Moves ==
    ASSUME Shape, NEW t \in Ticks, NEW pc, pc # "mark", Goes(t, pc)
    PROVE  Plain(t, [tick[t] EXCEPT !.pc = pc])
  BY DEF Shape, Goes, Plain, Fields, Idle

LEMMA Empty == Fields(Idle) /\ GamesOf(Idle.batch) = {} /\ Idle.pc = "idle"
  BY DEF Fields, Idle, GamesOf

\* A run that is over, or starts, carries no batch.
LEMMA Clears ==
    ASSUME NEW t \in Ticks, NEW pc, pc # "mark", Becomes(t, [Idle EXCEPT !.pc = pc])
    PROVE  Plain(t, [Idle EXCEPT !.pc = pc])
  BY DEF Plain, Fields, Idle, GamesOf

LEMMA SyncsPlainly ==
    ASSUME Shape, NEW t \in Ticks,
           \/ Fire(t) \/ gamesUnknown(t) \/ StartLava(t) \/ NoLava(t)
           \/ \E loaded \in SUBSET Games : gamesInsert(t, loaded)
    PROVE  \E rec : Plain(t, rec)
<1>1. CASE Fire(t)
  BY <1>1, Moves DEF Fire
<1>2. CASE StartLava(t) \/ NoLava(t)
  BY <1>2, Clears DEF StartLava, NoLava, Over
<1>3. CASE gamesUnknown(t)
  <2> DEFINE fresh == ended \ mirror
             pc == IF fresh = {} THEN "lobby" ELSE "insert"
             rec == [tick[t] EXCEPT !.fresh = fresh, !.pc = pc]
  <2>1. Becomes(t, rec)
    BY <1>3 DEF gamesUnknown
  <2>2. Fields(rec) /\ rec.batch = tick[t].batch /\ rec.pc = pc
    BY DEF Shape, Fields, Idle
  <2>3. pc # "mark"
    OBVIOUS
  <2> HIDE DEF rec, pc
  <2>4. Plain(t, rec)
    BY <2>1, <2>2, <2>3 DEF Plain, Shape
  <2>5. QED
    BY <2>4
<1>4. CASE \E loaded \in SUBSET Games : gamesInsert(t, loaded)
  <2> PICK loaded \in SUBSET Games : gamesInsert(t, loaded)
    BY <1>4
  <2> DEFINE rec == [tick[t] EXCEPT !.pc = "lobby", !.triggered = loaded # {}, !.fresh = {}]
  <2>1. Becomes(t, rec)
    BY DEF gamesInsert
  <2>2. Fields(rec) /\ rec.batch = tick[t].batch /\ rec.pc = "lobby"
    BY ZenonT(30) DEF Shape, Fields, Idle
  <2>3. QED
    BY <2>1, <2>2 DEF Plain, Shape
<1>5. QED
  BY <1>1, <1>2, <1>3, <1>4

\* The tick of a gamesLavaPending with a batch in hand.
Fill(old, items, more, taken, count) ==
    [old EXCEPT !.batch = items, !.more = more, !.taken = taken, !.count = count, !.pc = "fetch"]

LEMMA Filled ==
    ASSUME NEW old, Fields(old), NEW items, NEW more, NEW taken, NEW count
    PROVE  LET rec == Fill(old, items, more, taken, count)
           IN  Fields(rec) /\ rec.batch = items /\ rec.pc = "fetch"
  BY DEF Fields, Idle, Fill

LEMMA OffersPlainly ==
    ASSUME Shape, NEW t \in Ticks,
           \/ gamesLavaPending(t) \/ AfterLobby(t) \/ PostFails(t) \/ Kill(t)
           \/ \E loaded \in SUBSET tick[t].batch : FetchDetails(t, loaded)
    PROVE  \E rec : Plain(t, rec)
<1>1. CASE gamesLavaPending(t)
  <2> DEFINE batch == Oldest(Room(t))
             items == {[game |-> g, lobby |-> g \in named] : g \in batch}
             more == LavaPending # batch
             taken == tick[t].taken \cup batch
             count == tick[t].count + Cardinality(batch)
             rec == Fill(tick[t], items, more, taken, count)
  <2>1. CASE Becomes(t, Over)
    BY <2>1, Clears DEF Over
  <2>2. CASE ~Becomes(t, Over)
    <3>1. Becomes(t, rec)
      BY <1>1, <2>2 DEF gamesLavaPending, Fill
    <3>2. Fields(rec) /\ rec.batch = items /\ rec.pc = "fetch"
      <4>1. Fields(tick[t])
        BY DEF Shape
      <4> HIDE DEF items, more, taken, count
      <4>2. QED
        BY <4>1, Filled
    <3>3. GamesOf(items) \subseteq Games
      <4> SUFFICES ASSUME NEW i \in items PROVE i.game \in Games
        BY DEF GamesOf
      <4> PICK g \in batch : i = [game |-> g, lobby |-> g \in named]
        OBVIOUS
      <4>1. g \in LavaPending
        BY DEF Oldest
      <4>2. QED
        BY <4>1 DEF LavaPending, Shape
    <3> HIDE DEF rec, items
    <3>4. Plain(t, rec)
      BY <3>1, <3>2, <3>3 DEF Plain
    <3>5. QED
      BY <3>4
  <2>3. QED
    BY <2>1, <2>2
<1>2. CASE AfterLobby(t) \/ Kill(t)
  BY <1>2, Moves, Empty DEF AfterLobby, Kill, Plain
<1>3. CASE PostFails(t)
  BY <1>3, Clears DEF PostFails, Over
<1>4. CASE \E loaded \in SUBSET tick[t].batch : FetchDetails(t, loaded)
  <2> PICK loaded \in SUBSET tick[t].batch : FetchDetails(t, loaded)
    BY <1>4
  <2> DEFINE rec == [tick[t] EXCEPT !.batch = loaded, !.pc = "post"]
  <2>1. CASE Becomes(t, Over)
    BY <2>1, Clears DEF Over
  <2>2. CASE Becomes(t, rec)
    <3>1. Fields(rec) /\ rec.batch = loaded /\ rec.pc = "post"
      BY ZenonT(30) DEF Shape, Fields, Idle
    <3>2. GamesOf(loaded) \subseteq Games
      BY DEF GamesOf, Shape
    <3> HIDE DEF rec
    <3>3. Plain(t, rec)
      BY <2>2, <3>1, <3>2 DEF Plain
    <3>4. QED
      BY <3>3
  <2>3. QED
    BY <2>1, <2>2 DEF FetchDetails
<1>5. QED
  BY <1>1, <1>2, <1>3, <1>4

\* lavabalance keeps what it has and takes the whole of a batch.
LEMMA Taking ==
    ASSUME Shape, NEW batch, Takes(batch)
    PROVE  /\ held' = [g \in Games |-> held'[g]]
           /\ \A g \in Games : held[g] # "none" => held'[g] # "none"
           /\ \A g \in Games \cap GamesOf(batch) : held'[g] # "none"
  BY DEF Takes

\* Every step but a POST that went through and a mark: a plain one of some tick, that
\* marks nothing and loses nothing of lavabalance's.
LEMMA PlainStep ==
    ASSUME IInv, NEW t \in Ticks, NEW rec, Plain(t, rec),
           mirror' \subseteq Games, ended' \subseteq Games, offered' \subseteq offered,
           held' = [g \in Games |-> held'[g]],
           \A g \in Games : held[g] # "none" => held'[g] # "none"
    PROVE  IInv'
<1>1. tick' = [u \in Ticks |-> tick'[u]] /\ \A u \in Ticks : tick'[u] = IF u = t THEN rec ELSE tick[u]
  BY DEF Plain, Becomes, IInv, Shape
<1>2. Shape'
  BY <1>1 DEF IInv, Shape, Plain, Fields, GamesOf, Idle
<1>3. MarkedWasTaken'
  BY DEF IInv, Shape, MarkedWasTaken
<1>4. Posted'
  BY <1>1 DEF IInv, Shape, Posted, At, Plain, GamesOf
<1>5. QED
  BY <1>2, <1>3, <1>4 DEF IInv

THEOREM LavaInductive ==
    ASSUME IInv, [Next]_vars
    PROVE  IInv'
<1>1. CASE UNCHANGED vars
  BY <1>1 DEF vars, IInv, Shape, MarkedWasTaken, Posted, At, Fields, GamesOf
<1>2. CASE \E g \in Games : GameEnds(g)
  BY <1>2 DEF GameEnds, IInv, Shape, MarkedWasTaken, Posted, At, Fields, GamesOf
<1>3. ASSUME NEW t \in Ticks,
             \/ Fire(t) \/ gamesUnknown(t) \/ StartLava(t) \/ NoLava(t)
             \/ \E loaded \in SUBSET Games : gamesInsert(t, loaded)
      PROVE  IInv'
  <2>1. PICK rec : Plain(t, rec)
    BY <1>3, SyncsPlainly DEF IInv
  <2>2. /\ mirror' \subseteq Games /\ ended' \subseteq Games
        /\ offered' \subseteq offered /\ held' = held
    BY <1>3 DEF IInv, Shape, Fire, gamesUnknown, StartLava, NoLava, gamesInsert
  <2>3. QED
    BY <2>1, <2>2, PlainStep DEF IInv, Shape
<1>4. ASSUME NEW t \in Ticks,
             \/ gamesLavaPending(t) \/ LobbyPollFails(t) \/ Kill(t)
             \/ \E matched \in SUBSET Games : lobbiesMatch(t, matched)
             \/ \E loaded \in SUBSET tick[t].batch : FetchDetails(t, loaded)
      PROVE  IInv'
  <2>1. PICK rec : Plain(t, rec)
    BY <1>4, OffersPlainly DEF IInv, LobbyPollFails, lobbiesMatch
  <2>2. /\ mirror' \subseteq Games /\ ended' \subseteq Games
        /\ offered' \subseteq offered /\ held' = held
    BY <1>4 DEF IInv, Shape, gamesLavaPending, LobbyPollFails, Kill, lobbiesMatch, FetchDetails
  <2>3. QED
    BY <2>1, <2>2, PlainStep DEF IInv, Shape
<1>5. ASSUME NEW t \in Ticks, PostFails(t) PROVE IInv'
  <2>1. PICK rec : Plain(t, rec)
    BY <1>5, OffersPlainly DEF IInv
  <2>2. /\ mirror' \subseteq Games /\ ended' \subseteq Games /\ offered' \subseteq offered
        /\ held' = [g \in Games |-> held'[g]]
        /\ \A g \in Games : held[g] # "none" => held'[g] # "none"
    BY <1>5, Taking DEF IInv, Shape, PostFails
  <2>3. QED
    BY <2>1, <2>2, PlainStep
\* The batch just taken is what the tick will mark.
<1>6. ASSUME NEW t \in Ticks, Post(t) PROVE IInv'
  <2> DEFINE rec == [tick[t] EXCEPT !.pc = "mark"]
  <2>1. Becomes(t, rec)
    BY <1>6 DEF Post, Goes
  <2>2. Fields(rec) /\ rec.batch = tick[t].batch /\ rec.pc = "mark"
    BY DEF IInv, Shape, Fields, Idle
  <2> HIDE DEF rec
  <2>3. tick' = [u \in Ticks |-> tick'[u]] /\ \A u \in Ticks : tick'[u] = IF u = t THEN rec ELSE tick[u]
    BY <2>1 DEF Becomes, IInv, Shape
  <2>4. /\ held' = [g \in Games |-> held'[g]]
        /\ \A g \in Games : held[g] # "none" => held'[g] # "none"
        /\ \A g \in GamesOf(tick[t].batch) : held'[g] # "none"
    BY <1>6, Taking DEF Post, IInv, Shape
  <2>5. mirror' = mirror /\ ended' = ended /\ offered' = offered
    BY <1>6 DEF Post
  <2>6. Shape'
    BY <2>2, <2>3, <2>4, <2>5 DEF IInv, Shape, Fields, GamesOf, Idle
  <2>7. MarkedWasTaken'
    BY <2>4, <2>5 DEF IInv, Shape, MarkedWasTaken
  <2>8. Posted'
    BY <2>2, <2>3, <2>4 DEF IInv, Shape, Posted, At, GamesOf
  <2>9. QED
    BY <2>6, <2>7, <2>8 DEF IInv
\* What it marks was taken, and has stayed so.
<1>7. ASSUME NEW t \in Ticks, lavaMarkOffered(t) PROVE IInv'
  <2> DEFINE again == [tick[t] EXCEPT !.pc = "read", !.batch = {}, !.more = FALSE]
  <2>1. PICK rec : Plain(t, rec)
    <3>1. CASE Becomes(t, Over)
      BY <3>1, Clears DEF Over
    <3>2. CASE Becomes(t, again)
      <4>1. Fields(again) /\ again.batch = {} /\ again.pc = "read"
        BY DEF IInv, Shape, Fields, Idle
      <4> HIDE DEF again
      <4>2. Plain(t, again)
        BY <3>2, <4>1 DEF Plain, GamesOf
      <4>3. QED
        BY <4>2
    <3>3. QED
      BY <1>7, <3>1, <3>2 DEF lavaMarkOffered
  <2>2. tick' = [u \in Ticks |-> tick'[u]] /\ \A u \in Ticks : tick'[u] = IF u = t THEN rec ELSE tick[u]
    BY <2>1 DEF Plain, Becomes, IInv, Shape
  <2>3. /\ held' = held /\ mirror' = mirror /\ ended' = ended
        /\ offered' = offered \cup GamesOf(tick[t].batch)
    BY <1>7 DEF lavaMarkOffered
  <2>4. Shape'
    BY <2>1, <2>2, <2>3 DEF IInv, Shape, Plain, Fields, GamesOf, Idle
  <2>5. MarkedWasTaken'
    BY <1>7, <2>3 DEF lavaMarkOffered, IInv, Posted, MarkedWasTaken
  <2>6. Posted'
    BY <2>1, <2>2, <2>3 DEF IInv, Posted, At, Plain, GamesOf
  <2>7. QED
    BY <2>4, <2>5, <2>6 DEF IInv
<1>8. QED
  BY <1>1, <1>2, <1>3, <1>4, <1>5, <1>6, <1>7 DEF Next, TickStep

THEOREM LavaInitially == Init => IInv
  BY LavaAssumption DEF Init, IInv, Shape, MarkedWasTaken, Posted, At, Idle, Fields, GamesOf

\* A game marked as offered is one lavabalance has taken (lavasync.ts posts a batch before
\* it calls lavaMarkOffered), however ticks overlap and whatever fails or is killed.
THEOREM NothingMarkedUntaken == Spec => []MarkedWasTaken
<1>1. IInv => MarkedWasTaken
  BY DEF IInv
<1>2. QED
  BY LavaInitially, LavaInductive, <1>1, PTL DEF Spec
=============================================================================
