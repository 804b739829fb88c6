------------------------------ MODULE LavaSync ------------------------------
(***************************************************************************)
(* The cron tick's chain of syncs, as far as 8v8 lava games go: the games  *)
(* mirror (games.ts), the lobby match (teiserver.ts and                    *)
(* ReplayIndex.lobbiesMatch) and the offer of mirrored games, with the     *)
(* lobby info matched onto them, to the lavabalance worker (lavasync.ts).  *)
(*                                                                         *)
(* A tick fires every minute and its steps are separated by awaits, so a   *)
(* long one is overtaken by the next: each member of Ticks is an           *)
(* invocation that may be under way.  Every RPC to the index is atomic.    *)
(*                                                                         *)
(* Games are numbered in the order they started.  The horizon of the       *)
(* pending query (a week) is left out: no game here gets that old.         *)
(***************************************************************************)
EXTENDS Integers, FiniteSets

CONSTANTS
    Games,        \* the lava games there will be
    Unfetchable,  \* those whose BAR detail never loads for the lava sync
    Backlog,      \* the games published before the first tick
    Ticks,        \* cron invocations that may overlap
    MaxBatch,     \* MAX_LAVA_BATCH
    MaxRun,       \* MAX_LAVA_RUN
    MaxFaults     \* bound: failed polls, details and POSTs, killed invocations

ASSUME LavaAssumption ==
    /\ Games \subseteq Nat \ {0} /\ Unfetchable \subseteq Games /\ Backlog \subseteq Games
    /\ {MaxBatch, MaxRun} \subseteq Nat \ {0} /\ MaxFaults \in Nat

VARIABLES
    ended,     \* games BAR has published
    mirror,    \* games rows
    arrivals,  \* those mirrored since the lobby match's watermark
    named,     \* lobby_name is set
    offered,   \* lava_offered_unix is set
    held,      \* what lavabalance holds of each game (external)
    tick,      \* each invocation
    faults

vars == <<ended, mirror, arrivals, named, offered, held, tick, faults>>

Item == [game : Games, lobby : BOOLEAN]
Tick == [pc : {"idle", "games", "insert", "lobby", "lava", "read", "fetch", "post", "mark", "lobby2"},
         fresh : SUBSET Games, triggered : BOOLEAN,
         batch : SUBSET Item, taken : SUBSET Games, count : 0..MaxRun, more : BOOLEAN]
Idle == [pc |-> "idle", fresh |-> {}, triggered |-> FALSE,
         batch |-> {}, taken |-> {}, count |-> 0, more |-> FALSE]

Fault == faults < MaxFaults /\ faults' = faults + 1
At(t, pc) == tick[t].pc = pc
Becomes(t, rec) == tick' = [tick EXCEPT ![t] = rec]
Goes(t, pc) == Becomes(t, [tick[t] EXCEPT !.pc = pc])
GamesOf(batch) == {i.game : i \in batch}

\* The lava run is over, and what it kept with it; the tick goes on to the second lobby sync.
Over == [Idle EXCEPT !.pc = "lobby2"]

-----------------------------------------------------------------------------
(* syncGames: list, ask which are unknown, fetch the details, insert. *)

GameEnds(g) ==
    /\ g \notin ended /\ ended' = ended \cup {g}
    /\ UNCHANGED <<mirror, arrivals, named, offered, held, tick, faults>>

Fire(t) ==
    /\ At(t, "idle") /\ Goes(t, "games")
    /\ UNCHANGED <<ended, mirror, arrivals, named, offered, held, faults>>

gamesUnknown(t) ==
    /\ At(t, "games")
    /\ LET fresh == ended \ mirror
       IN  Becomes(t, [tick[t] EXCEPT !.fresh = fresh, !.pc = IF fresh = {} THEN "lobby" ELSE "insert"])
    /\ UNCHANGED <<ended, mirror, arrivals, named, offered, held, faults>>

\* A game another tick mirrored meanwhile is inserted over: it counts as arrived again.
gamesInsert(t, loaded) ==
    /\ At(t, "insert") /\ loaded \subseteq tick[t].fresh
    /\ IF loaded = tick[t].fresh THEN UNCHANGED faults ELSE Fault
    /\ mirror' = mirror \cup loaded
    /\ arrivals' = arrivals \cup loaded
    /\ Becomes(t, [tick[t] EXCEPT !.pc = "lobby", !.triggered = loaded # {}, !.fresh = {}])
    /\ UNCHANGED <<ended, named, offered, held>>

-----------------------------------------------------------------------------
(* lobbySync, twice a tick: the poll, then the match of what has arrived. *)

AfterLobby(t) == IF At(t, "lobby") THEN Goes(t, "lava") ELSE Becomes(t, Idle)

\* Mutant: a game that gets its lobby late keeps its mark.
MatchKeepsMark(t, matched) ==
    /\ At(t, "lobby") \/ At(t, "lobby2")
    /\ matched \subseteq arrivals \ named
    /\ named' = named \cup matched /\ arrivals' = {}
    /\ AfterLobby(t)
    /\ UNCHANGED <<ended, mirror, offered, held, faults>>

\* Some of the arrivals have an observation that fits; the rest will not get one later.
lobbiesMatch(t, matched) ==
    /\ At(t, "lobby") \/ At(t, "lobby2")
    /\ matched \subseteq arrivals \ named
    /\ named' = named \cup matched
    /\ offered' = offered \ matched
    /\ arrivals' = {}
    /\ AfterLobby(t)
    /\ UNCHANGED <<ended, mirror, held, faults>>

\* Teiserver is down: the poll fails before the match.
LobbyPollFails(t) ==
    /\ Fault
    /\ At(t, "lobby") \/ At(t, "lobby2")
    /\ AfterLobby(t)
    /\ UNCHANGED <<ended, mirror, arrivals, named, offered, held>>

-----------------------------------------------------------------------------
(* syncLava: read a batch, fetch its details, POST it, mark it, and again. *)

LavaPending == mirror \ offered

\* A fresh lava game triggers the run, and so does the hourly sweep.
StartLava(t) ==
    /\ At(t, "lava") /\ Becomes(t, [Idle EXCEPT !.pc = "read"])
    /\ UNCHANGED <<ended, mirror, arrivals, named, offered, held, faults>>

NoLava(t) ==
    /\ At(t, "lava") /\ ~tick[t].triggered /\ Becomes(t, Over)
    /\ UNCHANGED <<ended, mirror, arrivals, named, offered, held, faults>>

\* gamesLavaPending: the oldest-started, with the lobby info they have by now.
Room(t) == IF MaxBatch < MaxRun - tick[t].count THEN MaxBatch ELSE MaxRun - tick[t].count
Oldest(n) == {g \in LavaPending : Cardinality({h \in LavaPending : h < g}) < n}

gamesLavaPending(t) ==
    /\ At(t, "read")
    /\ LET batch == Oldest(Room(t))
       IN  IF batch \subseteq tick[t].taken    \* nothing there, or nothing new: no progress
           THEN Becomes(t, Over)
           ELSE Becomes(t, [tick[t] EXCEPT
                    !.batch = {[game |-> g, lobby |-> g \in named] : g \in batch},
                    !.more = LavaPending # batch,
                    !.taken = @ \cup batch, !.count = @ + Cardinality(batch), !.pc = "fetch"])
    /\ UNCHANGED <<ended, mirror, arrivals, named, offered, held, faults>>

\* Mutant: one game that does not load stops the batch.
FetchAll(t, loaded) ==
    /\ At(t, "fetch")
    /\ loaded \subseteq tick[t].batch /\ GamesOf(loaded) \cap Unfetchable = {}
    /\ Becomes(t, IF loaded # tick[t].batch THEN Over ELSE [tick[t] EXCEPT !.pc = "post"])
    /\ UNCHANGED <<ended, mirror, arrivals, named, offered, held, faults>>

\* What does not load stays pending; if nothing loads, the run is over.
FetchDetails(t, loaded) ==
    /\ At(t, "fetch")
    /\ loaded \subseteq tick[t].batch /\ GamesOf(loaded) \cap Unfetchable = {}
    /\ IF GamesOf(tick[t].batch \ loaded) \subseteq Unfetchable THEN UNCHANGED faults ELSE Fault
    /\ Becomes(t, IF loaded = {} THEN Over ELSE [tick[t] EXCEPT !.batch = loaded, !.pc = "post"])
    /\ UNCHANGED <<ended, mirror, arrivals, named, offered, held>>

\* lavabalance stores what it is given; on a duplicate it fills in missing parties.
Takes(batch) ==
    held' = [g \in Games |->
                IF [game |-> g, lobby |-> TRUE] \in batch THEN "parties"
                ELSE IF g \in GamesOf(batch) /\ held[g] = "none" THEN "plain" ELSE held[g]]

Post(t) ==
    /\ At(t, "post")
    /\ Takes(tick[t].batch) /\ Goes(t, "mark")
    /\ UNCHANGED <<ended, mirror, arrivals, named, offered, faults>>

\* The POST throws, before or after lavabalance took the batch: the run is over.
PostFails(t) ==
    /\ Fault
    /\ At(t, "post") /\ Becomes(t, Over)
    /\ Takes(tick[t].batch) \/ UNCHANGED held
    /\ UNCHANGED <<ended, mirror, arrivals, named, offered>>

\* Mutant: what the run took is marked, not what was answered.
MarkAllTaken(t) ==
    /\ At(t, "mark")
    /\ offered' = offered \cup tick[t].taken
    /\ Becomes(t, IF tick[t].more /\ tick[t].count < MaxRun
                  THEN [tick[t] EXCEPT !.pc = "read", !.batch = {}, !.more = FALSE] ELSE Over)
    /\ UNCHANGED <<ended, mirror, arrivals, named, held, faults>>

lavaMarkOffered(t) ==
    /\ At(t, "mark")
    /\ offered' = offered \cup GamesOf(tick[t].batch)
    /\ Becomes(t, IF tick[t].more /\ tick[t].count < MaxRun
                  THEN [tick[t] EXCEPT !.pc = "read", !.batch = {}, !.more = FALSE] ELSE Over)
    /\ UNCHANGED <<ended, mirror, arrivals, named, held, faults>>

\* The invocation is killed.
Kill(t) ==
    /\ Fault
    /\ ~At(t, "idle") /\ Becomes(t, Idle)
    /\ UNCHANGED <<ended, mirror, arrivals, named, offered, held>>

-----------------------------------------------------------------------------

Init ==
    /\ ended = Backlog /\ mirror = {} /\ arrivals = {} /\ named = {} /\ offered = {}
    /\ held = [g \in Games |-> "none"]
    /\ tick = [t \in Ticks |-> Idle]
    /\ faults = 0

TickStep(t) ==
    \/ Fire(t) \/ gamesUnknown(t)
    \/ \E loaded \in SUBSET Games : gamesInsert(t, loaded)
    \/ \E matched \in SUBSET Games : lobbiesMatch(t, matched)
    \/ StartLava(t) \/ NoLava(t) \/ gamesLavaPending(t)
    \/ \E loaded \in SUBSET tick[t].batch : FetchDetails(t, loaded)
    \/ Post(t) \/ lavaMarkOffered(t)

Next ==
    \/ \E g \in Games : GameEnds(g)
    \/ \E t \in Ticks : TickStep(t) \/ LobbyPollFails(t) \/ PostFails(t) \/ Kill(t)

(***************************************************************************)
(* Fairness: the cron keeps firing and an invocation goes on to its end;   *)
(* once an hour the lava sync runs whether or not anything triggered it.   *)
(***************************************************************************)
Fairness == \A t \in Ticks : WF_vars(TickStep(t)) /\ SF_vars(StartLava(t))

Spec == Init /\ [][Next]_vars /\ Fairness

-----------------------------------------------------------------------------
(* What the sync promises. *)

\* A mark is never ahead of lavabalance's answer: what no run will offer again has been
\* taken, whatever threw or died in between (syncLava's step 4, lavaMarkOffered).
MarkedWasTaken == \A g \in offered : held[g] # "none"

\* The queue's head cannot hold up what is behind it: every mirrored game whose detail
\* loads is offered in the end, though some ahead of it never load and batches fail (the
\* loop's re-read, its no-progress guard and the hourly sweep).
EachIsOffered == \A g \in Games \ Unfetchable : g \in mirror ~> g \in offered

\* "the one thing that can change (lobby info landing late) clears the mark from the other
\* side" (lavasync.ts): the parties of a game that got its lobby reach lavabalance, if
\* invocations do not overlap. When they do, one's mark may land over the other's match, and
\* nothing clears it again.
Overlap == \E s, t \in Ticks : s # t /\ ~At(s, "idle") /\ ~At(t, "idle")
PartiesArrive ==
    []~Overlap => \A g \in Games \ Unfetchable : g \in named ~> held[g] = "parties"
=============================================================================
