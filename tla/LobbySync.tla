----------------------------- MODULE LobbySync -----------------------------
(***************************************************************************)
(* The lobby sync (worker/teiserver.ts) and the observations it keeps in   *)
(* the ReplayIndex: the only place a game's lobby name can come from.  A   *)
(* sync reads teiserver's pages and writes over several awaits; lobbies go *)
(* on playing meanwhile, and cron ticks may overlap.                       *)
(*                                                                         *)
(* A lobby's name stands for nothing here: an observation carries the game *)
(* that really ran when the page was read (`of`), and the one that ran when*)
(* its last state was (`endOf`), which the code does not know, and which   *)
(* the properties compare a match with.                                    *)
(***************************************************************************)
EXTENDS Integers, Sequences, FiniteSets

CONSTANTS
    Lobbies, Maps,
    Roster,       \* who plays in each lobby; nobody in two
    Window,       \* LOBBY_MATCH_WINDOW_SEC
    EarlySlack,   \* LOBBY_MATCH_EARLY_SLACK_SEC
    KeepMatched,  \* LOBBY_MATCHED_KEEP_SEC
    MissSpan,     \* how far from a game's start the report looks: an hour
    Syncs,        \* lobby syncs that may overlap
    MaxTime,      \* bound: the clock
    MaxGames,     \* bound: games played
    MaxPolls,     \* bound: polls
    MaxFaults     \* bound: show pages that do not load, syncs that die

None == "none"
Unknown == {}     \* players NULL, or a page without a players table

ASSUME LobbyAssumption ==
    /\ Lobbies \subseteq Nat \ {0} /\ IsFiniteSet(Lobbies) /\ Roster \in [Lobbies -> SUBSET Nat]
    /\ \A l \in Lobbies : IsFiniteSet(Roster[l]) /\ Roster[l] # {}
    /\ \A l, k \in Lobbies : l # k => Roster[l] \cap Roster[k] = {}
    /\ {Window, EarlySlack, KeepMatched, MissSpan, MaxTime, MaxGames, MaxPolls, MaxFaults} \subseteq Nat

VARIABLES
    now,
    lobby,      \* per lobby the game it runs (0: none), its map and players (external)
    played,     \* the games, as BAR will publish them (external)
    mirror,     \* games rows
    arrivals,   \* those mirrored since lobby_match_synced
    named,      \* per game the observation that named it, if any
    rows,       \* the lobbies table
    sync,       \* each sync under way
    polls,
    overlapped, \* two syncs have been under way at once
    faults

vars == <<now, lobby, played, mirror, arrivals, named, rows, sync, polls, overlapped, faults>>
world == <<now, lobby, played, mirror, arrivals>>

Games == DOMAIN played
Idle == [pc |-> "idle", page |-> <<>>, new |-> {}, moved |-> {}, gone |-> {}, read |-> <<>>]
Abs(n) == IF n < 0 THEN -n ELSE n
-----------------------------------------------------------------------------
(* Outside: lobbies play, BAR publishes, the games sync mirrors.           *)

\* The lobby goes in progress, perhaps before its map is switched to what is played.
Starts(l, shown, map) ==
    /\ lobby[l].game = 0 /\ Len(played) < MaxGames
    /\ played' = Append(played, [lobby |-> l, start |-> now, map |-> map, players |-> Roster[l]])
    /\ lobby' = [lobby EXCEPT ![l] = [game |-> Len(played) + 1, map |-> shown, players |-> Roster[l]]]
    /\ UNCHANGED <<now, mirror, arrivals, named, rows, sync, polls, overlapped, faults>>

\* All but one leave, or the map is switched.
Changes(l) ==
    /\ lobby[l].game # 0
    /\ \/ lobby' = [lobby EXCEPT ![l].players = {CHOOSE p \in lobby[l].players : TRUE}]
       \/ lobby' = [lobby EXCEPT ![l].map = played[lobby[l].game].map]
    /\ lobby' # lobby
    /\ UNCHANGED <<now, played, mirror, arrivals, named, rows, sync, polls, overlapped, faults>>

Ends(l) ==
    /\ lobby[l].game # 0
    /\ lobby' = [lobby EXCEPT ![l].game = 0]
    /\ UNCHANGED <<now, played, mirror, arrivals, named, rows, sync, polls, overlapped, faults>>

gamesInsert(g) ==
    /\ g \notin mirror /\ \A l \in Lobbies : lobby[l].game # g
    /\ mirror' = mirror \cup {g} /\ arrivals' = arrivals \cup {g}
    /\ UNCHANGED <<now, lobby, played, named, rows, sync, polls, overlapped, faults>>

Clock ==
    /\ now < MaxTime /\ now' = now + 1
    /\ UNCHANGED <<lobby, played, mirror, arrivals, named, rows, sync, polls, overlapped, faults>>
-----------------------------------------------------------------------------
(* Matching.                                                               *)

lobbyMaps(o) == {o.map} \cup o.endMap
lobbyRosters(o) == {o.players, o.endPlayers} \ {Unknown}

Share(roster, g) == Cardinality(roster \cap played[g].players)
Smaller(roster, g) ==
    IF Cardinality(roster) < Cardinality(played[g].players)
    THEN Cardinality(roster) ELSE Cardinality(played[g].players)

\* |intersection| / min(|lobby|, |game|), as the pair of the two.
rosterOverlap(roster, g) == <<Share(roster, g), Smaller(roster, g)>>
Exceeds(a, b) == a[1] * b[2] > b[1] * a[2]
Half(a) == 2 * a[1] >= a[2]                        \* LOBBY_MATCH_MIN_OVERLAP

MapOk(o, g) == played[g].map \in lobbyMaps(o)
Delta(o, g) == o.started - played[g].start
TimeOk(o, g) == -EarlySlack <= Delta(o, g) /\ Delta(o, g) <= Window

\* Nobody known is a score of zero; of the two rosters the better one counts.
Score(o, g) ==
    LET scores == {rosterOverlap(r, g) : r \in lobbyRosters(o)}
    IN IF scores = {} THEN <<0, 1>> ELSE CHOOSE a \in scores : \A b \in scores : ~Exceeds(b, a)

\* Mutant: the roster is no gate.
FitsByMap(o, g) == MapOk(o, g) /\ TimeOk(o, g)

Fits(o, g) ==
    /\ MapOk(o, g) /\ TimeOk(o, g)
    /\ lobbyRosters(o) # {} => played[g].players # {} /\ Half(Score(o, g))

\* Best first: score, then the smaller time difference, then lobby, then game.
Before(a, b) ==
    \/ Exceeds(a.score, b.score)
    \/ /\ ~Exceeds(b.score, a.score)
       /\ \/ a.dt < b.dt
          \/ a.dt = b.dt /\ a.o.lobby < b.o.lobby
          \/ a.dt = b.dt /\ a.o.lobby = b.o.lobby /\ a.g < b.g
          \/ a.dt = b.dt /\ a.o.lobby = b.o.lobby /\ a.g = b.g /\ a.o.started < b.o.started

Candidate(o, g) == [o |-> o, g |-> g, score |-> Score(o, g), dt |-> Abs(Delta(o, g))]
candidates(obs, games) == {Candidate(p[1], p[2]) : p \in {p \in obs \X games : Fits(p[1], p[2])}}

\* Greedy: a candidate is taken unless a better one of its observation or game was.
Beaten(c, taken) == \E b \in taken : Before(b, c) /\ (b.o = c.o \/ b.g = c.g)
pickLobbyMatches(obs, games) ==
    LET all == candidates(obs, games)
    IN  CHOOSE taken \in SUBSET all : \A c \in all : c \in taken <=> ~Beaten(c, taken)

\* The admin's report on the games left unnamed: for each the five likeliest observations that
\* share its map or a player, with every gate's verdict.
lobbyNearMisses(g, near) ==
    LET Best(o) == CHOOSE r \in lobbyRosters(o) : \A q \in lobbyRosters(o) : Share(q, g) <= Share(r, g)
        Verdict(o) == [mapOk |-> MapOk(o, g), timeOk |-> TimeOk(o, g), matched |-> o.matched,
                       overlapOk |-> lobbyRosters(o) = {}
                                     \/ (played[g].players # {} /\ Half(rosterOverlap(Best(o), g)))]
        Shares(o) == MapOk(o, g) \/ (lobbyRosters(o) # {} /\ Share(Best(o), g) > 0)
        Passed(o) == Cardinality({gate \in {"mapOk", "timeOk", "overlapOk"} : Verdict(o)[gate]})
        Likelier(a, b) ==
            \/ Passed(a) > Passed(b)
            \/ Passed(a) = Passed(b) /\ Abs(Delta(a, g)) < Abs(Delta(b, g))
            \/ Passed(a) = Passed(b) /\ Abs(Delta(a, g)) = Abs(Delta(b, g)) /\ a.lobby < b.lobby
        plausible == {o \in near : Shares(o)}
    IN [o \in {o \in plausible : Cardinality({a \in plausible : Likelier(a, o)}) < 5} |-> Verdict(o)]

\* The report's window of game ends holds every game of the model.
lobbyMisses ==
    [g \in {g \in mirror : named[g] = {}} |->
        lobbyNearMisses(g, {o \in rows : Abs(Delta(o, g)) <= MissSpan})]
-----------------------------------------------------------------------------
(* A sync: page, open observations, show pages, and up to four RPCs.       *)

At(s, pc) == sync[s].pc = pc
Becomes(s, rec) == sync' = [sync EXCEPT ![s] = rec]

\* The next of the RPCs that has something to say, after step `pc`; what is past is let go.
Onward(rec, pc) ==
    IF pc = "shows" /\ rec.new # {} THEN [rec EXCEPT !.pc = "observe"]
    ELSE IF pc # "update" /\ rec.moved # {} THEN [rec EXCEPT !.pc = "update", !.new = {}]
    ELSE IF rec.gone # {} THEN [Idle EXCEPT !.pc = "end", !.gone = rec.gone]
    ELSE [Idle EXCEPT !.pc = "match"]
Open(o) == ~o.ended
sig(l) == <<lobby[l].map, Cardinality(lobby[l].players)>>

\* The lobby page: what is in progress.  A poll that fails is a sync that never started.
Poll(s) ==
    /\ At(s, "idle") /\ polls < MaxPolls /\ polls' = polls + 1
    /\ Becomes(s, [Idle EXCEPT !.pc = "open",
          !.page = [l \in {l \in Lobbies : lobby[l].game # 0} |->
                      [of |-> lobby[l].game, map |-> lobby[l].map, sig |-> sig(l),
                       elapsed |-> now - played[lobby[l].game].start]]])
    /\ overlapped' = (overlapped \/ \E t \in Syncs : ~At(t, "idle"))
    /\ UNCHANGED <<world, named, rows, faults>>

lobbiesOpen(s) ==
    /\ At(s, "open")
    /\ LET running == DOMAIN sync[s].page
           open == {o \in rows : Open(o)}
           new == running \ {o.lobby : o \in open}
           moved == {o \in open : o.lobby \in running /\ o.sig # sync[s].page[o.lobby].sig}
           found == [sync[s] EXCEPT !.new = new,
                                    !.moved = {<<o.lobby, o.started>> : o \in moved},
                                    !.gone = {o.lobby : o \in open} \ running, !.pc = "shows"]
       IN Becomes(s, IF new = {} /\ moved = {} THEN Onward(found, "shows") ELSE found)
    /\ UNCHANGED <<world, named, rows, polls, overlapped, faults>>

\* The show pages of what is new or has changed, as they are by then; one may not load.
Shows(s) ==
    LET wanted == sync[s].new \cup {k[1] : k \in sync[s].moved}
    IN /\ At(s, "shows")
       /\ \E failed \in SUBSET wanted :
             /\ faults + Cardinality(failed) <= MaxFaults
             /\ faults' = faults + Cardinality(failed)
             /\ LET read == [l \in wanted |-> IF l \in failed THEN Unknown ELSE lobby[l].players]
                IN Becomes(s, Onward([sync[s] EXCEPT !.read = read], "shows"))
       /\ UNCHANGED <<world, named, rows, polls, overlapped>>

\* Opens an observation per lobby newly in progress, back-dated by the page's clock.
lobbiesObserve(s) ==
    /\ At(s, "observe")
    /\ LET Row(l) == LET p == sync[s].page[l] IN
               [lobby |-> l, started |-> now - p.elapsed, map |-> p.map, players |-> sync[s].read[l],
                endMap |-> {}, endPlayers |-> Unknown, sig |-> p.sig, ended |-> FALSE,
                matched |-> 0, of |-> p.of, endOf |-> p.of]
           taken == {<<o.lobby, o.started>> : o \in rows}
       IN rows' = rows \cup {o \in {Row(l) : l \in sync[s].new} : <<o.lobby, o.started>> \notin taken}
    /\ Becomes(s, Onward(sync[s], "observe"))
    /\ UNCHANGED <<world, named, polls, overlapped, faults>>

\* A running lobby's changed state, written over the last one.
lobbiesUpdate(s) ==
    /\ At(s, "update")
    /\ LET Moved(o) == <<o.lobby, o.started>> \in sync[s].moved /\ Open(o)
           Updated(o) == [o EXCEPT !.sig = sync[s].page[o.lobby].sig,
                                   !.endMap = {sync[s].page[o.lobby].map},
                                   !.endPlayers = sync[s].read[o.lobby],
                                   !.endOf = sync[s].page[o.lobby].of]
       IN rows' = {IF Moved(o) THEN Updated(o) ELSE o : o \in rows}
    /\ Becomes(s, Onward(sync[s], "update"))
    /\ UNCHANGED <<world, named, polls, overlapped, faults>>

lobbiesEnd(s) ==
    /\ At(s, "end")
    /\ rows' = {IF o.lobby \in sync[s].gone THEN [o EXCEPT !.ended = TRUE] ELSE o : o \in rows}
    /\ Becomes(s, [Idle EXCEPT !.pc = "match"])
    /\ UNCHANGED <<world, named, polls, overlapped, faults>>

\* Mutant: only the latest arrival is looked at.
MatchNewest(s) ==
    /\ At(s, "match")
    /\ LET waiting == {g \in arrivals : named[g] = {}}
           latest == {g \in waiting : \A h \in waiting : h <= g}
           picked == pickLobbyMatches({o \in rows : o.matched = 0}, latest)
       IN /\ named' = [g \in 1 .. MaxGames |-> named[g] \cup {c.o : c \in {c \in picked : c.g = g}}]
          /\ rows' = {IF \E c \in picked : c.o = o
                      THEN [o EXCEPT !.matched = (CHOOSE c \in picked : c.o = o).g, !.ended = TRUE]
                      ELSE o : o \in rows}
    /\ arrivals' = {}
    /\ Becomes(s, Idle)
    /\ UNCHANGED <<now, lobby, played, mirror, polls, overlapped, faults>>

\* Pairs what has arrived with unmatched observations, retires those, and prunes.
lobbiesMatch(s) ==
    /\ At(s, "match")
    /\ LET picked == pickLobbyMatches({o \in rows : o.matched = 0},
                                      {g \in arrivals : named[g] = {}})
           Matched(o) == IF \E c \in picked : c.o = o
                         THEN [o EXCEPT !.matched = (CHOOSE c \in picked : c.o = o).g, !.ended = TRUE]
                         ELSE o
       IN /\ named' = [g \in 1 .. MaxGames |-> named[g] \cup {c.o : c \in {c \in picked : c.g = g}}]
          /\ rows' = {o \in {Matched(o) : o \in rows} :
                         o.matched = 0 \/ o.started >= now - KeepMatched}
    /\ arrivals' = {}
    /\ Becomes(s, Idle)
    /\ UNCHANGED <<now, lobby, played, mirror, polls, overlapped, faults>>

\* The invocation is killed, or an RPC throws: what is written stays, the rest is not done.
Dies(s) ==
    /\ ~At(s, "idle") /\ faults < MaxFaults /\ faults' = faults + 1
    /\ Becomes(s, Idle)
    /\ UNCHANGED <<world, named, rows, polls, overlapped>>
-----------------------------------------------------------------------------
Init ==
    /\ now = 0 /\ played = <<>> /\ mirror = {} /\ arrivals = {} /\ rows = {} /\ polls = 0 /\ faults = 0
    /\ lobby = [l \in Lobbies |-> [game |-> 0, map |-> None, players |-> {}]]
    /\ named = [g \in 1 .. MaxGames |-> {}]
    /\ sync = [s \in Syncs |-> Idle]
    /\ overlapped = FALSE

Outside ==
    \/ \E l \in Lobbies : Changes(l) \/ Ends(l) \/ \E shown, map \in Maps : Starts(l, shown, map)
    \/ \E g \in Games : gamesInsert(g)
    \/ Clock

SyncStep(s) ==
    \/ Poll(s) \/ lobbiesOpen(s) \/ Shows(s)
    \/ lobbiesObserve(s) \/ lobbiesUpdate(s) \/ lobbiesEnd(s) \/ lobbiesMatch(s) \/ Dies(s)

Next == Outside \/ \E s \in Syncs : SyncStep(s)

Spec == Init /\ [][Next]_vars
-----------------------------------------------------------------------------
(* What the sync promises.                                                 *)

\* "without letting two different games on one map shake hands" (LOBBY_MATCH_MIN_OVERLAP): an
\* observation whose roster was read names a game of its own lobby only, though other
\* lobbies play the same map at the same time and syncs overlap (pickLobbyMatches).
NamedByItsHost ==
    \A g \in Games : \A o \in named[g] : lobbyRosters(o) # {} => o.lobby = played[g].lobby

\* "a game that failed to match on the tick it landed will not match on the next one either"
\* (lobbiesMatch's watermark): while syncs do not overlap, a mirrored game that was looked at and
\* left unnamed has no observation of its own that would still fit, by the admin's report.  The
\* exception is one whose lobby has gone on to another game, the row still open: its last state
\* is then that game's (lobbiesUpdate), and may fit where its own did not.
ArrivalsSettled ==
    ~overlapped =>
        LET report == lobbyMisses
        IN  \A g \in DOMAIN report \ arrivals : \A o \in DOMAIN report[g] :
                LET m == report[g][o]
                IN  ~(o.of = g /\ o.endOf = g /\ m.matched = 0 /\ m.mapOk /\ m.timeOk /\ m.overlapOk)
=============================================================================
