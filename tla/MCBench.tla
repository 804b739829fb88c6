------------------------------- MODULE MCBench --------------------------------
(***************************************************************************)
(* Parts of the system that share nothing, on one bench: a behaviour is    *)
(* that of one family, chosen at the start, while the others stay as they  *)
(* begin.  The index's tables and its healthcheck series, which a          *)
(* construction has in common, are two.                                    *)
(***************************************************************************)
EXTENDS IndexUpkeep, GameRows, QueueView, Archive, SignIn, Playback, Overlay, BrpReads, LobbyPages

VARIABLE family

\* GameRows: people and bots; "early" games get a last player late.
P(n, os, rank) == [name |-> n, os |-> os, rank |-> rank]
MCSides ==
    {{[ally |-> 0, humans |-> <<P(<<11, 2>>, {3}, {2}), P(<<1, 21>>, {}, {16})>>, bots |-> <<>>],
      [ally |-> 1, humans |-> <<P(<<3, 2>>, {5}, {}), P(<<12, 1>>, {8}, {0})>>, bots |-> <<<<1, 1>>>>]},
     {[ally |-> 0, humans |-> <<P(<<>>, {}, {})>>, bots |-> <<>>],
      [ally |-> 2, humans |-> <<P(<<1>>, {5}, {}), P(<<2, 2>>, {5}, {})>>, bots |-> <<>>]},
     {}}
MCOptions ==
    {{}, {[o \in {} |-> ""]},
     {[ranked_game |-> "1", map_waterislava |-> "1", tweakdefs9 |-> "code", zombies |-> "normal"]},
     {[ranked_game |-> "0", unit_restrictions_nolrpc |-> "1", quick_start |-> "default", ruins |-> "enabled",
       commanderbuildersenabled |-> "disabled", tweakunits |-> ""]}}
MCDetails == [start : {{}, {7}}, duration : {{9}}, map : {{"m"}}, options : MCOptions, allies : MCSides]
MCRoster == {<<[ally |-> 0, count |-> 2, players |-> <<P(<<1, 12>>, {}, {3})>>]>>}
MCBodies ==
    [start : {{}, {8}}, duration : {{}, {9}}, map : {{"m"}}, gameSize : {{}, {<<2, 1>>}},
     players : {{}, MCRoster}, settings : {{}, {"lava", "mods"}}, bad : {{}, {"rev"}},
     view : {{}, {"ally"}}, uploaderAlly : {{}, {0}}]

\* QueueView: two tables of three jobs, one of them shown inside another.
J(id, state, inside, install) ==
    [id |-> id, state |-> state, disabled |-> FALSE, inside |-> inside, install |-> install]
MCTables ==
    {<<J(2, "done", FALSE, TRUE), J(3, "done", TRUE, TRUE), J(1, "pending", FALSE, FALSE)>>,
     <<J(3, "error", FALSE, TRUE), J(2, "processing", FALSE, TRUE), J(1, "done", FALSE, FALSE)>>}

\* Archive: streams cut off or out of order, packed files, and the names pieces are published under.
GAME(ally, spec) == [rec |-> "GAME", allyTeam |-> ally, spectator |-> spec]
GID(g) == [rec |-> "GID", gameId |-> g]
Stream(id, lines) == [id |-> id, brp |-> FALSE, header |-> TRUE, lines |-> lines]
MCCaptures ==
    {Stream(11, <<GID("g1"), GAME({0}, {FALSE}), [rec |-> "READY"]>>),
     Stream(12, <<GAME({}, {}), GID("g1"), GAME({0}, {}), GAME({1}, {FALSE}), [rec |-> "READY"], GID("g2")>>),
     Stream(13, <<GID("malformed"), GID("g1")>>),
     [id |-> 14, brp |-> TRUE, flaws |-> {}, gameId |-> "g1", recorder |-> {[allyTeam |-> {0}, spectator |-> {}]}],
     [id |-> 15, brp |-> TRUE, flaws |-> {"version"}, gameId |-> "g1", recorder |-> {}]}
MCPublished ==
    {<<Seg("replays", "none"), Seg("2026-09", "none"), Seg("g1", "brp")>>,
     <<Seg("replays", "none"), Seg("g1", "none"), Seg("c1", "none")>>}

\* Playback: a tank that drives on and is hurt, a fort that falls out of sight and one that takes
\* its id again; a capture that skipped a sample; one of the older streams.
U(def, team, x, hp, dv, build) ==
    (("def" :> def) @@ ("team" :> team) @@ ("x" :> x) @@ ("hp" :> hp) @@ ("dv" :> dv) @@ ("build" :> build))
At(f, units, res) == [f |-> f, units |-> units, res |-> res]
Tank(n) == U(3, 1, 2 * n, IF n < 3 THEN 5 ELSE 3, 2, 2)
Fort(team, x, build) == U(7, team, x, 9, 0, build)
MCGames ==
    {[ver |-> 5, deaths |-> {[f |-> 5, id |-> 2]},
      samples |-> <<At(0, (1 :> Tank(1)) @@ (2 :> Fort(2, 7, 1)), (1 :> 14)),
                    At(2, (1 :> Tank(2)) @@ (2 :> Fort(2, 7, 2)), (1 :> 99) @@ (2 :> 20)),
                    At(4, (1 :> Tank(3)), <<>>),
                    At(6, (1 :> Tank(4)) @@ (3 :> Fort(1, 1, 2)), (1 :> 16) @@ (2 :> 26)),
                    At(8, (2 :> Fort(1, 4, 1)), (2 :> 25))>>],
     [ver |-> 5, deaths |-> {[f |-> 3, id |-> 4]},
      samples |-> <<At(0, (1 :> Tank(1)) @@ (4 :> Fort(1, 3, 2)), (2 :> 24)),
                    At(4, (1 :> [Tank(2) EXCEPT !["x"] = 9]) @@ (2 :> Fort(2, 7, 2)), (1 :> 14)),
                    At(6, (2 :> [Fort(2, 7, 2) EXCEPT !["hp"] = 8]), (1 :> 31)),
                    At(8, <<>>, (1 :> 4))>>],
     [ver |-> 4, deaths |-> {[f |-> 3, id |-> 2]},
      samples |-> <<At(0, (1 :> Tank(1)) @@ (2 :> Fort(2, 7, 2)), <<>>),
                    At(2, (1 :> Tank(2)), <<>>), At(4, (1 :> Tank(3)), <<>>)>>]}

\* Overlay: drawings and erases; chat of players, spectators and the lobby's relay; self-destruct
\* orders with and without a death; the rows of two effects.
C(f, k, p, x) ==
    [f |-> f, k |-> k, p |-> p, x |-> x, x2 |-> IF k = "line" THEN x + 3 ELSE x,
     d |-> IF p = 7 THEN "spec" ELSE "all", t |-> IF k = "chat" THEN "said" ELSE "", n |-> IF p = 9 THEN "relay" ELSE ""]
InOrder(s) == \A i \in 1..(Len(s) - 1) : s[i].f <= s[i + 1].f
Script(version, comms, events, effects) ==
    [version |-> version, comms |-> comms, events |-> events, rows |-> effects]
MCDrawings == [1..3 -> {C(f, k, 1, x) : f \in {0, 1, 4}, k \in {"point", "erase"}, x \in {0, 2}}]
MCLines ==
    {<<C(0, "line", 1, 0), C(1, k, 2, 2), C(1, "line", 1, x)>> : k \in {"point", "erase"}, x \in {-2, 1, 4}}
MCChats ==
    {<<C(0, "chat", 1, 0), C(1, "chat", 2, 0), C(2, "chat", 1, 0), C(5, "chat", 9, 0)>>,
     <<C(1, "chat", 7, 0), C(1, "chat", 8, 0), C(4, "chat", 2, 0)>>}
E(f, k, cause) == [f |-> f, k |-> k, id |-> 1, def |-> 3, team |-> 2, cause |-> cause]
Killed == [id |-> -1, def |-> -1, team |-> 3, weapon |-> 0]
MCOrders == {o \in UNION {[1..n -> {E(f, "selfd", {}) : f \in {0, 1, 2, 4}}] : n \in 1..3} : InOrder(o)}
Ordered(o, d) == SelectSeq(o, LAMBDA e : e.f <= d.f) \o <<d>> \o SelectSeq(o, LAMBDA e : e.f > d.f)
Fates(o) == {o} \cup {Ordered(o, E(f, "destroyed", c)) : f \in {2, 3, 5}, c \in {{}, {Killed}}}
Old(events) == \A i \in DOMAIN events : events[i].cause = {}
MCEffects == [1..2 -> [start : {0, 3, 4}, end : {2, 3, 6}]]
Nothing == Script(6, <<>>, <<>>, <<>>)
MCScripts ==
    {Nothing} \cup {Script(6, c, <<>>, <<>>) : c \in {c \in MCDrawings : InOrder(c)} \cup MCLines \cup MCChats}
    \cup {s \in {Script(v, <<>>, e, <<>>) : v \in {5, 6}, e \in UNION {Fates(o) : o \in MCOrders}} :
              s.version = 5 => Old(s.events)}
    \cup {Script(6, <<>>, <<>>, r) : r \in MCEffects}
MCCommTeams == (1 :> 1) @@ (2 :> 2) @@ (7 :> -1) @@ (8 :> -1)
MCSpots == (1 :> [f \in 0..6 |-> {f}]) @@ (2 :> [f \in 0..6 |-> IF f = 3 \/ f < 1 THEN {10 + f} ELSE {}])

\* BrpReads: a file with two chunks' worth of sections after its head, one whose meta outgrows
\* the probe, one of a codec this page does not read.
Sec(tag, len) == [tag |-> tag, len |-> len]
File(ver, chunks, sections) == [ver |-> ver, chunks |-> chunks, sections |-> sections]
MCFiles ==
    <<File(6, <<[off |-> 1, len |-> 1]>>,
           <<Sec("M", 1), Sec("E", 1), Sec("C", 1), Sec("F", 2), Sec("G", 1), Sec("R", 2), Sec("W", 0)>>),
      File(5, <<>>, <<Sec("M", 3), Sec("K", 1)>>),
      File(4, <<>>, <<Sec("M", 1)>>)>>

\* LobbyPages: an account that sees every column and more, and one that sees few.
Pl(name, team, party, rating) ==
    [name |-> name, team |-> team, party |-> party, rating |-> rating, bonus |-> {0}, faction |-> "Random"]
Lobby(name, on, elapsed, players) ==
    [name |-> name, map |-> "m", inProgress |-> on, elapsed |-> elapsed, locked |-> on, passworded |-> FALSE,
     players |-> players, spectators |-> 2]
MCOnSite ==
    <<Lobby("a", TRUE, {829}, <<Pl("x", {1}, {5}, {27}), Pl("y", {2}, {}, {})>>), Lobby("b", FALSE, {}, <<>>),
      Lobby("c", TRUE, {3829}, <<Pl("z", {}, {6}, {3})>>)>>
MCLayouts == {<<"actions", "name", "team", "party", "rating", "bonus", "faction">>, <<"name", "rating", "party">>}

Init ==
    /\ family \in {"upkeep", "series", "rows", "queue", "archive", "signIn", "play", "overlay", "reads", "pages"}
    /\ family # "play" => game = CHOOSE g \in Games : g.ver = 4
    /\ family # "overlay" => recorded = Nothing
    /\ UpkeepInit /\ (family # "upkeep" => schema.landed = {})
    /\ RowsInit /\ (family # "rows" => api = CHOOSE a \in [detail : Details, whole : BOOLEAN] : TRUE)
    /\ QueueInit /\ (family # "queue" => jobs = CHOOSE j \in [rows : Tables, seeded : BOOLEAN] : TRUE)
    /\ ArchiveInit /\ (family # "archive" => store = {})
    /\ SignInInit /\ (family # "signIn" => setup.dev = "open")
    /\ PlayInit /\ OverlayInit
    /\ ReadsInit /\ (family # "reads" => ~server.loopback)
    /\ PagesInit /\ (stored = {} <=> Len(site.layout) = 3)
    /\ family # "pages" => stored = {} /\ site.live = {}

Next ==
    \/ family = "upkeep" /\ UpkeepNext /\ UNCHANGED <<runs, counts, pruned, now>>
       /\ UNCHANGED <<family, rowsVars, queueVars, archiveVars, signInVars, playVars, overlayVars, readVars, pageVars>>
    \/ family = "series" /\ UpkeepNext /\ UNCHANGED <<schema, derived, table>>
       /\ UNCHANGED <<family, rowsVars, queueVars, archiveVars, signInVars, playVars, overlayVars, readVars, pageVars>>
    \/ family = "rows" /\ RowsNext
       /\ UNCHANGED <<family, upkeepVars, queueVars, archiveVars, signInVars, playVars, overlayVars, readVars, pageVars>>
    \/ family = "queue" /\ QueueNext
       /\ UNCHANGED <<family, upkeepVars, rowsVars, archiveVars, signInVars, playVars, overlayVars, readVars, pageVars>>
    \/ family = "archive" /\ ArchiveNext
       /\ UNCHANGED <<family, upkeepVars, rowsVars, queueVars, signInVars, playVars, overlayVars, readVars, pageVars>>
    \/ family = "signIn" /\ SignInNext
       /\ UNCHANGED <<family, upkeepVars, rowsVars, queueVars, archiveVars, playVars, overlayVars, readVars, pageVars>>
    \/ family = "play" /\ PlayNext
       /\ UNCHANGED <<family, upkeepVars, rowsVars, queueVars, archiveVars, signInVars, overlayVars, readVars, pageVars>>
    \/ family = "overlay" /\ OverlayNext
       /\ UNCHANGED <<family, upkeepVars, rowsVars, queueVars, archiveVars, signInVars, playVars, readVars, pageVars>>
    \/ family = "reads" /\ ReadsNext
       /\ UNCHANGED <<family, upkeepVars, rowsVars, queueVars, archiveVars, signInVars, playVars, overlayVars, pageVars>>
    \/ family = "pages" /\ PagesNext
       /\ UNCHANGED <<family, upkeepVars, rowsVars, queueVars, archiveVars, signInVars, playVars, overlayVars, readVars>>

Spec == Init /\ [][Next]_<<family, upkeepVars, rowsVars, queueVars, archiveVars, signInVars, playVars, overlayVars, readVars, pageVars>>
=============================================================================
