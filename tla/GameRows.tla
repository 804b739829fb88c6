------------------------------ MODULE GameRows ------------------------------
(***************************************************************************)
(* One game on its way into the two tables a reader searches: published    *)
(* from a capture (PUT /api/replays/:id), refreshed from the BAR API by an *)
(* admin, mirrored by the sync or posted to the backfill; and the filter a *)
(* reader of the list writes against the catalog's row.                    *)
(* Optional values are sets of at most one element.  A name is a sequence  *)
(* of letters: 1 and 2 have capitals 11 and 12; 21 is a capital outside    *)
(* ASCII, whose small letter is 22.                                        *)
(***************************************************************************)
EXTENDS Integers, Sequences, FiniteSets, SequencesExt

CONSTANTS
    Details,        \* what the BAR API may say of the game, once its record has settled
    Bodies,         \* what a publisher may send
    Edits,          \* bound on publishes, refreshes and readings of the API
    RosterCap       \* CATALOG_PLAYERS_PER_ALLY

VARIABLES
    api,            \* the API's record: the settled detail, and whether its roster is whole yet
    replay,         \* the catalog's row ({}: none)
    mirrored,       \* the games mirror's row ({}: none)
    readings        \* history: what each row was last written from, and how many edits were made

rowsVars == <<api, replay, mirrored, readings>>

Some(opt) == CHOOSE x \in opt : TRUE
-----------------------------------------------------------------------------
(* The derivations every door shares.                                      *)

\* The options that are on when "1".
OnOptions ==
    [ranked_game |-> "ranked", map_waterislava |-> "lava", scavunitsforplayers |-> "scavUnits",
     experimentalextraunits |-> "extraUnits", unit_restrictions_nonukes |-> "noNukes",
     unit_restrictions_noendgamelrpc |-> "noEndgameLrpc", unit_restrictions_nolrpc |-> "noLrpc",
     unit_restrictions_noair |-> "noAir"]

\* The options with values of their own, and the values that are not notable.
EnumOptions ==
    [quick_start |-> [flag |-> "quickStart", plain |-> {"", "default", "disabled"}],
     commanderbuildersenabled |-> [flag |-> "comBuilders", plain |-> {"", "disabled"}],
     zombies |-> [flag |-> "zombies", plain |-> {"", "disabled"}]]

TweakSlots == {"tweakdefs", "tweakdefs9", "tweakunits", "tweakunits1"}

settingsFlags(mo) ==
    LET Is(o, v) == o \in DOMAIN mo /\ mo[o] = v
        Notable(o) == o \in DOMAIN mo /\ mo[o] \notin EnumOptions[o].plain
    IN {OnOptions[o] : o \in {o \in DOMAIN OnOptions : Is(o, "1")}}
       \cup {EnumOptions[o].flag : o \in {o \in DOMAIN EnumOptions : Notable(o)}}
       \cup {f \in {"unranked"} : Is("ranked_game", "0")}
       \cup {f \in {"ruins"} : Is("ruins", "enabled")}
       \cup {f \in {"mods"} : \E t \in TweakSlots \cap DOMAIN mo : mo[t] # ""}

\* The vocabulary the filter accepts.
FILTER_SETTINGS_FLAGS ==
    {"ranked", "unranked", "lava", "mods", "zombies", "ruins", "quickStart", "comBuilders",
     "noNukes", "noLrpc", "noEndgameLrpc", "scavUnits", "extraUnits", "noAir"}

\* A stable sort, the unrated last.
BestFirst(ps) ==
    LET Os(i) == IF ps[i].os = {} THEN -1000 ELSE Some(ps[i].os)
        order == SetToSortSeq(DOMAIN ps, LAMBDA i, j : Os(i) > Os(j) \/ (Os(i) = Os(j) /\ i < j))
    IN [k \in DOMAIN ps |-> ps[order[k]]]

parseRank(r) == r \cap (0 .. 15)

AtMost(s, n) == SubSeq(s, 1, IF Len(s) < n THEN Len(s) ELSE n)

\* Mutant: bots are put before the people, and the cap then trims people.
BotsFirst(a) ==
    LET named == SelectSeq(a.humans, LAMBDA p : p.name # <<>>)
        people == [k \in DOMAIN named |-> [named[k] EXCEPT !.rank = parseRank(@)]]
        bots == [k \in DOMAIN a.bots |-> [name |-> a.bots[k], os |-> {}, rank |-> {}]]
    IN bots \o BestFirst(people)

\* One side's people, best first, then its bots.
Side(a) ==
    LET named == SelectSeq(a.humans, LAMBDA p : p.name # <<>>)
        people == [k \in DOMAIN named |-> [named[k] EXCEPT !.rank = parseRank(@)]]
        bots == [k \in DOMAIN a.bots |-> [name |-> a.bots[k], os |-> {}, rank |-> {}]]
    IN BestFirst(people) \o bots

\* The sides with somebody on them, by ally id; {} when the reply names nobody.
playersFromApi(allies) ==
    LET listed == SetToSortSeq({a \in allies : Side(a) # <<>>}, LAMBDA a, b : a.ally < b.ally)
        Group(a) == [ally |-> a.ally, count |-> Len(Side(a)), players |-> AtMost(Side(a), RosterCap)]
    IN IF listed = <<>> THEN {} ELSE {[k \in DOMAIN listed |-> Group(listed[k])]}

\* The sides' sizes, largest first.
gameSizeSpec(players) ==
    IF players = {} THEN {}
    ELSE {SortSeq([k \in DOMAIN Some(players) |-> Some(players)[k].count], LAMBDA m, n : m > n)}

SumOf(s) == FoldSeq(LAMBDA n, total : n + total, 0, s)

\* The roster is the authority, the size spec the fallback.
derivePlayerCount(players, gameSize) ==
    IF players # {} THEN {SumOf([k \in DOMAIN Some(players) |-> Some(players)[k].count])}
    ELSE {SumOf(spec) : spec \in gameSize}
-----------------------------------------------------------------------------
(* The doors.                                                              *)

\* The API's record while it is still being written lacks the last side's last player.
Detail ==
    IF api.whole THEN api.detail
    ELSE [api.detail EXCEPT !.allies = {IF a.ally = 0 THEN a ELSE [a EXCEPT !.humans = AtMost(@, Len(@) - 1)] : a \in @}]

gameFromApi(d) ==
    LET players == playersFromApi(d.allies)
        size == gameSizeSpec(players)
    IN [start |-> d.start, duration |-> d.duration, map |-> d.map, gameSize |-> size,
        playerCount |-> derivePlayerCount(players, size), players |-> players,
        settings |-> UNION {settingsFlags(mo) : mo \in d.options}]

\* A field of the wrong type refuses the body, and so does a view that names no side.
Acceptable(b) ==
    /\ b.bad = {}
    /\ b.view = {"ally"} => b.uploaderAlly # {}
    /\ \A ps \in b.players : \A k \in DOMAIN ps :
           /\ Len(ps[k].players) <= RosterCap
           /\ \A p \in Range(ps[k].players) : p.name # <<>> /\ p.rank = parseRank(p.rank)

\* What the index owns (placeholder, processing, uploads) is not the body's to say.
sanitizeEntry(b) ==
    [start |-> b.start, duration |-> b.duration, map |-> b.map, gameSize |-> b.gameSize,
     playerCount |-> derivePlayerCount(b.players, b.gameSize), players |-> b.players,
     settings |-> b.settings, placeholder |-> FALSE]

Edited(door) == readings' = [readings EXCEPT ![door] = IF api.whole THEN "whole" ELSE "early", !.edits = @ + 1]

\* PUT /api/replays/:id.
Publishes(b) ==
    /\ replay = {}
    /\ IF Acceptable(b) THEN replay' = {sanitizeEntry(b)} ELSE UNCHANGED replay
    /\ readings' = [readings EXCEPT !.replay = "capture", !.edits = @ + 1]
    /\ UNCHANGED <<api, mirrored>>

\* POST /api/admin/replays/:id/refresh-settings: a roster the API lacks erases nothing.
Refreshes ==
    /\ Detail.options # {}
    /\ replay # {}
    /\ LET row == Some(replay)
           said == playersFromApi(Detail.allies)
           players == IF said = {} THEN row.players ELSE said
       IN replay' = {[row EXCEPT !.settings = UNION {settingsFlags(mo) : mo \in Detail.options}, !.players = players,
                                 !.playerCount = derivePlayerCount(players, row.gameSize)]}
    /\ Edited("replay")
    /\ UNCHANGED <<api, mirrored>>

\* The sync inserts a game once; the backfill, asked to refresh, writes it again.
Mirrors(refresh) ==
    /\ mirrored = {} \/ refresh
    /\ mirrored' = {gameFromApi(Detail)}
    /\ Edited("mirrored")
    /\ UNCHANGED <<api, replay>>

Settles == ~api.whole /\ api' = [api EXCEPT !.whole = TRUE] /\ UNCHANGED <<replay, mirrored, readings>>

RowsInit ==
    /\ api \in [detail : Details, whole : BOOLEAN]
    /\ replay = {} /\ mirrored = {}
    /\ readings = [replay |-> "none", mirrored |-> "none", edits |-> 0]

RowsNext ==
    \/ readings.edits < Edits
       /\ \/ \E b \in Bodies : Publishes(b)
          \/ Refreshes
          \/ \E refresh \in BOOLEAN : Mirrors(refresh)
    \/ Settles
-----------------------------------------------------------------------------
(* A reader's filter against the row.                                       *)

Day == 4        \* seconds in a day

\* A letter in small: what the filter's parser does, and what LIKE does.
toLowerCase(c) == IF c \in 11 .. 20 THEN c - 10 ELSE IF c = 21 THEN 22 ELSE c
likeFold(c) == IF c \in 11 .. 20 THEN c - 10 ELSE c
Small(s, fold(_)) == [k \in DOMAIN s |-> fold(s[k])]

emptyFilter == [from |-> {}, to |-> {}, map |-> {}, players |-> {}, duration |-> {}, player |-> {}, settings |-> {}]

\* Unix seconds, or a day; a day that ends a range is meant whole.
Date(raw, endOfDay) ==
    IF ~raw.day THEN raw.at
    ELSE IF endOfDay THEN raw.at * Day + Day - 1 ELSE raw.at * Day

\* The request's dates and name read; an unknown flag refuses it ({}).
parseReplayFilter(q) ==
    IF ~(q.settings \subseteq FILTER_SETTINGS_FLAGS) THEN {}
    ELSE {[q EXCEPT !.from = {Date(raw, FALSE) : raw \in @}, !.to = {Date(raw, TRUE) : raw \in @},
                    !.player = {Small(s, toLowerCase) : s \in @}]}

RosterNames(row) ==
    {p.name : p \in UNION {UNION {Range(ps[k].players) : k \in DOMAIN ps} : ps \in row.players}}

\* The WHERE: an unset bound narrows nothing, an unknown value is in no range.
Matches(row, f) ==
    /\ \A n \in f.from : \E m \in row.start : m >= n
    /\ \A n \in f.to : \E m \in row.start : m <= n
    /\ \A n \in f.map : row.map = {n}
    /\ \A r \in f.players : \E n \in row.playerCount : r[1] <= n /\ n <= r[2]
    /\ \A r \in f.duration : \E n \in row.duration : r[1] <= n /\ n <= r[2]
    /\ \A s \in f.player : \E name \in RosterNames(row) : IsPrefix(Small(s, likeFold), Small(name, likeFold))
    /\ f.settings \subseteq row.settings

\* GET /api/replays, with room for the row on its page.
list(q) == {row \in replay : \E f \in parseReplayFilter(q) : Matches(row, f)}
-----------------------------------------------------------------------------
(* Properties.                                                             *)

Finds(q) == list(q) = replay

Ascii(name) == \A k \in DOMAIN name : name[k] < 21

ShownIsFindable ==
    \A row \in replay :
        /\ Finds([emptyFilter EXCEPT !.settings = row.settings])
        /\ \A n \in row.playerCount : Finds([emptyFilter EXCEPT !.players = {<<n, n>>}])
        /\ \A n \in row.duration : Finds([emptyFilter EXCEPT !.duration = {<<n, n>>}])
        /\ Finds([emptyFilter EXCEPT !.map = row.map])
        /\ \A n \in row.start :
               LET day == {[day |-> TRUE, at |-> n \div Day]}
               IN Finds([emptyFilter EXCEPT !.from = day, !.to = day])
        /\ \A name \in {name \in RosterNames(row) : Ascii(name)} : \A k \in DOMAIN name :
               Finds([emptyFilter EXCEPT !.player = {SubSeq(name, 1, k)}])
        /\ readings.replay = "whole" =>
               \A a \in api.detail.allies : \A p \in Range(a.humans) :
                   p.name # <<>> /\ Ascii(p.name) => Finds([emptyFilter EXCEPT !.player = {p.name}])

DoorsAgree ==
    \A row \in replay, game \in mirrored :
        readings.replay \in {"whole", "early"} /\ readings.replay = readings.mirrored
            => /\ row.settings = game.settings
               /\ game.players # {} => row.players = game.players /\ row.playerCount = game.playerCount

\* Whatever door a row came by last, the list finds it by everything it shows: its badges,
\* its player count, its map, its length, the day it was played, and any beginning of the
\* name of anybody on it; and once the API's whole record was read, by everybody who
\* played.  (A name with a capital outside ASCII is not found by itself: LIKE folds ASCII
\* only.)  And "a mirrored game and a refreshed catalog row describe an identical game
\* identically" (gameFromApi): read from the same state of the API's record, the two rows
\* agree on badges, roster and player count, however they were written before.
RowsAreFindable == ShownIsFindable /\ DoorsAgree
=============================================================================
