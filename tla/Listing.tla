------------------------------ MODULE Listing -------------------------------
(***************************************************************************)
(* The landing page's two lists (app.js) and the mirror's keyset pages     *)
(* behind one of them (ReplayIndex.gamesPage).  The replay list pages by   *)
(* offset, the games list by a cursor with a trail back; both share the    *)
(* filters in the URL, and a reply may come when a newer request is out.   *)
(***************************************************************************)
EXTENDS Integers, Sequences, FiniteSetsExt

CONSTANTS
    Universe,        \* games, by number
    Late,            \* those the mirror learns of while the page is open
    EndUnix, Count, Flagged,   \* when each ended, its players, and the games with the flag
    Filters,         \* what the bar is set to: "all", "players" or "flag"
    BranchMax,       \* GAMES_COUNT_BRANCH_MAX
    ScanMax,         \* GAMES_SCAN_MAX
    GamesLimit,      \* GAMES_PAGE
    MaxReads, MaxPage, MaxVisits   \* bounds: requests, replay pages, history entries

Unset == "none"
First == 0   \* the cursor of the first page, and of the page after the last: no game
ASSUME ListingAssumption ==
    /\ EndUnix \in [Universe -> Nat] /\ Count \in [Universe -> Nat] /\ Flagged \subseteq Universe
    /\ Universe \subseteq Nat \ {0} /\ IsFiniteSet(Universe) /\ Late \subseteq Universe
    /\ Filters \subseteq {"all", "players", "flag"} /\ "all" \in Filters
    /\ {BranchMax, GamesLimit} \subseteq Nat \ {0}
    /\ {ScanMax, MaxReads, MaxPage, MaxVisits} \subseteq Nat

VARIABLES
    visits,     \* the browser's history, the URL last: section and filter
    list,       \* the replay list: page, the query it was read with, what is shown
    games,      \* the games list: cursors, trail, rows, what is shown
    sent,       \* requests without a reply yet
    reads,      \* requests so far, which number them (reloadSeq, gamesSeq)
    mirror,     \* the games table
    torn        \* history: the filter was changed on the other list mid-walk

listVars == <<visits, list, games, sent, reads, mirror, torn>>

url == visits[Len(visits)]
Url(tab, q) == [tab |-> tab, q |-> q]
Page(q, page) == [q |-> q, page |-> page]
-----------------------------------------------------------------------------
(* The mirror's pages.                                                     *)

\* Latest-ended first, then by id.
before(a, b) == EndUnix[a] > EndUnix[b] \/ (EndUnix[a] = EndUnix[b] /\ a < b)
FirstOf(S) == CHOOSE a \in S : \A b \in S \ {a} : before(a, b)
LastOf(S) == CHOOSE a \in S : \A b \in S \ {a} : before(b, a)
Take(S, n) == {a \in S : Cardinality({b \in S : before(b, a)}) < n}

\* The filter "players" is the flag with a lower bound of 2 players.
Matches(g, q) == (q = "players" => Count[g] >= 2) /\ (q # "all" => g \in Flagged)

\* The index walks that answer a filter: one per player count, or the whole order.
branches(base, q) ==
    IF q = "players"
    THEN [n \in 2 .. BranchMax + 1 |-> {g \in base : IF n > BranchMax THEN Count[g] > BranchMax
                                                     ELSE Count[g] = n}]
    ELSE [n \in {1} |-> base]

\* Mutant: a page goes as far as any of its walks read.
gamesPageFull(limit, after, q) ==
    LET base == {g \in mirror : after = First \/ before(after, g)}
        walks == branches(base, q)
        per == IF q = "all" THEN limit + 1
               ELSE Max({limit + 1, ScanMax \div Cardinality(DOMAIN walks)})
        got == [n \in DOMAIN walks |-> Take(walks[n], per)]
        rows == UNION {got[n] : n \in DOMAIN got}
        hits == {g \in rows : Matches(g, q)}
        page == Take(hits, limit)
        cut == {n \in DOMAIN got : Cardinality(got[n]) = per}
    IN [rows |-> page,
        next |-> IF Cardinality(hits) > limit THEN LastOf(page)
                 ELSE IF cut # {} THEN LastOf(rows) ELSE First]

\* Each walk reads so many rows; past the earliest cut-off point the merged order has holes.
gamesPage(limit, after, q) ==
    LET base == {g \in mirror : after = First \/ before(after, g)}
        walks == branches(base, q)
        per == IF q = "all" THEN limit + 1
               ELSE Max({limit + 1, ScanMax \div Cardinality(DOMAIN walks)})
        got == [n \in DOMAIN walks |-> Take(walks[n], per)]
        cut == {LastOf(got[n]) : n \in {n \in DOMAIN got : Cardinality(got[n]) = per}}
        frontier == FirstOf(cut)
        read == UNION {got[n] : n \in DOMAIN got}
        rows == IF cut = {} THEN read ELSE {g \in read : ~before(frontier, g)}
        hits == {g \in rows : Matches(g, q)}
        page == Take(hits, limit)
    IN [rows |-> page,
        next |-> IF Cardinality(hits) > limit THEN LastOf(page)
                 ELSE IF cut # {} THEN frontier ELSE First]
-----------------------------------------------------------------------------
(* Requests.                                                               *)

NoGames == [after |-> First, next |-> First, trail |-> <<>>, rows |-> {}, seq |-> 0, shown |-> Unset]

\* What one call to reloadList or refreshGames sends, with its number.
Ask(what, q, at) == [what |-> what, q |-> q, at |-> at, seq |-> reads + 1]
refreshGames(g, q) ==
    /\ reads < MaxReads /\ reads' = reads + 1
    /\ games' = [g EXCEPT !.seq = reads + 1]
    /\ sent' = sent \cup {Ask("games", q, g.after)}

\* On the Games section a reload starts the walk over and leaves the replay list for later.
reloadList(tab, q, page) ==
    IF tab = "games"
    THEN /\ refreshGames([games EXCEPT !.after = First, !.next = First, !.trail = <<>>], q)
         /\ list' = [list EXCEPT !.query = Unset]
    ELSE /\ reads < MaxReads /\ reads' = reads + 1
         /\ list' = [list EXCEPT !.page = page, !.query = q, !.seq = reads + 1]
         /\ sent' = sent \cup {Ask("replays", q, page)}
         /\ UNCHANGED games

\* applyHomeTab: the Games section reads whenever it is shown, the replay list when its filters changed.
applyHomeTab(tab, q) ==
    CASE tab = "games" -> refreshGames(games, q) /\ UNCHANGED list
      [] tab = "replays" /\ list.query # q -> reloadList(tab, q, 0)
      [] OTHER -> UNCHANGED <<list, games, sent, reads>>

\* Mid-walk, under other filters than the walk's.
Torn(q) ==
    torn \/ (games.shown # q /\ ({games.after, games.next} # {First} \/ games.trail # <<>>))
-----------------------------------------------------------------------------
(* The reader.                                                             *)

setFilter(q) ==
    /\ q # url.q
    /\ visits' = [visits EXCEPT ![Len(visits)].q = q]
    /\ reloadList(url.tab, q, 0)
    /\ torn' = (torn /\ url.tab # "games")
    /\ UNCHANGED mirror

\* A pick in the left menu is a new history entry; so is a pick of what is shown, without one.
setHomeTab(tab) ==
    /\ IF tab = url.tab THEN UNCHANGED visits
       ELSE Len(visits) < MaxVisits /\ visits' = Append(visits, Url(tab, url.q))
    /\ applyHomeTab(tab, url.q)
    /\ torn' = IF tab = "games" THEN Torn(url.q) ELSE torn
    /\ UNCHANGED mirror

homePopstate ==
    /\ Len(visits) > 1
    /\ visits' = SubSeq(visits, 1, Len(visits) - 1)
    /\ LET to == visits[Len(visits) - 1]
       IN /\ applyHomeTab(to.tab, to.q)
          /\ torn' = IF to.tab = "games" THEN Torn(to.q) ELSE torn
    /\ UNCHANGED mirror

goPage(delta) ==
    /\ url.tab = "replays"
    /\ list.page + delta \in 0 .. MaxPage /\ (delta > 0 => list.hasNext)
    /\ reloadList("replays", url.q, list.page + delta)
    /\ UNCHANGED <<visits, mirror, torn>>

GamesPager == url.tab = "games" /\ games.shown \notin {Unset, "error"}

gamesPageNext ==
    /\ GamesPager /\ games.next # First
    /\ refreshGames([games EXCEPT !.trail = Append(@, [after |-> games.after, rows |-> games.rows]),
                                  !.after = games.next, !.next = First], url.q)
    /\ UNCHANGED <<visits, list, mirror, torn>>

gamesPagePrev ==
    /\ GamesPager /\ games.trail # <<>>
    /\ LET n == Len(games.trail)
       IN refreshGames([games EXCEPT !.trail = SubSeq(@, 1, n - 1), !.after = games.trail[n].after,
                                     !.next = First], url.q)
    /\ UNCHANGED <<visits, list, mirror, torn>>

Reload ==
    /\ url.tab = "games"
    /\ refreshGames(games, url.q)
    /\ UNCHANGED <<visits, list, mirror, torn>>

\* refreshQueue's re-listing, for a job that finished since: an admin's, whatever is shown.
Relist ==
    /\ list.shown.q # Unset
    /\ reloadList(url.tab, url.q, 0)
    /\ torn' = (torn /\ url.tab # "games")
    /\ UNCHANGED <<visits, mirror>>
-----------------------------------------------------------------------------
(* The site.                                                               *)

\* A game that ended is mirrored when the cron gets to it, in any order.
Mirrored(g) ==
    /\ g \notin mirror /\ mirror' = mirror \cup {g}
    /\ UNCHANGED <<visits, list, games, sent, reads, torn>>

\* Mutant: whichever reply comes last is shown.
NewestAny(r) == TRUE

Newest(r) == r.seq = IF r.what = "games" THEN games.seq ELSE list.seq

\* fetchReplayList's reply; whether one more row came says if there is a next page.
ListReply(r, hasNext) ==
    /\ r \in sent /\ sent' = sent \ {r} /\ r.what = "replays"
    /\ list' = IF Newest(r) THEN [list EXCEPT !.hasNext = hasNext, !.shown = Page(r.q, r.at)]
               ELSE list
    /\ UNCHANGED <<visits, games, reads, mirror, torn>>

GamesReply(r) ==
    /\ r \in sent /\ sent' = sent \ {r} /\ r.what = "games"
    /\ LET page == gamesPage(GamesLimit, r.at, r.q)
       IN games' = IF Newest(r) THEN [games EXCEPT !.rows = page.rows, !.next = page.next, !.shown = r.q]
                   ELSE games
    /\ UNCHANGED <<visits, list, reads, mirror, torn>>

\* A read fails: the replay list says so for the newest only, the games list for any.
Fails(r) ==
    /\ r \in sent /\ sent' = sent \ {r}
    /\ IF r.what = "games"
       THEN games' = [games EXCEPT !.shown = "error"] /\ UNCHANGED list
       ELSE list' = (IF Newest(r) THEN [list EXCEPT !.shown.q = "error"] ELSE list) /\ UNCHANGED games
    /\ UNCHANGED <<visits, reads, mirror, torn>>
-----------------------------------------------------------------------------
\* The page opens on the replay list, whose first read is out (ensureHomeData).
ListInit ==
    /\ visits = <<Url("replays", "all")>>
    /\ list = [page |-> 0, query |-> "all", seq |-> 1, hasNext |-> FALSE, shown |-> Page(Unset, 0)]
    /\ games = NoGames
    /\ reads = 1 /\ sent = {[what |-> "replays", q |-> "all", at |-> 0, seq |-> 1]}
    /\ mirror = Universe \ Late /\ torn = FALSE

Visitor ==
    \/ \E q \in Filters : setFilter(q)
    \/ \E tab \in {"replays", "games"} : setHomeTab(tab)
    \/ homePopstate \/ goPage(1) \/ goPage(-1) \/ gamesPageNext \/ gamesPagePrev \/ Reload \/ Relist

Site ==
    \/ \E g \in Late : Mirrored(g)
    \/ \E r \in sent : GamesReply(r) \/ Fails(r) \/ \E b \in BOOLEAN : ListReply(r, b)

ListNext == Visitor \/ Site
ListSpec == ListInit /\ [][ListNext]_listVars
-----------------------------------------------------------------------------
(* What the lists promise.                                                 *)

Out(what, seq) == \E r \in sent : r.what = what /\ r.seq = seq

\* "ignore a reply overtaken by a newer request" and "a filter changed on the Games section
\* leaves the list stale, and applyHomeTab re-reads it" (app.js): with the newest read answered,
\* the section on screen shows the page and the filters that the URL and the pager say.
LatestIsShown ==
    /\ (url.tab = "replays" /\ ~Out("replays", list.seq) /\ list.shown.q # "error")
          => list.shown = Page(url.q, list.page)
    /\ (url.tab = "games" /\ ~Out("games", games.seq) /\ games.shown # "error")
          => games.shown = url.q

Walked == UNION {games.trail[i].rows : i \in DOMAIN games.trail}

\* A keyset walk "never repeats a row as games keep landing" (gamesPage) and, for all its cut-off
\* scans, misses none: down the trail every matching game that was there all along and comes
\* before the cursor has been shown, on one page only, unless the filter was changed on the
\* other list mid-walk.
WalkIsWhole ==
    (url.tab = "games" /\ ~torn) =>
        /\ \A i, j \in DOMAIN games.trail : i # j => games.trail[i].rows \cap games.trail[j].rows = {}
        /\ games.after # First =>
              {g \in Universe \ Late : Matches(g, url.q) /\ ~before(games.after, g)} \subseteq Walked
        /\ (~Out("games", games.seq) /\ games.shown # "error") => games.rows \cap Walked = {}
=============================================================================
