----------------------------- MODULE LobbyPages -----------------------------
(***************************************************************************)
(* What the lobby sync reads (worker/teiserver.ts): the session that logs  *)
(* in to teiserver's site and is kept between ticks, the two workers that  *)
(* read show pages with it at once while it may expire under them, and the *)
(* tables scraped from the pages.  LobbySync models what is done with it.  *)
(* A blank cell and a null are {}; a text is its words and its number.     *)
(***************************************************************************)
EXTENDS Integers, Sequences, FiniteSets, SequencesExt

CONSTANTS
    OnSite,         \* the lobbies, in the list's order: what is true of each
    Layouts,        \* the header rows a show page may have, by the account's class
    MaxIssued,      \* bound: tokens issued
    MaxTicks, MaxBreaks   \* bounds: syncs, and requests and writes that fail

SHOW_CONCURRENCY == 2
Workers == 1..SHOW_CONCURRENCY
ListPage == 0                                 \* LOBBIES_PATH; the others by their place in OnSite

VARIABLES
    site,       \* teiserver: the sessions that are live, tokens and keys issued, the layout (external)
    stored,     \* the teiserver_session row, if any: a jar
    session,    \* the tick's TeiserverSession: its jar, and the login in flight
    fetches,    \* what each worker is doing
    poll,       \* which sync, and the pages left to read
    pages,      \* what the tick has made of each page
    noted        \* history: breaks; excused workers; whether the jar may differ from the stored one

pageVars == <<site, stored, session, fetches, poll, pages, noted>>

NoJar == [token |-> {}, key |-> {}]
Resting == [page |-> ListPage, at |-> "none", sent |-> NoJar, retried |-> FALSE]
-----------------------------------------------------------------------------
(* External: how teiserver renders a lobby.                                *)

Text(words, num) == [words |-> words, num |-> num]
Blank == Text("", {})
Cell(text, icon, colour) == [text |-> text, icon |-> icon, colour |-> colour]
Plain(text) == Cell(text, FALSE, {})

\* "13:49", or "1:03:49" after an hour.
Clock(sec) ==
    IF sec < 3600 THEN <<sec \div 60, sec % 60>> ELSE <<sec \div 3600, (sec % 3600) \div 60, sec % 60>>
IndexRow(id) ==
    LET l == OnSite[id]
    IN [id |-> id,
        cells |-> <<Plain(Text(l.name, {})), Plain(Text(l.map, {})),
                    Cell([clock |-> IF l.elapsed = {} THEN <<>> ELSE Clock(CHOOSE s \in l.elapsed : TRUE)], l.inProgress, {}),
                    Cell(Blank, l.locked, {}), Cell(Blank, l.passworded, {}),
                    Plain(Text("", {Len(l.players) + l.spectators})), Plain(Text("", {Len(l.players)})),
                    Plain(Text("", {l.spectators}))>>]

\* A party is the colour of an empty cell; a number may have words around it.
PlayerCell(p, label) ==
    CASE label = "party" -> Cell(Blank, FALSE, p.party)
      [] label = "faction" -> Plain(Text(p.faction, {}))
      [] label = "name" -> Plain(Text(p.name, {}))
      [] label \in {"team", "rating", "bonus"} -> Plain(Text(label, p[label]))
      [] OTHER -> Plain(Text(label, {7}))
ShowPage(id) ==
    LET rows == OnSite[id].players
    IN [headers |-> site.layout,
        body |-> [r \in DOMAIN rows |-> [c \in DOMAIN site.layout |-> PlayerCell(rows[r], site.layout[c])]]]
-----------------------------------------------------------------------------
(* The parsers.                                                            *)

parseNumber(text) == text.num
parseElapsed(text) ==
    CASE Len(text.clock) = 2 -> {text.clock[1] * 60 + text.clock[2]}
      [] Len(text.clock) = 3 -> {text.clock[1] * 3600 + text.clock[2] * 60 + text.clock[3]}
      [] OTHER -> {}
Count(text) == IF parseNumber(text) = {} THEN 0 ELSE CHOOSE n \in parseNumber(text) : TRUE

\* By position: this table is the same for every account.
parseLobbyIndex(rows) ==
    [r \in DOMAIN rows |->
        LET tds == rows[r].cells
        IN [id |-> rows[r].id, name |-> tds[1].text.words, map |-> tds[2].text.words,
            inProgress |-> tds[3].icon, elapsedSec |-> parseElapsed(tds[3].text),
            locked |-> tds[4].icon, passworded |-> tds[5].icon,
            memberCount |-> Count(tds[6].text), playerCount |-> Count(tds[7].text),
            spectatorCount |-> Count(tds[8].text)]]

partyKey(cell) == cell.colour

\* By header label, as a moderator sees more columns.  A row without a name is skipped.
parseLobbyShowRoster(page) ==
    LET col(label) == {i \in DOMAIN page.headers : page.headers[i] = label /\ \A j \in 1..(i - 1) : page.headers[j] # label}
        At(row, label) == IF col(label) = {} THEN Plain(Blank) ELSE row[CHOOSE i \in col(label) : TRUE]
        Player(row) ==
            [name |-> At(row, "name").text.words, party |-> partyKey(At(row, "party")),
             team |-> parseNumber(At(row, "team").text), rating |-> parseNumber(At(row, "rating").text),
             bonus |-> parseNumber(At(row, "bonus").text), faction |-> At(row, "faction").text.words]
    IN SelectSeq([r \in DOMAIN page.body |-> Player(page.body[r])], LAMBDA p : p.name # "")
-----------------------------------------------------------------------------
(* TeiserverSession.                                                       *)

\* Its own jar wins over what was stored.
seedCookies(jar, old) == [n \in DOMAIN jar |-> IF jar[n] = {} THEN old[n] ELSE jar[n]]

\* Set-Cookie over the jar; the empty value (0 here) deletes.
captureCookies(jar, set) == [n \in DOMAIN jar |-> IF set[n] = {} THEN jar[n] ELSE set[n] \ {0}]
Set(token, key) == [token |-> token, key |-> key]

\* The teiserver_session row: one by construction, the whole jar at a time.
teiserverCookies == IF stored = {} THEN NoJar ELSE CHOOSE jar \in stored : TRUE
teiserverCookiesPut(jar) == stored' = {jar}

\* notifyCookies: the whole jar.  Calls on one stub arrive in order, so the row is written
\* here and its awaiter goes on later.
notifyCookies(jar) == teiserverCookiesPut(jar)

Goes(w, at) == [fetches EXCEPT ![w].at = at]
Joined == {w \in Workers : fetches[w].at = "joined"}
Breaks == noted.breaks < MaxBreaks
Broke(who, n) == noted' = [noted EXCEPT !.breaks = @ + n, !.excused = @ \cup who, !.apart = TRUE]

\* webFetch: the cookies go as they are when it is called.
webFetch(f, jar) == [f EXCEPT !.at = "sent", !.sent = jar]

\* ensureLogin and, in the same turn of the event loop, the request: with the cookie there is,
\* or after the login in flight, or after a new one, which clears the jar.
ensureLogin(w, f, jar) ==
    IF jar.token # {}
    THEN fetches' = [fetches EXCEPT ![w] = webFetch(f, jar)] /\ session' = [session EXCEPT !.jar = jar]
    ELSE /\ fetches' = [fetches EXCEPT ![w] = [f EXCEPT !.at = "joined"]]
         /\ session' = IF session.login = "none" THEN [jar |-> NoJar, login |-> "form", csrf |-> {}]
                       ELSE [session EXCEPT !.jar = jar]

\* login: the form with its CSRF token, for the key it comes with ...
LoginForm ==
    /\ session.login = "form" /\ site.keys < 2 * MaxIssued
    /\ site' = [site EXCEPT !.keys = @ + 1]
    /\ session' = [jar |-> captureCookies(session.jar, Set({}, {site'.keys})), login |-> "post", csrf |-> {site'.keys}]
    /\ UNCHANGED <<stored, fetches, poll, pages, noted>>
\* ... the POST, with the jar as it is by then, which another answer may have written to ...
LoginPost ==
    /\ session.login = "post"
    /\ session' = [session EXCEPT !.login = IF session.jar.key = session.csrf THEN "posted" ELSE "refused"]
    /\ UNCHANGED <<site, stored, fetches, poll, pages, noted>>
\* ... and the redirect with the new token, which is handed to the row.
LoginDone ==
    /\ session.login = "posted" /\ site.issued < MaxIssued
    /\ site' = [site EXCEPT !.issued = @ + 1, !.keys = @ + 1, !.live = @ \cup {site.issued + 1}]
    /\ LET jar == captureCookies(session.jar, Set({site'.issued}, {site'.keys}))
       IN /\ session' = [jar |-> jar, login |-> "notify", csrf |-> {}]
          /\ notifyCookies(jar)
    /\ UNCHANGED <<fetches, poll, pages, noted>>

\* All who joined go on; the next to find no token starts a login of its own.
LoginOver ==
    /\ session.login = "notify"
    /\ session' = [session EXCEPT !.login = "none"]
    /\ fetches' = [w \in Workers |-> IF w \in Joined THEN webFetch(fetches[w], session.jar) ELSE fetches[w]]
    /\ UNCHANGED <<site, stored, poll, pages, noted>>
\* Or all are thrown what it threw: a request or the write failed, or the form was refused.
LoginFails ==
    /\ session.login \in {"form", "posted", "refused", "notify"}
    /\ IF session.login = "refused" THEN Broke(Joined, 0) ELSE Breaks /\ Broke(Joined, 1)
    /\ session' = [session EXCEPT !.login = "none"]
    /\ fetches' = [w \in Workers |-> IF w \in Joined THEN [fetches[w] EXCEPT !.at = "thrown"] ELSE fetches[w]]
    /\ UNCHANGED <<site, stored, poll, pages>>

Live(w) == fetches[w].sent.token # {} /\ fetches[w].sent.token \subseteq site.live

\* Mutant: the redirect is taken for the answer.
NoSecondTry(w, drops) ==
    /\ fetches[w].at = "sent" /\ ~Live(w)
    /\ fetches' = Goes(w, "thrown")
    /\ UNCHANGED <<site, stored, session, poll, pages, noted>>

\* isLoginRedirect: once, the cookie goes and the login is done again.  An answer to an old
\* request that comes while a login's write is awaited takes the new cookie with it.
\* The second redirect throws, and may have deleted the cookie, which the row is told of.
Redirected(w, drops) ==
    /\ fetches[w].at = "sent" /\ ~Live(w)
    /\ IF fetches[w].retried
       THEN LET jar == captureCookies(session.jar, Set(IF drops THEN {0} ELSE {}, {}))
            IN /\ fetches' = Goes(w, "thrown") /\ session' = [session EXCEPT !.jar = jar]
               /\ IF jar # session.jar THEN notifyCookies(jar) ELSE UNCHANGED stored
       ELSE /\ UNCHANGED stored
            /\ ensureLogin(w, [fetches[w] EXCEPT !.retried = TRUE], [session.jar EXCEPT !.token = {}])
    /\ noted' = IF session.login = "notify"
               THEN [noted EXCEPT !.excused = @ \cup Joined \cup {w}, !.apart = TRUE] ELSE noted
    /\ UNCHANGED <<site, poll, pages>>

\* A page, perhaps with a new key, which the row is told of.  One that comes between a
\* login's form and its POST puts the form's key out.
Answered200(w, rotates) ==
    LET jar == captureCookies(session.jar, Set({}, IF rotates THEN {site.keys + 1} ELSE {}))
    IN /\ fetches[w].at = "sent" /\ Live(w)
       /\ rotates => site.keys < 2 * MaxIssued
       /\ site' = IF rotates THEN [site EXCEPT !.keys = @ + 1] ELSE site
       /\ session' = [session EXCEPT !.jar = jar]
       /\ IF jar # session.jar THEN notifyCookies(jar) /\ fetches' = Goes(w, "notify")
          ELSE UNCHANGED stored /\ fetches' = Goes(w, "read")
       /\ UNCHANGED <<poll, pages, noted>>
Notified(w) ==
    /\ fetches[w].at = "notify"
    /\ fetches' = Goes(w, "read")
    /\ UNCHANGED <<site, stored, session, poll, pages, noted>>
\* The request or the write fails, times out or has another status.
FetchThrows(w) ==
    /\ fetches[w].at \in {"sent", "notify"} /\ Breaks
    /\ fetches' = Goes(w, "thrown") /\ Broke({w}, 1)
    /\ UNCHANGED <<site, stored, session, poll, pages>>
-----------------------------------------------------------------------------
(* A tick.                                                                 *)

\* syncLobbies: a session seeded with the stored jar reads the list.
Polls ==
    /\ poll.at = "rest" /\ poll.n < MaxTicks
    /\ poll' = [n |-> poll.n + 1, at |-> "list", left |-> <<>>]
    /\ ensureLogin(1, Resting, seedCookies(NoJar, teiserverCookies))
    /\ pages' = <<>> /\ noted' = [noted EXCEPT !.excused = {}, !.apart = FALSE]
    /\ UNCHANGED <<site, stored>>

\* The list is read: the show pages of what is in progress are next (pool).
ListRead ==
    /\ poll.at = "list" /\ fetches[1].at = "read"
    /\ LET list == parseLobbyIndex([id \in DOMAIN OnSite |-> IndexRow(id)])
           ids == [r \in DOMAIN list |-> list[r].id]
           running == SelectSeq(ids, LAMBDA id : \E r \in DOMAIN list : list[r].id = id /\ list[r].inProgress)
       IN /\ pages' = (ListPage :> [list |-> list])
          /\ poll' = [poll EXCEPT !.at = "shows", !.left = running]
    /\ fetches' = [w \in Workers |-> Resting]
    /\ noted' = [noted EXCEPT !.excused = {}]
    /\ UNCHANGED <<site, stored, session>>
\* The login or the list fails: that is the run.
ListFails ==
    /\ poll.at = "list" /\ fetches[1].at = "thrown"
    /\ pages' = (ListPage :> [lost |-> 1 \in noted.excused])
    /\ poll' = [poll EXCEPT !.at = "rest"]
    /\ fetches' = [w \in Workers |-> Resting]
    /\ UNCHANGED <<site, stored, session, noted>>

\* pool: a worker with nothing to do takes the next page.
TakesPage(w) ==
    /\ poll.at = "shows" /\ fetches[w].at = "none" /\ poll.left # <<>>
    /\ ensureLogin(w, [Resting EXCEPT !.page = Head(poll.left)], session.jar)
    /\ poll' = [poll EXCEPT !.left = Tail(@)]
    /\ noted' = [noted EXCEPT !.excused = @ \ {w}]
    /\ UNCHANGED <<site, stored, pages>>
\* The roster, or null for a page that threw.
PageMade(w) ==
    LET f == fetches[w]
    IN /\ poll.at = "shows" /\ f.at \in {"read", "thrown"}
       /\ pages' = (f.page :> IF f.at = "read" THEN [roster |-> parseLobbyShowRoster(ShowPage(f.page))]
                              ELSE [lost |-> w \in noted.excused]) @@ pages
       /\ fetches' = [fetches EXCEPT ![w] = Resting]
       /\ UNCHANGED <<site, stored, session, poll, noted>>
PoolOver ==
    /\ poll.at = "shows" /\ poll.left = <<>> /\ \A w \in Workers : fetches[w].at = "none"
    /\ poll' = [poll EXCEPT !.at = "rest"]
    /\ UNCHANGED <<site, stored, session, fetches, pages, noted>>

\* External: a session ends at teiserver, which a page that has had its second try, or has
\* joined a login on the way to it, is not proof against.
Expires ==
    /\ site.live # {}
    /\ site' = [site EXCEPT !.live = {}]
    /\ noted' = [noted EXCEPT !.excused = @ \cup {w \in Workers : fetches[w].retried}]
    /\ UNCHANGED <<stored, session, fetches, poll, pages>>

PagesInit ==
    /\ site \in [live : {{1}, {}}, issued : {1}, keys : {1}, layout : Layouts]
    /\ stored \in {{}, {Set({1}, {1})}}
    /\ session = [jar |-> NoJar, login |-> "none", csrf |-> {}]
    /\ fetches = [w \in Workers |-> Resting]
    /\ poll = [n |-> 0, at |-> "rest", left |-> <<>>]
    /\ pages = <<>>
    /\ noted = [breaks |-> 0, excused |-> {}, apart |-> FALSE]

PagesNext ==
    \/ Polls \/ ListRead \/ ListFails \/ PoolOver \/ Expires
    \/ LoginForm \/ LoginPost \/ LoginDone \/ LoginOver \/ LoginFails
    \/ \E w \in Workers : Notified(w) \/ FetchThrows(w) \/ TakesPage(w) \/ PageMade(w)
    \/ \E w \in Workers, and \in BOOLEAN : Redirected(w, and) \/ Answered200(w, and)
-----------------------------------------------------------------------------
(* Properties.                                                             *)

\* What the page says of a player, of the columns it has.
Said(p) ==
    LET Has(label) == label \in Range(site.layout)
    IN [name |-> p.name, party |-> IF Has("party") THEN p.party ELSE {},
        team |-> IF Has("team") THEN p.team ELSE {}, rating |-> IF Has("rating") THEN p.rating ELSE {},
        bonus |-> IF Has("bonus") THEN p.bonus ELSE {}, faction |-> IF Has("faction") THEN p.faction ELSE ""]

\* A session that expires while two workers read with it costs a login and never a page: what
\* is read of a lobby is its own, whatever columns the account sees; a page is given up only
\* for a request, a write or a second session that failed, or for an answer that crossed a
\* login (authedFetch); and a tick none of that happened to leaves behind the jar it ends
\* with, so that the next one need not log in (notifyCookies).
PagesComeThrough ==
    /\ \A id \in DOMAIN pages :
          /\ "lost" \in DOMAIN pages[id] => pages[id].lost
          /\ "roster" \in DOMAIN pages[id] =>
                pages[id].roster = [r \in DOMAIN OnSite[id].players |-> Said(OnSite[id].players[r])]
          /\ "list" \in DOMAIN pages[id] => \A n \in DOMAIN OnSite :
                LET l == pages[id].list[n]
                IN /\ <<l.name, l.map, l.inProgress, l.elapsedSec>> = <<OnSite[n].name, OnSite[n].map, OnSite[n].inProgress, OnSite[n].elapsed>>
                   /\ <<l.locked, l.passworded>> = <<OnSite[n].locked, OnSite[n].passworded>>
                   /\ l.memberCount = l.playerCount + l.spectatorCount
    /\ (poll.at = "rest" /\ poll.n > 0 /\ ~noted.apart) => stored = {session.jar}
=============================================================================
