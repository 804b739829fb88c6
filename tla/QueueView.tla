------------------------------ MODULE QueueView -----------------------------
(***************************************************************************)
(* The queue as an admin reads it: the pages ReplayIndex assembles from    *)
(* the jobs table, and the page that asks for them, turns over, narrows to *)
(* one install, snaps back when its rows are gone, follows a job of its    *)
(* own and re-lists the catalog when a job is done.  What moves the jobs   *)
(* themselves is module JobQueue; here they move as they please.           *)
(***************************************************************************)
EXTENDS Integers, Sequences, FiniteSets, SequencesExt

CONSTANTS
    Tables,         \* jobs tables to start from
    QUEUE_PAGE,     \* rows of a page
    Moves,          \* bound: changes of the jobs table
    Reads           \* bound: reads of the queue that the reader asks for

VARIABLES
    jobs,           \* the jobs table: its rows, last updated first, and whether the derived count is kept
    page,           \* the page's variables (queuePage, queueOffset, queueInstall, adminUser...)
    reads,          \* reads of the queue in flight
    follow,         \* pollJob's job and what it says of it
    spent           \* the changes and the reads spent

queueVars == <<jobs, page, reads, follow, spent>>

FirstN(s, n) == SubSeq(s, 1, IF Len(s) < n THEN Len(s) ELSE n)
From(s, offset) == SubSeq(s, offset + 1, Len(s))
-----------------------------------------------------------------------------
(* ReplayIndex and its routes.                                             *)

Active(r) == r.state \in {"pending", "processing"} /\ ~r.disabled

\* JOBS_COUNT_KEY; until the derived seed has landed, every row is counted.
Total == IF jobs.seeded THEN Len(SelectSeq(jobs.rows, LAMBDA r : ~r.inside)) ELSE Len(jobs.rows)

\* Mutant: the settled half is read from the page's own offset.
UnshiftedPage(limit, offset) ==
    LET active == SelectSeq(jobs.rows, LAMBDA r : Active(r) /\ ~r.inside)
        settled == SelectSeq(jobs.rows, LAMBDA r : ~Active(r) /\ ~r.inside)
        fromActive == FirstN(From(active, offset), limit)
    IN [rows |-> fromActive \o FirstN(From(settled, offset), limit - Len(fromActive)),
        total |-> Total, active |-> Len(active)]

\* The active rows are read in full; the settled fill what the page has left.
queuePage(limit, offset) ==
    LET active == SelectSeq(jobs.rows, LAMBDA r : Active(r) /\ ~r.inside)
        settled == SelectSeq(jobs.rows, LAMBDA r : ~Active(r) /\ ~r.inside)
        fromActive == FirstN(From(active, offset), limit)
        skip == IF offset > Len(active) THEN offset - Len(active) ELSE 0
    IN [rows |-> fromActive \o FirstN(From(settled, skip), limit - Len(fromActive)),
        total |-> Total, active |-> Len(active)]

Mine(r) == r.install /\ ~r.inside

\* One install's jobs, the last made first.
jobsByInstall(limit, offset) ==
    LET mine == SortSeq(SelectSeq(jobs.rows, Mine), LAMBDA r, s : r.id > s.id)
    IN [rows |-> FirstN(From(mine, offset), limit), total |-> Len(mine), active |-> 0]

\* GET /api/admin/queue.
Answer(r) ==
    LET found == IF r.install THEN jobsByInstall(QUEUE_PAGE, r.offset) ELSE queuePage(QUEUE_PAGE, r.offset)
    IN [kind |-> "page", page |-> found, of |-> jobs]

Made == [id |-> Len(jobs.rows) + 1, state |-> "pending", disabled |-> FALSE, inside |-> FALSE, install |-> FALSE]

\* A row written is the last updated, and comes to the front.
Touched(k, r) ==
    /\ spent.moves < Moves
    /\ jobs' = [jobs EXCEPT !.rows = <<r>> \o RemoveAt(@, k)]
    /\ spent' = [spent EXCEPT !.moves = @ + 1]

\* A daemon claims a job, or reports its end.
JobMoves ==
    /\ \E k \in DOMAIN jobs.rows :
           LET r == jobs.rows[k]
           IN \/ r.state = "pending" /\ ~r.disabled /\ Touched(k, [r EXCEPT !.state = "processing"])
              \/ r.state = "processing" /\ \E s \in {"done", "error"} : Touched(k, [r EXCEPT !.state = s])
    /\ UNCHANGED <<page, reads, follow>>

\* The seed lands once the day's budget allows it.
SeedLands == ~jobs.seeded /\ jobs' = [jobs EXCEPT !.seeded = TRUE] /\ UNCHANGED <<page, reads, follow, spent>>
-----------------------------------------------------------------------------
(* The page.                                                               *)

\* refreshQueue up to its fetch.
Asked(offset, install, snap) ==
    IF page.adminUser
    THEN {[r EXCEPT !.latest = FALSE] : r \in reads}
         \cup {[offset |-> offset, install |-> install, snap |-> snap, latest |-> TRUE, reply |-> [kind |-> "none"]]}
    ELSE reads

refreshQueue(p) ==
    /\ spent.reads < Reads
    /\ page' = p
    /\ reads' = Asked(p.queueOffset, p.queueInstall, FALSE)
    /\ spent' = [spent EXCEPT !.reads = @ + 1]

\* The pager's buttons: what they may do was decided when the rows were drawn.
setQueueOffset ==
    /\ \/ page.drawnAt > 0
          /\ refreshQueue([page EXCEPT !.queueOffset = IF @ > QUEUE_PAGE THEN @ - QUEUE_PAGE ELSE 0])
       \/ page.drawnAt + Len(page.shown.page.rows) < page.shown.page.total
          /\ refreshQueue([page EXCEPT !.queueOffset = @ + QUEUE_PAGE])
    /\ UNCHANGED <<jobs, follow>>

\* Opening a section or the Reload button; the install link; "show all jobs".
Reload == refreshQueue(page) /\ UNCHANGED <<jobs, follow>>
installLink ==
    /\ page.queueInstall \/ \E r \in Range(page.shown.page.rows) : r.install
    /\ refreshQueue([page EXCEPT !.queueInstall = ~@, !.queueOffset = 0])
    /\ UNCHANGED <<jobs, follow>>

ServerAnswers(r) ==
    /\ r.reply.kind = "none"
    /\ \E reply \in {Answer(r), [kind |-> "401"], [kind |-> "failed"]} :
           reads' = (reads \ {r}) \cup {[r EXCEPT !.reply = reply]}
    /\ UNCHANGED <<jobs, page, follow, spent>>

\* Where the last page with rows on it starts.
LastPage(total) == ((total + QUEUE_PAGE - 1) \div QUEUE_PAGE - 1) * QUEUE_PAGE

\* The reply lands.  A refusal is drawn whichever read it answers, rows only for the latest.
ReplyLands(r) ==
    /\ r.reply.kind # "none"
    /\ LET p == r.reply.page
           gone == p.rows = <<>> /\ page.queueOffset > 0 /\ p.total > 0
           last == LastPage(p.total)
           fresh == {j.id : j \in {j \in Range(p.rows) : j.state = "done"}} \ (page.relisted \cup page.listed)
       IN CASE r.reply.kind = "401" -> page' = [page EXCEPT !.adminUser = FALSE] /\ reads' = reads \ {r}
            [] r.reply.kind = "failed" -> page' = [page EXCEPT !.failed = TRUE] /\ reads' = reads \ {r}
            [] r.reply.kind = "page" /\ ~r.latest -> UNCHANGED page /\ reads' = reads \ {r}
            [] r.reply.kind = "page" /\ r.latest /\ gone ->
                   /\ page' = [page EXCEPT !.queueOffset = last]
                   /\ reads' = Asked(last, page.queueInstall, r.reply.of.seeded) \ {r, [r EXCEPT !.latest = FALSE]}
            [] OTHER ->
                   /\ page' = [page EXCEPT !.shown = r.reply, !.drawnAt = page.queueOffset, !.failed = FALSE,
                                           !.relisted = @ \cup fresh, !.listing = @ \/ fresh # {}]
                   /\ reads' = reads \ {r}
    /\ UNCHANGED <<jobs, follow, spent>>

\* reloadList: the replay list now has every game published, and the queue is drawn again.
ReloadListLands ==
    /\ page.listing
    /\ page' = [page EXCEPT !.listing = FALSE, !.drawnAt = page.queueOffset,
                            !.listed = {r.id : r \in {r \in Range(jobs.rows) : r.state = "done"}}]
    /\ UNCHANGED <<jobs, reads, follow, spent>>

\* A row's switch: flipped on the server, then read again.
setJobDisabled ==
    /\ \E k \in DOMAIN jobs.rows :
           LET r == jobs.rows[k]
           IN /\ \E s \in Range(page.shown.page.rows) : s.id = r.id
              /\ \/ r.disabled /\ Touched(k, [r EXCEPT !.disabled = FALSE])
                 \/ Active(r) /\ Touched(k, [r EXCEPT !.disabled = TRUE, !.state = "pending"])
    /\ reads' = Asked(page.queueOffset, page.queueInstall, FALSE)
    /\ UNCHANGED <<page, follow>>

\* The reader has a new job made.
Makes ==
    /\ spent.reads < Reads
    /\ jobs' = [jobs EXCEPT !.rows = <<Made>> \o @]
    /\ reads' = Asked(page.queueOffset, page.queueInstall, FALSE)
    /\ spent' = [spent EXCEPT !.reads = @ + 1]
    /\ UNCHANGED page

\* A failed row's job asked for again.
retryJob ==
    /\ \E r \in Range(page.shown.page.rows) : r.state = "error"
    /\ Makes
    /\ UNCHANGED follow

\* A stream dropped, its job followed from then on.
uploadStream == follow.said = "nothing" /\ Makes /\ follow' = [id |-> Made.id, said |-> "queued"]

\* A re-simulation asked for: a job of its own, or the one that covers the game already.
submitResim ==
    /\ follow.said = "nothing"
    /\ \/ Makes /\ follow' = [id |-> Made.id, said |-> "queued"]
       \/ /\ spent.reads < Reads
          /\ \E r \in Range(jobs.rows) : Active(r) /\ follow' = [id |-> r.id, said |-> "queued"]
          /\ reads' = Asked(page.queueOffset, page.queueInstall, FALSE)
          /\ spent' = [spent EXCEPT !.reads = @ + 1]
          /\ UNCHANGED <<jobs, page>>

\* One look of pollJob; a failed request is another round, an end is the last.
PollSays ==
    /\ follow.said \in {"queued", "processing"}
    /\ \E r \in Range(jobs.rows) :
           /\ r.id = follow.id
           /\ follow' = [follow EXCEPT !.said = CASE r.state = "error" -> "failed" [] r.state = "done" -> "published"
                                                  [] r.state = "processing" -> "processing" [] OTHER -> @]
           /\ reads' = IF r.state = "error" THEN Asked(page.queueOffset, page.queueInstall, FALSE) ELSE reads
           /\ page' = IF r.state = "done" THEN [page EXCEPT !.listing = TRUE] ELSE page
    /\ UNCHANGED <<jobs, spent>>

\* The section has just been opened.
QueueInit ==
    /\ jobs \in [rows : Tables, seeded : BOOLEAN]
    /\ page = [adminUser |-> TRUE, queueOffset |-> 0, queueInstall |-> FALSE,
               shown |-> Answer([offset |-> 0, install |-> FALSE]), drawnAt |-> 0, failed |-> FALSE,
               relisted |-> {}, listed |-> {}, listing |-> FALSE]
    /\ reads = {}
    /\ follow = [id |-> 0, said |-> "nothing"]
    /\ spent = [moves |-> 0, reads |-> 0]

QueueNext ==
    \/ JobMoves \/ SeedLands
    \/ setQueueOffset \/ Reload \/ installLink \/ ReloadListLands
    \/ \E r \in reads : ServerAnswers(r) \/ ReplyLands(r)
    \/ setJobDisabled \/ retryJob \/ uploadStream \/ submitResim \/ PollSays
-----------------------------------------------------------------------------
(* Properties.                                                             *)

SnapsOnce == \A r \in reads : r.snap /\ r.reply.kind = "page" => r.reply.page.rows # <<>>

\* The order a person reads: what is in flight, then what settled, each newest first.
Combined(rows) ==
    SelectSeq(SelectSeq(rows, Active) \o SelectSeq(rows, LAMBDA r : ~Active(r)), LAMBDA r : ~r.inside)

\* The page drawn is the page asked for last, unless that read is still out, failed or was
\* refused: the rows at its offset of the whole order (or of the install's jobs), so that
\* turning the pages shows every job once, with a total and a count of jobs in flight that
\* are those of the whole table on any page; and a page drawn empty means there is nothing.
QueueShowsItsPage ==
    /\ SnapsOnce
    /\ LET of == page.shown.of
           order == IF page.queueInstall
                    THEN SortSeq(SelectSeq(of.rows, Mine), LAMBDA r, s : r.id > s.id)
                    ELSE Combined(of.rows)
       IN  ~page.failed /\ page.adminUser /\ (\A r \in reads : ~r.latest)
           => /\ page.shown.page.rows = FirstN(From(order, page.queueOffset), QUEUE_PAGE)
              /\ page.shown.page.rows = <<>> => order = <<>>
              /\ of.seeded \/ page.queueInstall => page.shown.page.total = Len(order)
              /\ ~page.queueInstall => page.shown.page.active = Len(SelectSeq(order, Active))
=============================================================================
