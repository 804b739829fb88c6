------------------------------ MODULE JobQueue ------------------------------
(***************************************************************************)
(* The ingest queue of the ReplayIndex Durable Object: the jobs table, the *)
(* catalog rows the jobs put up and take down, and the scans that queue    *)
(* work out of the games mirror (worker/src/worker/replayindex.ts).        *)
(*                                                                         *)
(* The object is single-threaded and every RPC is one synchronous SQLite   *)
(* transaction, so each RPC is ONE action here, with everything it calls.  *)
(* This module constrains no caller: any RPC may arrive at any moment,     *)
(* with any arguments the routes of app.ts let through.  IngestSystem      *)
(* says what the daemons, the app and the people really send.              *)
(*                                                                         *)
(* Data: a job id is the position of its row in the table (rows are only   *)
(* ever appended; ids are fresh uuids and `created_unix` orders them).     *)
(* Instead of a clock, a processing row is `stale` once its kind's window  *)
(* has passed since its last update, and a rest key is in `resting` until  *)
(* its cooldown has passed; Lapse and RestOver are that passing of time.   *)
(* Two horizons are frozen: which lava games ended in the last 24 hours    *)
(* (LavaRecent), and that no failure is two weeks old.                     *)
(***************************************************************************)
EXTENDS Integers, Sequences, FiniteSets

CONSTANTS
    Games,          \* game ids
    Mems,           \* host memory sizes, in the retry's GiB buckets; 0 is "not said"
    Lava,           \* games that are 8v8 lava games
    LavaRecent,     \* those that ended within LAVA_WINDOW_SEC
    Modded,         \* games whose `mods` flag is set
    Players,        \* player_count of each game, 0 when the API gave none
    EndUnix,        \* when each game ended
    BackfillWindow, \* BACKFILL_WINDOW
    MaxPending,     \* PUBLIC_RESIM_MAX_PENDING
    MaxJobs         \* bound of the model: rows in the jobs table

ASSUME GamesAssumption ==
    /\ LavaRecent \subseteq Lava /\ Lava \subseteq Games /\ Modded \subseteq Games
    /\ Players \in [Games -> Nat]
    /\ EndUnix \in [Games -> Nat]
    /\ \A g, h \in Games : EndUnix[g] = EndUnix[h] => g = h

ASSUME BoundsAssumption ==
    /\ Mems \subseteq Nat /\ 0 \in Mems
    /\ {BackfillWindow, MaxPending, MaxJobs} \subseteq Nat

VARIABLES
    jobs,       \* the jobs table
    listed,     \* the maintained count of rows queuePage lists (JOBS_COUNT_KEY)
    catalog,    \* the replays table: what row each game has
    mirror,     \* the games table
    resting     \* schema_meta's lava_after, lava_retry_after_*, backfill_after

vars == <<jobs, listed, catalog, mirror, resting>>

Kinds == {"upload", "resim", "app"}
JobStates == {"pending", "processing", "done", "error"}
NoJob == 0

(***************************************************************************)
(* A row of the jobs table.  `stream` is the archived stream an upload job *)
(* packs (named after the first job made for it), `public` says the note   *)
(* is PUBLIC_RESIM_NOTE, `progress` that a reading is stored, `oom` that   *)
(* error_kind is "oom", `mem` is stats.host.memBytes.                      *)
(***************************************************************************)
Job == [kind : Kinds, game : Games, stream : Nat, parent : Nat, public : BOOLEAN,
        state : JobStates, stale : BOOLEAN, disabled : BOOLEAN,
        progress : BOOLEAN, oom : BOOLEAN, mem : Mems]

(***************************************************************************)
(* A catalog row is a placeholder (work in progress, nothing to play) or   *)
(* published; a published one is "onesided" while wantsFullView holds of   *)
(* its uploads and "covered" otherwise.                                    *)
(***************************************************************************)
Published == {"onesided", "covered"}
CatalogRow == {"absent", "placeholder"} \cup Published

LavaRest == <<"lava_after", 0>>
RetryRest(m) == <<"lava_retry_after", m>>
BackfillRest == <<"backfill_after", 0>>
RestKeys == {LavaRest, BackfillRest} \cup {RetryRest(m) : m \in Mems}

TypeOK ==
    /\ jobs \in Seq(Job)
    /\ listed \in Nat
    /\ catalog \in [Games -> CatalogRow]
    /\ mirror \subseteq Games
    /\ resting \subseteq RestKeys

-----------------------------------------------------------------------------
(* Reading the tables. *)

JobsOf(g) == {j \in DOMAIN jobs : jobs[j].game = g}

\* The rows jobAnnounce and resimRequest deduplicate on.
ActiveResim(g) ==
    {j \in JobsOf(g) : jobs[j].kind = "resim" /\ jobs[j].state \in {"pending", "processing"}}

\* Mutants: a live run can be claimed again; a dead one never can.
ClaimAnyTime(j) == ~jobs[j].disabled /\ jobs[j].state \in {"pending", "processing"}
ClaimOnlyPending(j) == ~jobs[j].disabled /\ jobs[j].state = "pending"

\* What jobsPending hands out, and the predicate jobClaim takes a job on.
Claimable(j) ==
    /\ ~jobs[j].disabled
    /\ \/ jobs[j].state = "pending"
       \/ jobs[j].state = "processing" /\ jobs[j].stale

Pending(kind) == {j \in DOMAIN jobs : jobs[j].kind = kind /\ Claimable(j)}

\* Some job of the game is "processing" in the table js.
Working(js, g) == \E j \in DOMAIN js : js[j].game = g /\ js[j].state = "processing"

-----------------------------------------------------------------------------
(* The catalog rows work puts up and takes down again. *)

ensureCatalogPlaceholder(g) ==
    IF catalog[g] = "absent" THEN [catalog EXCEPT ![g] = "placeholder"] ELSE catalog

\* Mutants: the row goes although another job of the game runs; a published row goes too.
DropBusyToo(gs, js) ==
    [g \in Games |-> IF g \in gs /\ catalog[g] = "placeholder" THEN "absent" ELSE catalog[g]]
DropPublishedToo(gs, js) ==
    [g \in Games |-> IF g \in gs /\ ~Working(js, g) THEN "absent" ELSE catalog[g]]

\* The rows of the games in gs, after the table has become js.
dropCatalogPlaceholder(gs, js) ==
    [g \in Games |-> IF g \in gs /\ catalog[g] = "placeholder" /\ ~Working(js, g)
                     THEN "absent" ELSE catalog[g]]

-----------------------------------------------------------------------------
(* Inserting work. *)

NewJob(kind, g) ==
    [kind |-> kind, game |-> g, stream |-> NoJob, parent |-> NoJob, public |-> FALSE,
     state |-> "pending", stale |-> FALSE, disabled |-> FALSE,
     progress |-> FALSE, oom |-> FALSE, mem |-> 0]

NextId == Len(jobs) + 1

\* A parent is taken only when it is an "app" job of the same game.
ParentFor(parentId, g) ==
    IF parentId \in DOMAIN jobs /\ jobs[parentId].kind = "app" /\ jobs[parentId].game = g
    THEN parentId ELSE NoJob

jobInsert(row) ==
    /\ Len(jobs) < MaxJobs
    /\ jobs' = Append(jobs, row)
    /\ listed' = IF row.parent = NoJob THEN listed + 1 ELSE listed

\* Mutant: no look at what is queued already.
AnnounceAlways(g) == jobInsert(NewJob("resim", g))

\* Queue a re-simulation of g unless one is already active (or held back).
jobAnnounce(g) ==
    IF ActiveResim(g) = {} THEN jobInsert(NewJob("resim", g)) ELSE UNCHANGED <<jobs, listed>>

\* POST /api/upload: a stream was archived; the job may name the app run it came from.
Upload(g, parentId) ==
    /\ jobInsert([NewJob("upload", g) EXCEPT !.stream = NextId, !.parent = ParentFor(parentId, g)])
    /\ UNCHANGED <<catalog, mirror, resting>>

\* POST /api/jobs and the admin's forced queueing.
Announce(g) ==
    /\ ActiveResim(g) = {}
    /\ jobAnnounce(g)
    /\ UNCHANGED <<catalog, mirror, resting>>

\* The admin's paste box. A game already covered is recorded as a disabled job.
resimEnqueue(g) ==
    /\ ActiveResim(g) = {}
    /\ IF catalog[g] = "covered"
       THEN jobInsert([NewJob("resim", g) EXCEPT !.disabled = TRUE])
       ELSE jobAnnounce(g)
    /\ UNCHANGED <<catalog, mirror, resting>>

\* The public door: refused when published, when active, and past the cap.
resimRequest(g) ==
    /\ catalog[g] \notin Published
    /\ ActiveResim(g) = {}
    /\ Cardinality({j \in DOMAIN jobs : jobs[j].state = "pending" /\ jobs[j].public}) < MaxPending
    /\ jobInsert([NewJob("resim", g) EXCEPT !.public = TRUE])
    /\ UNCHANGED <<catalog, mirror, resting>>

\* The queue page's Retry: the same work under a fresh row.
jobRetry(j) ==
    LET g == jobs[j].game
        s == jobs[j].stream
        ActiveStream == {k \in DOMAIN jobs : /\ jobs[k].kind = "upload" /\ jobs[k].stream = s
                                             /\ jobs[k].state \in {"pending", "processing"}}
    IN  /\ \/ jobs[j].kind # "upload" /\ ActiveResim(g) = {} /\ jobAnnounce(g)
           \/ jobs[j].kind = "upload" /\ ActiveStream = {}
              /\ jobInsert([NewJob("upload", g) EXCEPT !.stream = s])
        /\ UNCHANGED <<catalog, mirror, resting>>

-----------------------------------------------------------------------------
(* Publishing and the mirror. *)

\* PUT /api/replays/:id. A publish that leaves the game one-sided queues its re-simulation.
upsert(g, row) ==
    /\ catalog' = [catalog EXCEPT ![g] = row]
    /\ IF row = "onesided" THEN jobAnnounce(g) ELSE UNCHANGED <<jobs, listed>>
    /\ UNCHANGED <<mirror, resting>>

\* The admin's marking of whose view a published replay is; it announces nothing.
setView(g, row) ==
    /\ catalog[g] \in Published
    /\ catalog' = [catalog EXCEPT ![g] = row]
    /\ UNCHANGED <<jobs, listed, mirror, resting>>

gamesInsert(gs) ==
    /\ mirror' = mirror \cup gs
    /\ UNCHANGED <<jobs, listed, catalog, resting>>

-----------------------------------------------------------------------------
(* Running work. *)

\* Taking a job: it clears the previous holder's error message and progress, but not
\* error_kind (nor the stats).
jobClaim(j) ==
    /\ Claimable(j)
    /\ jobs' = [jobs EXCEPT ![j].state = "processing", ![j].progress = FALSE, ![j].stale = FALSE]
    /\ catalog' = ensureCatalogPlaceholder(jobs[j].game)
    /\ UNCHANGED <<listed, mirror, resting>>

\* The row after an unconditional transition. p: a reading came with it; o: errorKind
\* "oom"; m: the host memory its stats carry, 0 for none (COALESCE keeps the stored one).
Reported(row, s, p, o, m) ==
    [row EXCEPT !.state = s, !.oom = o, !.stale = FALSE,
                !.mem = IF m = 0 THEN @ ELSE m,
                !.progress = (s = "processing") /\ (p \/ @)]

\* Mutant: the healthchecks of a run that was held back count.
UpdateHeldBack(j, s, p, o, m) ==
    /\ jobs' = [jobs EXCEPT ![j] = Reported(@, s, p, o, m)]
    /\ catalog' = IF s = "processing" THEN ensureCatalogPlaceholder(jobs[j].game)
                  ELSE dropCatalogPlaceholder({jobs[j].game}, jobs')
    /\ UNCHANGED <<listed, mirror, resting>>

\* A healthcheck or an outcome. A healthcheck of a disabled job is ignored.
jobUpdate(j, s, p, o, m) ==
    /\ ~(s = "processing" /\ jobs[j].disabled)
    /\ jobs' = [jobs EXCEPT ![j] = Reported(@, s, p, o, m)]
    /\ catalog' = IF s = "processing" THEN ensureCatalogPlaceholder(jobs[j].game)
                  ELSE dropCatalogPlaceholder({jobs[j].game}, jobs')
    /\ UNCHANGED <<listed, mirror, resting>>

\* The app's own route reports on "app" jobs only.
appJobUpdate(j, s, p, o, m) == jobs[j].kind = "app" /\ jobUpdate(j, s, p, o, m)

\* An app run is inserted and reported "processing" in one RPC.
appJobStart(g, m) ==
    /\ jobInsert([NewJob("app", g) EXCEPT !.state = "processing", !.mem = m])
    /\ catalog' = ensureCatalogPlaceholder(g)
    /\ UNCHANGED <<mirror, resting>>

\* The cron fails every app run that went silent.
StaleApps == {j \in DOMAIN jobs : jobs[j].kind = "app" /\ jobs[j].state = "processing" /\ jobs[j].stale}

appJobsExpire ==
    /\ StaleApps # {}
    /\ jobs' = [j \in DOMAIN jobs |->
                  IF j \in StaleApps
                  THEN [jobs[j] EXCEPT !.state = "error", !.progress = FALSE, !.stale = FALSE]
                  ELSE jobs[j]]
    /\ catalog' = dropCatalogPlaceholder({jobs[j].game : j \in StaleApps}, jobs')
    /\ UNCHANGED <<listed, mirror, resting>>

\* Holding a job back resets a processing row; letting it go only clears the switch.
Switched(row, d) ==
    [row EXCEPT !.disabled = d, !.stale = FALSE, !.progress = ~d /\ @,
                !.state = IF d /\ @ = "processing" THEN "pending" ELSE @]

jobSetDisabled(j, d) ==
    /\ jobs' = [jobs EXCEPT ![j] = Switched(@, d)]
    /\ catalog' = IF d THEN dropCatalogPlaceholder({jobs[j].game}, jobs') ELSE catalog
    /\ UNCHANGED <<listed, mirror, resting>>

-----------------------------------------------------------------------------
(* The re-sim daemon's poll. *)

\* A scan's pick is the one element of a set of firsts, empty when it finds nothing.
Latest(gs) == {g \in gs : \A h \in gs : EndUnix[h] <= EndUnix[g]}

\* Mirrored games with no catalog row and no job row at all.
Untouched == {g \in mirror : catalog[g] = "absent" /\ JobsOf(g) = {}}

lavaCandidates == Untouched \cap LavaRecent

\* Lava games all of whose jobs failed, the host's memory having run out, and never on
\* a host with at least the asker's memory.
OomFailure(j) == jobs[j].state = "error" /\ jobs[j].oom

lavaRetryCandidates(m) ==
    {g \in mirror \cap Lava :
        /\ catalog[g] = "absent"
        /\ \E j \in JobsOf(g) : jobs[j].kind = "resim" /\ OomFailure(j)
        /\ \A j \in JobsOf(g) : jobs[j].state = "error" /\ ~jobs[j].disabled
        /\ ~ \E j \in JobsOf(g) : OomFailure(j) /\ jobs[j].mem >= m}

LastOom(g) == {j \in JobsOf(g) : /\ jobs[j].kind = "resim" /\ OomFailure(j)
                                 /\ \A k \in JobsOf(g) : jobs[k].kind = "resim" /\ OomFailure(k) => k <= j}
lavaRetryCandidate(m) ==
    {g \in lavaRetryCandidates(m) :
        \A h \in lavaRetryCandidates(m) : \A i \in LastOom(h), j \in LastOom(g) : i <= j}

\* The BackfillWindow latest-ended untouched games, and the best of them: modded first,
\* then the most players (unknown last), then the latest-ended.
InWindow == {g \in Untouched :
                Cardinality({h \in Untouched : EndUnix[h] > EndUnix[g]}) < BackfillWindow}
Better(g, h) ==
    \/ g \in Modded /\ h \notin Modded
    \/ /\ g \in Modded <=> h \in Modded
       /\ \/ Players[g] > Players[h]
          \/ Players[g] = Players[h] /\ EndUnix[g] > EndUnix[h]
backfillCandidate == {g \in InWindow : \A h \in InWindow \ {g} : Better(g, h)}

\* What a poll by a host with memory m does: `queued` is the game it queues on the spot
\* (if any) and `rests` the keys an empty scan puts to rest.
LavaAsked == LavaRest \notin resting
QueuedLava == {jobs[j].game : j \in Pending("resim")} \cap Lava \cap mirror
LavaJumps == /\ LavaAsked
             /\ \E g \in Latest(lavaCandidates) : \A h \in QueuedLava : EndUnix[g] > EndUnix[h]
RetryAsked(m) == m > 0 /\ RetryRest(m) \notin resting
LavaEmpty == IF LavaAsked /\ lavaCandidates = {} THEN {LavaRest} ELSE {}
RetryWins(m) == RetryAsked(m) /\ lavaRetryCandidates(m) # {}
RetryEmpty(m) == IF RetryAsked(m) /\ lavaRetryCandidates(m) = {} THEN {RetryRest(m)} ELSE {}

offerBackfilled(g, rests) ==
    jobInsert(NewJob("resim", g)) /\ resting' = resting \cup rests /\ UNCHANGED <<catalog, mirror>>
Rest(rests) == resting' = resting \cup rests /\ UNCHANGED <<jobs, listed, catalog, mirror>>

OfferLava == LavaJumps /\ \E g \in Latest(lavaCandidates) : offerBackfilled(g, {})
OfferPending == ~LavaJumps /\ Pending("resim") # {} /\ Rest(LavaEmpty)
OfferRetry(m) ==
    /\ ~LavaJumps /\ Pending("resim") = {}
    /\ RetryWins(m)
    /\ \E g \in lavaRetryCandidate(m) : offerBackfilled(g, LavaEmpty)
OfferBackfill(m) ==
    /\ ~LavaJumps /\ Pending("resim") = {}
    /\ ~RetryWins(m)
    /\ BackfillRest \notin resting
    /\ \E g \in backfillCandidate : offerBackfilled(g, LavaEmpty \cup RetryEmpty(m))
OfferNothing(m) ==
    /\ ~LavaJumps /\ Pending("resim") = {}
    /\ ~RetryWins(m)
    /\ BackfillRest \in resting \/ InWindow = {}
    /\ Rest(LavaEmpty \cup RetryEmpty(m) \cup {BackfillRest})

jobsOffer(m) == OfferLava \/ OfferPending \/ OfferRetry(m) \/ OfferBackfill(m) \/ OfferNothing(m)

-----------------------------------------------------------------------------
(* Time passing. *)

\* A processing row has gone unreported for its kind's window.
Lapse(j) ==
    /\ jobs[j].state = "processing" /\ ~jobs[j].stale
    /\ jobs' = [jobs EXCEPT ![j].stale = TRUE]
    /\ UNCHANGED <<listed, catalog, mirror, resting>>

\* A cooldown has passed.
RestOver(k) ==
    /\ k \in resting
    /\ resting' = resting \ {k}
    /\ UNCHANGED <<jobs, listed, catalog, mirror>>

-----------------------------------------------------------------------------

Init ==
    /\ jobs = << >>
    /\ listed = 0
    /\ catalog = [g \in Games |-> "absent"]
    /\ mirror = {}
    /\ resting = {}

\* The RPCs that name a game, and the ones that name a job.
GameRPC(g) ==
    \/ \E p \in DOMAIN jobs \cup {NoJob} : Upload(g, p)
    \/ Announce(g)
    \/ resimEnqueue(g)
    \/ resimRequest(g)
    \/ \E row \in Published : upsert(g, row) \/ setView(g, row)
    \/ \E m \in Mems : appJobStart(g, m)
    \/ gamesInsert({g})

Report(j, s, p, o, m) == jobUpdate(j, s, p, o, m) \/ appJobUpdate(j, s, p, o, m)

JobRPC(j) ==
    \/ jobClaim(j)
    \/ \E p \in BOOLEAN : Report(j, "processing", p, FALSE, 0)
    \/ \E m \in Mems : Report(j, "done", FALSE, FALSE, m)
    \/ \E o \in BOOLEAN, m \in Mems : Report(j, "error", FALSE, o, m)
    \/ \E d \in BOOLEAN : jobSetDisabled(j, d)
    \/ jobRetry(j)
    \/ Lapse(j)

Next ==
    \/ \E g \in Games : GameRPC(g)
    \/ \E j \in DOMAIN jobs : JobRPC(j)
    \/ appJobsExpire
    \/ \E m \in Mems : jobsOffer(m)
    \/ \E k \in RestKeys : RestOver(k)

Spec == Init /\ [][Next]_vars

-----------------------------------------------------------------------------
(* What the queue promises, whatever is sent to it. *)

\* The catalog follows the work: a placeholder row stands for a game some job is
\* processing (dropCatalogPlaceholder leaves no dead entry behind), and a game being
\* processed has a row (every door into "processing" goes through
\* ensureCatalogPlaceholder).
CatalogShowsWork ==
    \A g \in Games :
        /\ catalog[g] = "placeholder" => Working(jobs, g)
        /\ Working(jobs, g) => catalog[g] # "absent"

Listed == {j \in DOMAIN jobs : jobs[j].parent = NoJob}
HeldBackIsIdle == \A j \in DOMAIN jobs : jobs[j].disabled => jobs[j].state # "processing"
RowDescribesItself ==
    \A j \in DOMAIN jobs : /\ jobs[j].progress => jobs[j].state = "processing"
                           /\ jobs[j].oom => jobs[j].state = "error"
TotalIsOfListed == listed = Cardinality(Listed)

\* What the table keeps beside a row's state agrees with it, whatever came in between: a job
\* held back is never "processing" (the switch resets it, no claim takes it, and the beats of
\* the run nobody could stop are ignored: jobSetDisabled, jobUpdate); a reading belongs to a
\* run in flight and "oom" to a failed job, although a claim clears the error message and not
\* error_kind (jobClaim); and queuePage's total is the number of rows it can list, kept by
\* one increment per insert and never recounted (jobInsert).
TableAgrees == HeldBackIsIdle /\ RowDescribesItself /\ TotalIsOfListed

\* A job that is not listed shows inside a row that is, of its own game: the id of the
\* parent comes from an open route and must not hide the job (jobInsert).
UnlistedShowInParent ==
    \A j \in DOMAIN jobs : jobs[j].parent # NoJob =>
        /\ jobs[j].parent \in Listed
        /\ jobs[jobs[j].parent].kind = "app" /\ jobs[jobs[j].parent].game = jobs[j].game

\* No door into the table (paste box, public request, daemon, publish, retry, or a
\* poll's own scans) queues a re-simulation of a game that has one pending or running.
NeverQueuedTwice ==
    [][Len(jobs') > Len(jobs) /\ jobs'[NextId].kind = "resim"
         => ActiveResim(jobs'[NextId].game) = {}]_vars

\* What is published stays published: the end of a job, the cron and the switch only
\* ever take placeholders out of the catalog (dropCatalogPlaceholder).
PublishedStays ==
    [][\A g \in Games : catalog[g] \in Published => catalog'[g] \in Published]_vars
=============================================================================
