---------------------------- MODULE IngestProofs ----------------------------
(***************************************************************************)
(* The queue with the daemons, the people and the games sync at work on    *)
(* it, for any number of daemons, games, faults and requests: every step   *)
(* of the system is an RPC of JobQueue or leaves the queue alone, so what  *)
(* is proved of the queue holds of the system; no two re-sim daemons share *)
(* a job nobody took away; and "done" means there is a replay to open.     *)
(*                                                                         *)
(* A step is calm when it hands no job to a re-sim daemon: it takes a hold *)
(* away only from daemons it marks as broken, and what it reports as done  *)
(* or remembers as published is in the catalog.  Every step but a claim is *)
(* calm, and calm steps keep the invariant by one argument.                *)
(***************************************************************************)
EXTENDS IngestSystem, TLAPS, SequenceTheorems, FiniteSetTheorems

-----------------------------------------------------------------------------
(* PART ONE: THE QUEUE.  Every RPC does one of four things to the jobs     *)
(* table: it leaves it, it appends one row, it rewrites one row without    *)
(* touching what identifies it, or (the cron) it fails the stale app rows. *)
(* Effects says so, with what happens to the catalog in each case;         *)
(* StepEffects proves it of every action.  The invariants are then proved  *)
(* over the four effects.                                                  *)

-----------------------------------------------------------------------------
(* The inductive invariant. *)

\* What holds of every row by itself.  Only an upload job has a parent: that is what
\* makes a parent row, an app run's, itself a listed one.
RowOK(row) ==
    /\ row \in Job
    /\ row.disabled => row.state # "processing"
    /\ row.progress => row.state = "processing"
    /\ row.oom => row.state = "error"
    /\ row.parent # NoJob => row.kind = "upload"

RowsOK == \A j \in DOMAIN jobs : RowOK(jobs[j])

IInv == TypeOK /\ RowsOK /\ UnlistedShowInParent /\ TotalIsOfListed /\ CatalogShowsWork

-----------------------------------------------------------------------------
(* The effects of a step. *)

ParentOK(row) ==
    row.parent # NoJob => /\ row.parent \in DOMAIN jobs
                          /\ jobs[row.parent].kind = "app" /\ jobs[row.parent].game = row.game

CatalogKept == catalog' = catalog
CatalogPublished == \E g \in Games, row \in Published : catalog' = [catalog EXCEPT ![g] = row]

Inserts(row) ==
    /\ RowOK(row) /\ ParentOK(row)
    /\ row.kind = "resim" => ActiveResim(row.game) = {}
    /\ jobs' = Append(jobs, row)
    /\ listed' = IF row.parent = NoJob THEN listed + 1 ELSE listed
    /\ \/ row.state # "processing" /\ (CatalogKept \/ CatalogPublished)
       \/ row.state = "processing" /\ catalog' = ensureCatalogPlaceholder(row.game)

Rewrites(j, row) ==
    /\ RowOK(row)
    /\ row.kind = jobs[j].kind /\ row.game = jobs[j].game /\ row.parent = jobs[j].parent
    /\ jobs' = [jobs EXCEPT ![j] = row]
    /\ listed' = listed
    /\ \/ row.state = "processing" /\ catalog' = ensureCatalogPlaceholder(row.game)
       \/ row.state # "processing" /\ catalog' = dropCatalogPlaceholder({row.game}, jobs')
       \/ (row.state = "processing" <=> jobs[j].state = "processing") /\ CatalogKept

Effects ==
    \/ UNCHANGED <<jobs, listed>> /\ (CatalogKept \/ CatalogPublished)
    \/ \E row \in Job : Inserts(row)
    \/ \E j \in DOMAIN jobs : \E row \in Job : Rewrites(j, row)
    \/ appJobsExpire

ScratchOK == mirror' \subseteq Games /\ resting' \subseteq RestKeys

-----------------------------------------------------------------------------

LEMMA NoSize == 0 \in Mems
  BY BoundsAssumption

\* Rows as jobInsert makes them.
LEMMA NewJobOK ==
    ASSUME NEW kind \in Kinds, NEW g \in Games
    PROVE  /\ NewJob(kind, g) \in Job /\ RowOK(NewJob(kind, g))
           /\ NewJob(kind, g).parent = NoJob /\ NewJob(kind, g).state = "pending"
           /\ NewJob(kind, g).kind = kind /\ NewJob(kind, g).game = g
  BY NoSize DEF NewJob, Job, RowOK, NoJob, JobStates

LEMMA JobsDomain ==
    ASSUME TypeOK
    PROVE  /\ Len(jobs) \in Nat /\ DOMAIN jobs = 1..Len(jobs)
           /\ \A j \in DOMAIN jobs : jobs[j] \in Job
  BY LenProperties, ElementOfSeq DEF TypeOK

\* A re-simulation nobody asked to double.
LEMMA QueuesResim ==
    ASSUME TypeOK, NEW g \in Games, ActiveResim(g) = {}, CatalogKept \/ CatalogPublished,
           jobInsert(NewJob("resim", g))
    PROVE  \E row \in Job : Inserts(row)
  <1> DEFINE row == NewJob("resim", g)
  <1>1. row \in Job /\ RowOK(row) /\ row.parent = NoJob /\ row.state = "pending" /\ row.game = g
    BY NewJobOK DEF Kinds
  <1>2. Inserts(row)
    BY <1>1 DEF Inserts, ParentOK, jobInsert
  <1> QED  BY <1>1, <1>2

LEMMA AnnounceEffects ==
    ASSUME TypeOK, NEW g \in Games, CatalogKept \/ CatalogPublished, jobAnnounce(g)
    PROVE  UNCHANGED <<jobs, listed>> \/ \E row \in Job : Inserts(row)
  BY QueuesResim DEF jobAnnounce

-----------------------------------------------------------------------------
(* Every action has one of the effects. *)

Good == TypeOK /\ RowsOK

LEMMA UploadEffects ==
    ASSUME Good, NEW g \in Games, NEW p \in DOMAIN jobs \cup {NoJob}, Upload(g, p)
    PROVE  Effects /\ ScratchOK
  <1> DEFINE row == [NewJob("upload", g) EXCEPT !.stream = NextId, !.parent = ParentFor(p, g)]
  <1>1. NextId \in Nat /\ DOMAIN jobs \subseteq Nat
    BY JobsDomain DEF Good, NextId
  <1>2. ParentFor(p, g) \in Nat
    BY <1>1 DEF ParentFor, NoJob
  <1>3. /\ row \in Job /\ RowOK(row)
        /\ row.state = "pending" /\ row.kind = "upload" /\ row.game = g
        /\ row.parent = ParentFor(p, g)
    BY <1>1, <1>2, NoSize DEF NewJob, Job, RowOK, NoJob, JobStates, Kinds
  <1>4. ParentOK(row)
    BY <1>3 DEF ParentOK, ParentFor
  <1>5. jobInsert(row) /\ CatalogKept /\ UNCHANGED <<mirror, resting>>
    BY DEF Upload, CatalogKept
  <1>6. Inserts(row)
    BY <1>3, <1>4, <1>5 DEF Inserts, jobInsert
  <1> QED  BY <1>3, <1>5, <1>6 DEF Effects, ScratchOK, Good, TypeOK

LEMMA AnnounceRPCEffects ==
    ASSUME Good, NEW g \in Games, Announce(g)
    PROVE  Effects /\ ScratchOK
  BY AnnounceEffects DEF Announce, Good, Effects, ScratchOK, TypeOK, CatalogKept

LEMMA RecordedEffects ==
    ASSUME Good, NEW g \in Games, ActiveResim(g) = {}, CatalogKept,
           NEW row, row \in {[NewJob("resim", g) EXCEPT !.disabled = TRUE],
                             [NewJob("resim", g) EXCEPT !.public = TRUE]},
           jobInsert(row)
    PROVE  \E r \in Job : Inserts(r)
  <1> DEFINE OK(r) == /\ r \in Job /\ RowOK(r) /\ r.parent = NoJob
                      /\ r.state = "pending" /\ r.kind = "resim" /\ r.game = g
  <1>1. OK(row)
    <2>1. OK([NewJob("resim", g) EXCEPT !.disabled = TRUE])
      BY NoSize DEF NewJob, Job, RowOK, NoJob, JobStates, Kinds
    <2>2. OK([NewJob("resim", g) EXCEPT !.public = TRUE])
      BY NoSize DEF NewJob, Job, RowOK, NoJob, JobStates, Kinds
    <2>3. CASE row = [NewJob("resim", g) EXCEPT !.disabled = TRUE]
      BY <2>1, <2>3
    <2>4. CASE row = [NewJob("resim", g) EXCEPT !.public = TRUE]
      BY <2>2, <2>4
    <2> QED  BY <2>3, <2>4
  <1>2. Inserts(row)
    BY <1>1 DEF Inserts, ParentOK, jobInsert
  <1> QED  BY <1>1, <1>2

LEMMA EnqueueEffects ==
    ASSUME Good, NEW g \in Games, resimEnqueue(g) \/ resimRequest(g)
    PROVE  Effects /\ ScratchOK
  <1>1. ActiveResim(g) = {} /\ CatalogKept /\ UNCHANGED <<mirror, resting>>
    BY DEF resimEnqueue, resimRequest, CatalogKept
  <1>2. \/ jobInsert([NewJob("resim", g) EXCEPT !.disabled = TRUE])
        \/ jobInsert([NewJob("resim", g) EXCEPT !.public = TRUE])
        \/ jobAnnounce(g)
    BY DEF resimEnqueue, resimRequest
  <1>3. UNCHANGED <<jobs, listed>> \/ \E r \in Job : Inserts(r)
    BY <1>1, <1>2, RecordedEffects, AnnounceEffects DEF Good
  <1> QED  BY <1>1, <1>3 DEF Effects, ScratchOK, Good, TypeOK

LEMMA RetryEffects ==
    ASSUME Good, NEW j \in DOMAIN jobs, jobRetry(j)
    PROVE  Effects /\ ScratchOK
  <1> DEFINE g == jobs[j].game
             row == [NewJob("upload", g) EXCEPT !.stream = jobs[j].stream]
  <1>1. g \in Games /\ jobs[j].stream \in Nat
    BY JobsDomain DEF Good, Job
  <1>2. CatalogKept /\ UNCHANGED <<mirror, resting>>
    BY DEF jobRetry, CatalogKept
  <1>3. jobAnnounce(g) \/ jobInsert(row)
    BY DEF jobRetry
  <1>4. /\ row \in Job /\ RowOK(row) /\ row.parent = NoJob
        /\ row.state = "pending" /\ row.kind = "upload" /\ row.game = g
    BY <1>1, NoSize DEF NewJob, Job, RowOK, NoJob, JobStates, Kinds
  <1>5. jobInsert(row) => Inserts(row)
    BY <1>2, <1>4 DEF Inserts, ParentOK, jobInsert
  <1>6. UNCHANGED <<jobs, listed>> \/ \E r \in Job : Inserts(r)
    BY <1>1, <1>2, <1>3, <1>4, <1>5, AnnounceEffects DEF Good
  <1> QED  BY <1>2, <1>6 DEF Effects, ScratchOK, Good, TypeOK

LEMMA CatalogEffects ==
    ASSUME Good, NEW g \in Games, NEW row \in Published, upsert(g, row) \/ setView(g, row)
    PROVE  Effects /\ ScratchOK
  <1>1. CatalogPublished
    BY DEF upsert, setView, CatalogPublished
  <1>2. UNCHANGED <<mirror, resting>>
    BY DEF upsert, setView
  <1>3. jobAnnounce(g) \/ UNCHANGED <<jobs, listed>>
    BY DEF upsert, setView
  <1> QED  BY <1>1, <1>2, <1>3, AnnounceEffects DEF Effects, ScratchOK, Good, TypeOK

LEMMA GamesEffects ==
    ASSUME Good, NEW gs \in SUBSET Games, gamesInsert(gs)
    PROVE  Effects /\ ScratchOK
  BY DEF gamesInsert, Effects, ScratchOK, CatalogKept, Good, TypeOK

LEMMA ClaimEffects ==
    ASSUME Good, NEW j \in DOMAIN jobs, jobClaim(j)
    PROVE  Effects /\ ScratchOK
  <1> DEFINE row == [jobs[j] EXCEPT !.state = "processing", !.progress = FALSE, !.stale = FALSE]
  <1>1. jobs[j] \in Job /\ RowOK(jobs[j]) /\ ~jobs[j].disabled /\ jobs[j].state # "error"
    BY JobsDomain DEF Good, RowsOK, jobClaim, Claimable
  <1>2. /\ row \in Job /\ RowOK(row) /\ row.state = "processing"
        /\ row.kind = jobs[j].kind /\ row.game = jobs[j].game /\ row.parent = jobs[j].parent
    BY <1>1 DEF Job, RowOK, JobStates
  <1>3. /\ jobs' = [jobs EXCEPT ![j] = row] /\ listed' = listed
        /\ catalog' = ensureCatalogPlaceholder(row.game)
    BY <1>2 DEF jobClaim
  <1>4. Rewrites(j, row)
    BY <1>2, <1>3 DEF Rewrites
  <1> QED  BY <1>2, <1>4 DEF Effects, ScratchOK, jobClaim, Good, TypeOK

\* A row after a transition.
LEMMA ReportedOK ==
    ASSUME NEW row, RowOK(row), NEW s \in JobStates, NEW p \in BOOLEAN, NEW o \in BOOLEAN,
           NEW m \in Mems, s = "processing" => ~row.disabled, o => s = "error"
    PROVE  LET new == Reported(row, s, p, o, m)
           IN  /\ new \in Job /\ RowOK(new) /\ new.state = s
               /\ new.kind = row.kind /\ new.game = row.game /\ new.parent = row.parent
  BY DEF Reported, Job, RowOK

LEMMA ReportEffects ==
    ASSUME Good, NEW j \in DOMAIN jobs, NEW s \in JobStates, NEW p \in BOOLEAN,
           NEW o \in BOOLEAN, NEW m \in Mems, o => s = "error", Report(j, s, p, o, m)
    PROVE  Effects /\ ScratchOK
  <1> DEFINE row == Reported(jobs[j], s, p, o, m)
  <1>1. jobUpdate(j, s, p, o, m)
    BY DEF Report, appJobUpdate
  <1>2. jobs[j] \in Job /\ RowOK(jobs[j])
    BY JobsDomain DEF Good, RowsOK
  <1>3. s = "processing" => ~jobs[j].disabled
    BY <1>1 DEF jobUpdate
  <1>4. /\ row \in Job /\ RowOK(row) /\ row.state = s
        /\ row.kind = jobs[j].kind /\ row.game = jobs[j].game /\ row.parent = jobs[j].parent
    BY <1>2, <1>3, ReportedOK
  <1>5. /\ jobs' = [jobs EXCEPT ![j] = row] /\ listed' = listed
        /\ catalog' = IF s = "processing" THEN ensureCatalogPlaceholder(row.game)
                      ELSE dropCatalogPlaceholder({row.game}, jobs')
    BY <1>1, <1>4 DEF jobUpdate
  <1>6. Rewrites(j, row)
    <2> HIDE DEF row
    <2> QED  BY <1>4, <1>5 DEF Rewrites
  <1>7. UNCHANGED <<mirror, resting>>
    BY <1>1 DEF jobUpdate
  <1> QED  BY <1>4, <1>6, <1>7 DEF Effects, ScratchOK, Good, TypeOK

LEMMA StartEffects ==
    ASSUME Good, NEW g \in Games, NEW m \in Mems, appJobStart(g, m)
    PROVE  Effects /\ ScratchOK
  <1> DEFINE row == [NewJob("app", g) EXCEPT !.state = "processing", !.mem = m]
  <1>1. /\ row \in Job /\ RowOK(row) /\ row.state = "processing"
        /\ row.kind = "app" /\ row.parent = NoJob /\ row.game = g
    BY NoSize DEF NewJob, Job, RowOK, NoJob, JobStates, Kinds
  <1>2. jobInsert(row) /\ catalog' = ensureCatalogPlaceholder(g) /\ UNCHANGED <<mirror, resting>>
    BY DEF appJobStart
  <1>3. Inserts(row)
    <2> HIDE DEF row
    <2> QED  BY <1>1, <1>2 DEF Inserts, ParentOK, jobInsert
  <1> QED  BY <1>1, <1>2, <1>3 DEF Effects, ScratchOK, Good, TypeOK

LEMMA SwitchedOK ==
    ASSUME NEW row, RowOK(row), NEW d \in BOOLEAN
    PROVE  LET new == Switched(row, d)
           IN  /\ new \in Job /\ RowOK(new)
               /\ new.kind = row.kind /\ new.game = row.game /\ new.parent = row.parent
               /\ d => new.state # "processing"
               /\ ~d => new.state = row.state
  BY DEF Switched, Job, RowOK, JobStates

LEMMA SwitchEffects ==
    ASSUME Good, NEW j \in DOMAIN jobs, NEW d \in BOOLEAN, jobSetDisabled(j, d)
    PROVE  Effects /\ ScratchOK
  <1> DEFINE row == Switched(jobs[j], d)
  <1>1. jobs[j] \in Job /\ RowOK(jobs[j])
    BY JobsDomain DEF Good, RowsOK
  <1>2. /\ row \in Job /\ RowOK(row)
        /\ row.kind = jobs[j].kind /\ row.game = jobs[j].game /\ row.parent = jobs[j].parent
        /\ d => row.state # "processing"
        /\ ~d => row.state = jobs[j].state
    BY <1>1, SwitchedOK
  <1>3. /\ jobs' = [jobs EXCEPT ![j] = row] /\ listed' = listed
        /\ catalog' = IF d THEN dropCatalogPlaceholder({row.game}, jobs') ELSE catalog
    BY <1>2 DEF jobSetDisabled
  <1>4. Rewrites(j, row)
    <2> HIDE DEF row
    <2> QED  BY <1>2, <1>3 DEF Rewrites, CatalogKept
  <1>5. UNCHANGED <<mirror, resting>>
    BY DEF jobSetDisabled
  <1> QED  BY <1>2, <1>4, <1>5 DEF Effects, ScratchOK, Good, TypeOK

\* A poll: at most one re-simulation queued, of a game with no active one.
LEMMA BackfillQueues ==
    ASSUME Good, NEW g \in Games, NEW rests \in SUBSET RestKeys, ActiveResim(g) = {},
           offerBackfilled(g, rests)
    PROVE  Effects /\ ScratchOK
  <1>1. CatalogKept /\ mirror' = mirror /\ resting' = resting \cup rests
    BY DEF offerBackfilled, CatalogKept
  <1>2. \E row \in Job : Inserts(row)
    BY <1>1, QueuesResim DEF offerBackfilled, Good
  <1> QED  BY <1>1, <1>2 DEF Effects, ScratchOK, Good, TypeOK

LEMMA OfferEffects ==
    ASSUME Good, NEW m \in Mems, jobsOffer(m)
    PROVE  Effects /\ ScratchOK
  <1>1. Untouched \subseteq Games /\ lavaCandidates \subseteq Untouched /\ InWindow \subseteq Untouched
        /\ \A g \in Untouched : ActiveResim(g) = {}
    BY DEF Untouched, lavaCandidates, InWindow, ActiveResim, Good, TypeOK
  <1>2. /\ lavaRetryCandidates(m) \subseteq Games
        /\ \A g \in lavaRetryCandidates(m) : ActiveResim(g) = {}
    BY DEF lavaRetryCandidates, ActiveResim, Good, TypeOK
  <1>3. LavaEmpty \in SUBSET RestKeys /\ RetryEmpty(m) \in SUBSET RestKeys /\ BackfillRest \in RestKeys
    BY DEF LavaEmpty, RetryEmpty, RestKeys
  <1>4. CASE OfferLava
    <2>1. PICK g \in lavaCandidates : offerBackfilled(g, {})
      BY <1>4 DEF OfferLava, Latest
    <2> QED  BY <1>1, <2>1, BackfillQueues
  <1>5. CASE OfferRetry(m)
    <2>1. PICK g \in lavaRetryCandidates(m) : offerBackfilled(g, LavaEmpty)
      BY <1>5 DEF OfferRetry, lavaRetryCandidate
    <2> QED  BY <1>2, <1>3, <2>1, BackfillQueues
  <1>6. CASE OfferBackfill(m)
    <2>1. PICK g \in InWindow : offerBackfilled(g, LavaEmpty \cup RetryEmpty(m))
      BY <1>6 DEF OfferBackfill, backfillCandidate
    <2> QED  BY <1>1, <1>3, <2>1, BackfillQueues
  <1>7. CASE OfferPending \/ OfferNothing(m)
    <2>1. \E rests \in SUBSET RestKeys : Rest(rests)
      BY <1>3, <1>7 DEF OfferPending, OfferNothing
    <2> QED  BY <2>1 DEF Rest, Effects, ScratchOK, CatalogKept, Good, TypeOK
  <1> QED  BY <1>4, <1>5, <1>6, <1>7 DEF jobsOffer

LEMMA TimeEffects ==
    ASSUME Good, (\E j \in DOMAIN jobs : Lapse(j)) \/ (\E k \in RestKeys : RestOver(k))
    PROVE  Effects /\ ScratchOK
  <1>1. CASE \E k \in RestKeys : RestOver(k)
    BY <1>1 DEF RestOver, Effects, ScratchOK, CatalogKept, Good, TypeOK
  <1>2. ASSUME NEW j \in DOMAIN jobs, Lapse(j)
        PROVE  Effects /\ ScratchOK
    <2> DEFINE row == [jobs[j] EXCEPT !.stale = TRUE]
    <2>1. jobs[j] \in Job /\ RowOK(jobs[j])
      BY JobsDomain DEF Good, RowsOK
    <2>2. /\ row \in Job /\ RowOK(row) /\ row.state = jobs[j].state
          /\ row.kind = jobs[j].kind /\ row.game = jobs[j].game /\ row.parent = jobs[j].parent
      BY <2>1 DEF Job, RowOK
    <2>3. jobs' = [jobs EXCEPT ![j] = row] /\ listed' = listed /\ CatalogKept
      BY <1>2 DEF Lapse, CatalogKept
    <2>4. Rewrites(j, row)
      <3> HIDE DEF row
      <3> QED  BY <2>2, <2>3 DEF Rewrites
    <2> QED  BY <1>2, <2>2, <2>4 DEF Effects, ScratchOK, Lapse, Good, TypeOK
  <1> QED  BY <1>1, <1>2

LEMMA StepEffects ==
    ASSUME Good, [Next]_vars
    PROVE  Effects /\ ScratchOK
  <1>1. ASSUME NEW g \in Games, GameRPC(g)
        PROVE  Effects /\ ScratchOK
    BY <1>1, UploadEffects, AnnounceRPCEffects, EnqueueEffects, CatalogEffects, StartEffects,
       GamesEffects DEF GameRPC
  <1>2. ASSUME NEW j \in DOMAIN jobs, JobRPC(j)
        PROVE  Effects /\ ScratchOK
    <2>1. CASE \E p \in BOOLEAN : Report(j, "processing", p, FALSE, 0)
      BY <2>1, NoSize, ReportEffects DEF JobStates
    <2>2. CASE \E m \in Mems : Report(j, "done", FALSE, FALSE, m)
      BY <2>2, ReportEffects DEF JobStates
    <2>3. CASE \E o \in BOOLEAN, m \in Mems : Report(j, "error", FALSE, o, m)
      BY <2>3, ReportEffects DEF JobStates
    <2> QED  BY <1>2, <2>1, <2>2, <2>3, ClaimEffects, SwitchEffects, RetryEffects, TimeEffects DEF JobRPC
  <1>3. CASE appJobsExpire
    BY <1>3 DEF Effects, ScratchOK, appJobsExpire, Good, TypeOK
  <1>4. CASE UNCHANGED vars
    BY <1>4 DEF vars, Effects, ScratchOK, CatalogKept, Good, TypeOK
  <1> QED  BY <1>1, <1>2, <1>3, <1>4, OfferEffects, TimeEffects DEF Next

-----------------------------------------------------------------------------
(* Every effect keeps the invariant. *)

LEMMA ListedFinite ==
    ASSUME TypeOK
    PROVE  IsFiniteSet(Listed) /\ Cardinality(Listed) \in Nat /\ Len(jobs) + 1 \notin Listed
  <1>1. IsFiniteSet(1..Len(jobs)) /\ Listed \in SUBSET (1..Len(jobs)) /\ Len(jobs) \in Nat
    BY JobsDomain, FS_Interval DEF Listed
  <1>2. IsFiniteSet(Listed)
    BY <1>1, FS_Subset
  <1> QED  BY <1>1, <1>2, FS_CardinalityType

LEMMA AppendShape ==
    ASSUME TypeOK, NEW row \in Job, jobs' = Append(jobs, row)
    PROVE  /\ jobs' \in Seq(Job)
           /\ NextId \in Nat \ {0} /\ NextId \notin DOMAIN jobs
           /\ DOMAIN jobs' = DOMAIN jobs \cup {NextId}
           /\ jobs'[NextId] = row
           /\ \A j \in DOMAIN jobs : jobs'[j] = jobs[j]
  <1>1. jobs \in Seq(Job)
    BY DEF TypeOK
  <1>2. /\ jobs' \in Seq(Job) /\ Len(jobs') = Len(jobs) + 1
        /\ \A j \in 1..Len(jobs) : jobs'[j] = jobs[j]
        /\ jobs'[Len(jobs) + 1] = row
    BY <1>1, AppendProperties
  <1>3. DOMAIN jobs' = 1..Len(jobs')
    BY <1>2, LenProperties
  <1>4. 1..(Len(jobs) + 1) = 1..Len(jobs) \cup {Len(jobs) + 1}
    BY JobsDomain
  <1> QED  BY <1>2, <1>3, <1>4, JobsDomain DEF NextId

LEMMA InsertKeeps ==
    ASSUME IInv, ScratchOK, NEW row \in Job, Inserts(row)
    PROVE  IInv'
  <1>1. /\ jobs' \in Seq(Job)
        /\ NextId \in Nat \ {0} /\ NextId \notin DOMAIN jobs
        /\ DOMAIN jobs' = DOMAIN jobs \cup {NextId}
        /\ jobs'[NextId] = row
        /\ \A j \in DOMAIN jobs : jobs'[j] = jobs[j]
    BY AppendShape DEF IInv, Inserts
  <1>2. row.game \in Games /\ row.state \in JobStates
    BY DEF Job
  <1>3. TypeOK'
    <2>1. listed' \in Nat
      BY DEF Inserts, IInv, TypeOK
    <2>2. catalog' \in [Games -> CatalogRow]
      BY <1>2 DEF Inserts, IInv, TypeOK, CatalogKept, CatalogPublished, ensureCatalogPlaceholder,
         CatalogRow
    <2> QED  BY <1>1, <2>1, <2>2 DEF TypeOK, ScratchOK
  <1>4. RowsOK'
    BY <1>1 DEF IInv, RowsOK, Inserts
  <1>5. UnlistedShowInParent'
    <2>1. Listed \subseteq Listed' /\ Listed \subseteq DOMAIN jobs
      BY <1>1 DEF Listed
    <2>2. ASSUME row.parent # NoJob
          PROVE  row.parent \in Listed /\ jobs[row.parent].kind = "app" /\ jobs[row.parent].game = row.game
      BY <2>2 DEF Inserts, ParentOK, Listed, IInv, RowsOK, RowOK
    <2> QED  BY <1>1, <2>1, <2>2 DEF IInv, UnlistedShowInParent
  <1>6. TotalIsOfListed'
    <2>1. Listed' = IF row.parent = NoJob THEN Listed \cup {NextId} ELSE Listed
      BY <1>1 DEF Listed
    <2>2. IsFiniteSet(Listed) /\ NextId \notin Listed
      BY ListedFinite DEF IInv, NextId
    <2>3. Cardinality(Listed \cup {NextId}) = Cardinality(Listed) + 1
      BY <2>2, FS_AddElement
    <2> QED  BY <2>1, <2>3 DEF TotalIsOfListed, IInv, Inserts
  <1>7. CatalogShowsWork'
    <2>1. \A g \in Games :
            Working(jobs', g) <=> Working(jobs, g) \/ (row.game = g /\ row.state = "processing")
      BY <1>1 DEF Working
    <2>2. CASE row.state # "processing"
      BY <2>1, <2>2 DEF IInv, TypeOK, CatalogShowsWork, Inserts, CatalogKept, CatalogPublished, Published
    <2>3. CASE row.state = "processing"
      BY <1>2, <2>1, <2>3 DEF IInv, TypeOK, CatalogShowsWork, Inserts, ensureCatalogPlaceholder
    <2> QED  BY <2>2, <2>3
  <1> QED  BY <1>3, <1>4, <1>5, <1>6, <1>7 DEF IInv

LEMMA RewriteKeeps ==
    ASSUME IInv, ScratchOK, NEW j \in DOMAIN jobs, NEW row \in Job, Rewrites(j, row)
    PROVE  IInv'
  <1>1. /\ jobs' \in Seq(Job)
        /\ DOMAIN jobs' = DOMAIN jobs
        /\ jobs'[j] = row
        /\ \A k \in DOMAIN jobs : k # j => jobs'[k] = jobs[k]
    <2>1. jobs \in Seq(Job) /\ j \in 1..Len(jobs)
      BY JobsDomain DEF IInv, TypeOK
    <2>2. jobs' = [jobs EXCEPT ![j] = row]
      BY DEF Rewrites
    <2> QED  BY <2>1, <2>2, ExceptSeq
  <1>2. row.game \in Games /\ row.game = jobs[j].game
    BY DEF Job, Rewrites
  <1>3. TypeOK'
    <2>1. listed' \in Nat
      BY DEF Rewrites, IInv, TypeOK
    <2>2. catalog' \in [Games -> CatalogRow]
      BY <1>2 DEF Rewrites, IInv, TypeOK, CatalogKept, ensureCatalogPlaceholder,
         dropCatalogPlaceholder, CatalogRow
    <2> QED  BY <1>1, <2>1, <2>2 DEF TypeOK, ScratchOK
  <1>4. RowsOK'
    BY <1>1 DEF IInv, RowsOK, Rewrites
  <1>5. Listed' = Listed
    BY <1>1 DEF Listed, Rewrites
  <1>6. UnlistedShowInParent'
    <2>1. \A k \in DOMAIN jobs : /\ jobs'[k].kind = jobs[k].kind /\ jobs'[k].game = jobs[k].game
                                 /\ jobs'[k].parent = jobs[k].parent
      BY <1>1 DEF Rewrites
    <2>2. Listed \subseteq DOMAIN jobs
      BY DEF Listed
    <2> QED  BY <1>1, <1>5, <2>1, <2>2 DEF IInv, UnlistedShowInParent
  <1>7. TotalIsOfListed'
    BY <1>5 DEF IInv, TotalIsOfListed, Rewrites
  <1>8. CatalogShowsWork'
    <2>1. \A g \in Games : g # row.game => (Working(jobs', g) <=> Working(jobs, g))
      BY <1>1, <1>2 DEF Working
    <2>2. CASE row.state = "processing" /\ catalog' = ensureCatalogPlaceholder(row.game)
      <3>1. Working(jobs', row.game)
        BY <1>1, <2>2 DEF Working
      <3> QED  BY <1>2, <2>1, <2>2, <3>1
               DEF IInv, TypeOK, CatalogShowsWork, ensureCatalogPlaceholder
    <2>3. CASE row.state # "processing" /\ catalog' = dropCatalogPlaceholder({row.game}, jobs')
      <3>1. Working(jobs', row.game) => Working(jobs, row.game)
        BY <1>1, <2>3 DEF Working
      <3> QED  BY <1>2, <2>1, <2>3, <3>1
               DEF IInv, TypeOK, CatalogShowsWork, dropCatalogPlaceholder
    <2>4. CASE (row.state = "processing" <=> jobs[j].state = "processing") /\ CatalogKept
      <3>1. Working(jobs', row.game) <=> Working(jobs, row.game)
        BY <1>1, <1>2, <2>4 DEF Working
      <3> QED  BY <1>2, <2>1, <2>4, <3>1 DEF IInv, CatalogShowsWork, CatalogKept
    <2> QED  BY <2>2, <2>3, <2>4 DEF Rewrites
  <1> QED  BY <1>3, <1>4, <1>6, <1>7, <1>8 DEF IInv

\* The cron rewrites several rows at once, each like a failure.
LEMMA ExpireKeeps ==
    ASSUME IInv, ScratchOK, appJobsExpire
    PROVE  IInv'
  <1> DEFINE failed(r) == [r EXCEPT !.state = "error", !.progress = FALSE, !.stale = FALSE]
  <1>1. ASSUME NEW r, RowOK(r)
        PROVE  /\ RowOK(failed(r)) /\ failed(r).state = "error"
               /\ failed(r).kind = r.kind /\ failed(r).game = r.game /\ failed(r).parent = r.parent
    BY <1>1 DEF RowOK, Job, JobStates
  <1>2. jobs' = [j \in DOMAIN jobs |-> IF j \in StaleApps THEN failed(jobs[j]) ELSE jobs[j]]
    BY DEF appJobsExpire
  <1> HIDE DEF failed
  <1>3. StaleApps \subseteq DOMAIN jobs /\ \A j \in DOMAIN jobs : RowOK(jobs[j])
    BY DEF StaleApps, IInv, RowsOK
  <1>4. /\ DOMAIN jobs' = DOMAIN jobs
        /\ \A j \in DOMAIN jobs :
              /\ RowOK(jobs'[j])
              /\ jobs'[j].kind = jobs[j].kind /\ jobs'[j].game = jobs[j].game
              /\ jobs'[j].parent = jobs[j].parent
              /\ jobs'[j] # jobs[j] => j \in StaleApps /\ jobs'[j].state = "error"
    BY <1>1, <1>2, <1>3
  <1>5. TypeOK'
    <2>1. jobs' \in [1..Len(jobs) -> Job] /\ Len(jobs) \in Nat
      BY <1>2, <1>4, JobsDomain DEF IInv, RowOK
    <2>2. jobs' \in Seq(Job)
      BY <2>1, SeqDef
    <2>3. listed' \in Nat /\ catalog' \in [Games -> CatalogRow]
      BY DEF appJobsExpire, dropCatalogPlaceholder, IInv, TypeOK, CatalogRow
    <2> QED  BY <2>2, <2>3 DEF TypeOK, ScratchOK
  <1>6. RowsOK'
    BY <1>4 DEF RowsOK
  <1>7. Listed' = Listed /\ Listed \subseteq DOMAIN jobs
    BY <1>4 DEF Listed
  <1>8. UnlistedShowInParent'
    BY <1>4, <1>7 DEF IInv, UnlistedShowInParent
  <1>9. TotalIsOfListed'
    BY <1>7 DEF IInv, TotalIsOfListed, appJobsExpire
  <1>10. CatalogShowsWork'
    <2> DEFINE hit == {jobs[j].game : j \in StaleApps}
    <2>1. \A g \in Games : Working(jobs', g) => Working(jobs, g)
      BY <1>4 DEF Working
    <2>2. \A g \in Games : g \notin hit => (Working(jobs, g) => Working(jobs', g))
      BY <1>4 DEF Working
    <2>3. catalog' = dropCatalogPlaceholder(hit, jobs')
      BY DEF appJobsExpire
    <2> HIDE DEF hit
    <2> QED  BY <2>1, <2>2, <2>3 DEF IInv, TypeOK, CatalogShowsWork, dropCatalogPlaceholder
  <1> QED  BY <1>5, <1>6, <1>8, <1>9, <1>10 DEF IInv

LEMMA PublishKeeps ==
    ASSUME IInv, ScratchOK, UNCHANGED <<jobs, listed>>, CatalogKept \/ CatalogPublished
    PROVE  IInv'
  <1>1. catalog' \in [Games -> CatalogRow]
    BY DEF IInv, TypeOK, CatalogKept, CatalogPublished, CatalogRow
  <1>2. TypeOK'
    BY <1>1 DEF IInv, TypeOK, ScratchOK
  <1>3. CatalogShowsWork'
    BY DEF IInv, TypeOK, CatalogShowsWork, CatalogKept, CatalogPublished, Working, Published
  <1> QED  BY <1>2, <1>3 DEF IInv, RowsOK, UnlistedShowInParent, TotalIsOfListed, Listed

-----------------------------------------------------------------------------
(* The theorems. *)

LEMMA Inductive == IInv /\ [Next]_vars => IInv'
  <1> SUFFICES ASSUME IInv, [Next]_vars PROVE IInv'
    OBVIOUS
  <1>1. Effects /\ ScratchOK
    BY StepEffects DEF IInv, Good
  <1> QED  BY <1>1, PublishKeeps, InsertKeeps, RewriteKeeps, ExpireKeeps DEF Effects

LEMMA Initially == Init => IInv
  <1> SUFFICES ASSUME Init PROVE IInv
    OBVIOUS
  <1>1. jobs \in Seq(Job) /\ DOMAIN jobs = {}
    BY EmptySeq DEF Init
  <1>2. TypeOK
    BY <1>1 DEF Init, TypeOK, CatalogRow
  <1>3. TotalIsOfListed
    <2>1. Listed = {}
      BY <1>1 DEF Listed
    <2> QED  BY <2>1, FS_EmptySet DEF TotalIsOfListed, Init
  <1>4. RowsOK /\ UnlistedShowInParent
    BY <1>1 DEF RowsOK, UnlistedShowInParent
  <1>5. CatalogShowsWork
    BY <1>1 DEF CatalogShowsWork, Working, Init
  <1> QED  BY <1>2, <1>3, <1>4, <1>5 DEF IInv

\* The inductive invariant holds of every state the object reaches.
THEOREM Invariance == Spec => []IInv
  BY Initially, Inductive, PTL DEF Spec

\* Every table keeps its type, whatever RPCs arrive (the schema, and the guards that
\* keep a job's parent, stream and memory within it).
THEOREM TypeCorrect == Spec => []TypeOK
  <1>1. IInv => TypeOK
    BY DEF IInv
  <1> QED  BY <1>1, Invariance, PTL

\* A placeholder in the catalog always stands for work in progress, and work in progress
\* always has a catalog row (ensureCatalogPlaceholder, dropCatalogPlaceholder and every
\* transition that calls them).
THEOREM CatalogFollowsWork == Spec => []CatalogShowsWork
  <1>1. IInv => CatalogShowsWork
    BY DEF IInv
  <1> QED  BY <1>1, Invariance, PTL

\* A job held back never runs, progress and the "oom" kind never outlive the state they
\* describe, and the stored total is the number of rows listed, although nothing ever
\* recounts it (jobSetDisabled, jobClaim, jobUpdate, appJobsExpire, jobInsert).
THEOREM TheTableAgrees == Spec => []TableAgrees
  <1>1. IInv => HeldBackIsIdle
    BY DEF IInv, RowsOK, RowOK, HeldBackIsIdle
  <1>2. IInv => RowDescribesItself
    BY DEF IInv, RowsOK, RowOK, RowDescribesItself
  <1>3. IInv => TotalIsOfListed
    BY DEF IInv
  <1>4. IInv => TableAgrees
    BY <1>1, <1>2, <1>3 DEF TableAgrees
  <1> QED  BY <1>4, Invariance, PTL

\* No job can be hidden from the queue page by the parent an open route names (jobInsert).
THEOREM NothingIsHidden == Spec => []UnlistedShowInParent
  <1>1. IInv => UnlistedShowInParent
    BY DEF IInv
  <1> QED  BY <1>1, Invariance, PTL

\* No RPC queues a re-simulation of a game with an active one (jobAnnounce and every door
\* that goes around it).
THEOREM QueuedOnce == Spec => NeverQueuedTwice
  <1> DEFINE Once == Len(jobs') > Len(jobs) /\ jobs'[NextId].kind = "resim"
                       => ActiveResim(jobs'[NextId].game) = {}
  <1>1. IInv /\ [Next]_vars => [Once]_vars
    <2> SUFFICES ASSUME IInv, [Next]_vars, Len(jobs') > Len(jobs)
                 PROVE  jobs'[NextId].kind = "resim" => ActiveResim(jobs'[NextId].game) = {}
      OBVIOUS
    <2>1. Effects /\ jobs \in Seq(Job) /\ Len(jobs) \in Nat
      BY StepEffects, JobsDomain DEF IInv, Good, TypeOK
    <2>2. ASSUME NEW row \in Job, Inserts(row)
          PROVE  jobs'[NextId] = row /\ (row.kind = "resim" => ActiveResim(row.game) = {})
      BY <2>2, AppendShape DEF Inserts, IInv
    <2>3. ASSUME NEW j \in DOMAIN jobs, NEW row \in Job, Rewrites(j, row)
          PROVE  Len(jobs') = Len(jobs)
      <3>1. j \in 1..Len(jobs) /\ jobs' = [jobs EXCEPT ![j] = row]
        BY <2>3, JobsDomain DEF Rewrites, IInv
      <3> QED  BY <2>1, <3>1, ExceptSeq
    <2>4. ASSUME appJobsExpire
          PROVE  Len(jobs') = Len(jobs)
      <3>1. jobs' \in Seq(Job) /\ DOMAIN jobs' = DOMAIN jobs
        BY <2>1, <2>4, ExpireKeeps, StepEffects DEF IInv, Good, TypeOK, appJobsExpire
      <3>2. DOMAIN jobs' = 1..Len(jobs') /\ Len(jobs') \in Nat /\ DOMAIN jobs = 1..Len(jobs)
        BY <3>1, LenProperties, JobsDomain DEF IInv
      <3> DEFINE new == Len(jobs')
                 old == Len(jobs)
      <3>3. new \in Nat /\ old \in Nat /\ 1..new = 1..old
        BY <2>1, <3>1, <3>2
      <3> HIDE DEF new, old
      <3>4. new = old
        <4>1. new > old => new \in 1..new /\ new \notin 1..old
          BY <3>3
        <4>2. old > new => old \in 1..old /\ old \notin 1..new
          BY <3>3
        <4> QED  BY <3>3, <4>1, <4>2
      <3> QED  BY <3>4 DEF new, old
    <2>5. jobs' # jobs
      BY <2>1
    <2>6. PICK row \in Job : Inserts(row)
      BY <2>1, <2>3, <2>4, <2>5 DEF Effects
    <2> QED  BY <2>2, <2>6
  <1> QED  BY <1>1, Invariance, PTL DEF Spec, NeverQueuedTwice

\* No step takes back what the catalog says is published.
LEMMA PublishedKept ==
    ASSUME IInv, [Next]_vars
    PROVE  \A g \in Games : catalog[g] \in Published => catalog'[g] \in Published
  <1>1. Effects /\ catalog \in [Games -> CatalogRow]
    BY StepEffects DEF IInv, Good, TypeOK
  <1>2. \/ CatalogKept \/ CatalogPublished
        \/ \E g \in Games : catalog' = ensureCatalogPlaceholder(g)
        \/ \E gs : catalog' = dropCatalogPlaceholder(gs, jobs')
    BY <1>1 DEF Effects, Inserts, Rewrites, appJobsExpire, Job
  <1> QED  BY <1>1, <1>2 DEF CatalogKept, CatalogPublished, Published, CatalogRow,
           ensureCatalogPlaceholder, dropCatalogPlaceholder

\* Nothing but a publish touches a published row (dropCatalogPlaceholder's WHERE).
THEOREM PublishedForGood == Spec => PublishedStays
  <1>1. IInv /\ [Next]_vars => [\A g \in Games : catalog[g] \in Published => catalog'[g] \in Published]_vars
    BY PublishedKept
  <1> QED  BY <1>1, Invariance, PTL DEF Spec, PublishedStays

-----------------------------------------------------------------------------
(* PART TWO: THE SYSTEM, the queue with its daemons.                       *)

-----------------------------------------------------------------------------
(* The inductive invariant. *)

Busy == {"running", "published", "failed", "reporting"}
PCs == {"idle", "listed"} \cup Busy

\* A daemon's hand, over the rows a table has.
HandOK(h, rows) ==
    /\ h \in [pc : PCs, list : SUBSET rows, job : rows \cup {NoJob}, ok : BOOLEAN, oom : BOOLEAN]
    /\ h.pc \in Busy => h.job \in rows
    /\ h.ok => h.pc \in Busy

HandInv ==
    /\ DOMAIN hand = Daemons
    /\ \A d \in Daemons : HandOK(hand[d], DOMAIN jobs)

\* What a daemon remembers having published is in the catalog.
OkInv == \A d \in Daemons : hand[d].ok => catalog[jobs[hand[d].job].game] \in Published

\* The row of a job somebody holds: no claim takes it.
Taken(row) ==
    /\ ~row.disabled
    /\ \/ row.state \in {"done", "error"}
       \/ row.state = "processing" /\ ~row.stale

\* Why a hold is exclusive: as long as it is not broken its row cannot be claimed.
HoldInv == \A d \in Resimmers : AtWork(d) /\ d \notin broken => Taken(jobs[hand[d].job])

SysInv == IInv /\ HandInv /\ OkInv /\ HoldInv /\ HoldIsExclusive /\ DoneMeansPlayable

-----------------------------------------------------------------------------
(* What calm steps do. *)

\* Rows are never removed, and never change the work they stand for.
Grows ==
    \A j \in DOMAIN jobs : /\ j \in DOMAIN jobs'
                           /\ jobs'[j].game = jobs[j].game /\ jobs'[j].kind = jobs[j].kind

RowsCalm ==
    /\ Grows
    /\ \A j \in DOMAIN jobs' : jobs'[j].state = "done" =>
          /\ j \in DOMAIN jobs
          /\ jobs[j].state = "done" \/ catalog[jobs[j].game] \in Published
    /\ \A j \in DOMAIN jobs : Taken(jobs[j]) => Taken(jobs'[j]) \/ Workers(j) \subseteq broken'

HandsCalm ==
    /\ HandInv'
    /\ \A d \in broken : AtWork(d)' => d \in broken'
    /\ \A d \in Resimmers : AtWork(d)' => AtWork(d) /\ hand'[d].job = hand[d].job
    /\ \A d \in Daemons : hand'[d].ok =>
          \/ hand[d].ok /\ hand'[d].job = hand[d].job
          \/ hand'[d].job \in DOMAIN jobs /\ catalog'[jobs[hand'[d].job].game] \in Published

-----------------------------------------------------------------------------
(* The rows. *)

\* A row's game is a game, and its id is not the id of no job.
LEMMA GameOf ==
    ASSUME TypeOK, NEW j \in DOMAIN jobs
    PROVE  jobs[j].game \in Games /\ j \in Nat \ {0}
  BY JobsDomain DEF Job

\* A step that queues at most one fresh job.
Queues == UNCHANGED jobs \/ \E row \in Job : row.state = "pending" /\ jobs' = Append(jobs, row)

\* Queueing a job is calm.
LEMMA QueuesCalm ==
    ASSUME TypeOK, Queues
    PROVE  RowsCalm
  <1>1. CASE UNCHANGED jobs
    BY <1>1 DEF RowsCalm, Grows, Taken
  <1>2. ASSUME NEW row \in Job, row.state = "pending", jobs' = Append(jobs, row)
        PROVE  RowsCalm
    <2>1. /\ DOMAIN jobs' = DOMAIN jobs \cup {NextId} /\ jobs'[NextId] = row
          /\ \A j \in DOMAIN jobs : jobs'[j] = jobs[j]
      BY <1>2, AppendShape
    <2> QED  BY <1>2, <2>1 DEF RowsCalm, Grows, Taken
  <1> QED  BY <1>1, <1>2 DEF Queues

\* An announced job is one fresh row at most.
LEMMA AnnounceQueues ==
    ASSUME NEW g \in Games, jobAnnounce(g) \/ jobInsert(NewJob("resim", g))
    PROVE  Queues
  BY NewJobOK DEF jobAnnounce, jobInsert, Queues, Kinds

\* So is whatever jobsOffer offers.
LEMMA OfferQueues ==
    ASSUME Good, NEW m \in Mems, jobsOffer(m)
    PROVE  Queues
  <1>1. Untouched \subseteq Games /\ lavaCandidates \subseteq Games /\ InWindow \subseteq Games
    BY DEF Untouched, lavaCandidates, InWindow, Good, TypeOK
  <1>2. lavaRetryCandidates(m) \subseteq Games
    BY DEF lavaRetryCandidates, Good, TypeOK
  <1>3. ASSUME NEW g \in Games, NEW rests, offerBackfilled(g, rests)
        PROVE  Queues
    BY <1>3, AnnounceQueues DEF offerBackfilled
  <1>4. CASE OfferLava
    BY <1>1, <1>3, <1>4 DEF OfferLava, Latest
  <1>5. CASE OfferRetry(m)
    BY <1>2, <1>3, <1>5 DEF OfferRetry, lavaRetryCandidate
  <1>6. CASE OfferBackfill(m)
    BY <1>1, <1>3, <1>6 DEF OfferBackfill, backfillCandidate
  <1>7. CASE OfferPending \/ OfferNothing(m)
    BY <1>7 DEF OfferPending, OfferNothing, Rest, Queues
  <1> QED  BY <1>4, <1>5, <1>6, <1>7 DEF jobsOffer

\* What people and the games sync send.
LEMMA AskedQueues ==
    ASSUME Good, NEW g \in Games, Asked(g)
    PROVE  Queues
  <1>1. CASE Upload(g, NoJob)
    <2> DEFINE row == [NewJob("upload", g) EXCEPT !.stream = NextId, !.parent = ParentFor(NoJob, g)]
    <2>1. NextId \in Nat /\ NoJob \notin DOMAIN jobs
      BY JobsDomain DEF Good, NextId, NoJob
    <2>2. row \in Job /\ row.state = "pending"
      BY <2>1, NoSize DEF NewJob, Job, NoJob, JobStates, Kinds, ParentFor
    <2> QED  BY <1>1, <2>2 DEF Upload, jobInsert, Queues
  <1>2. CASE resimEnqueue(g) \/ resimRequest(g)
    <2>1. [NewJob("resim", g) EXCEPT !.disabled = TRUE] \in Job
      BY NoSize DEF NewJob, Job, NoJob, JobStates, Kinds
    <2>2. [NewJob("resim", g) EXCEPT !.public = TRUE] \in Job
      BY NoSize DEF NewJob, Job, NoJob, JobStates, Kinds
    <2>3. /\ [NewJob("resim", g) EXCEPT !.disabled = TRUE].state = "pending"
          /\ [NewJob("resim", g) EXCEPT !.public = TRUE].state = "pending"
      BY DEF NewJob
    <2> QED  BY <1>2, <2>1, <2>2, <2>3, AnnounceQueues DEF resimEnqueue, resimRequest, jobInsert, Queues
  <1>3. CASE gamesInsert({g})
    BY <1>3 DEF gamesInsert, Queues
  <1> QED  BY <1>1, <1>2, <1>3 DEF Asked

\* And a retry.
LEMMA RetryQueues ==
    ASSUME Good, NEW j \in DOMAIN jobs, jobRetry(j)
    PROVE  Queues
  <1> DEFINE row == [NewJob("upload", jobs[j].game) EXCEPT !.stream = jobs[j].stream]
  <1>1. jobs[j].game \in Games /\ jobs[j].stream \in Nat
    BY JobsDomain DEF Good, Job
  <1>2. row \in Job /\ row.state = "pending"
    BY <1>1, NoSize DEF NewJob, Job, NoJob, JobStates, Kinds
  <1>3. jobAnnounce(jobs[j].game) \/ jobInsert(row)
    BY DEF jobRetry
  <1> QED  BY <1>1, <1>2, <1>3, AnnounceQueues DEF jobInsert, Queues

\* A step that rewrites one row.
LEMMA RewriteShape ==
    ASSUME TypeOK, NEW j \in DOMAIN jobs, NEW row \in Job, jobs' = [jobs EXCEPT ![j] = row]
    PROVE  /\ DOMAIN jobs' = DOMAIN jobs /\ jobs'[j] = row
           /\ \A k \in DOMAIN jobs : k # j => jobs'[k] = jobs[k]
  BY JobsDomain, ExceptSeq DEF TypeOK

\* When rewriting a row is calm.
LEMMA RewriteCalm ==
    ASSUME TypeOK, NEW j \in DOMAIN jobs, NEW row \in Job, jobs' = [jobs EXCEPT ![j] = row],
           row.game = jobs[j].game, row.kind = jobs[j].kind,
           row.state = "done" => jobs[j].state = "done" \/ catalog[jobs[j].game] \in Published,
           Taken(jobs[j]) => Taken(row) \/ Workers(j) \subseteq broken'
    PROVE  RowsCalm
  BY RewriteShape DEF RowsCalm, Grows, Taken

\* A claim: the row it takes was free, and is taken.
LEMMA ClaimCalm ==
    ASSUME Good, NEW j \in DOMAIN jobs, jobClaim(j)
    PROVE  RowsCalm /\ ~Taken(jobs[j]) /\ Taken(jobs'[j])
  <1> DEFINE row == [jobs[j] EXCEPT !.state = "processing", !.progress = FALSE, !.stale = FALSE]
  <1>1. jobs[j] \in Job /\ ~Taken(jobs[j]) /\ ~jobs[j].disabled
    BY JobsDomain DEF Good, jobClaim, Claimable, Taken
  <1>2. /\ row \in Job /\ row.state = "processing" /\ ~row.stale /\ ~row.disabled
        /\ row.kind = jobs[j].kind /\ row.game = jobs[j].game
    BY <1>1 DEF Job, JobStates
  <1>3. jobs' = [jobs EXCEPT ![j] = row]
    BY DEF jobClaim
  <1> HIDE DEF row
  <1>4. RowsCalm
    BY <1>1, <1>2, <1>3, RewriteCalm DEF Good
  <1>5. Taken(jobs'[j])
    BY <1>2, <1>3, RewriteShape DEF Good, Taken
  <1> QED  BY <1>1, <1>4, <1>5

\* A report is calm if what it calls done is in the catalog.
LEMMA UpdateCalm ==
    ASSUME Good, NEW j \in DOMAIN jobs, NEW s \in {"processing", "done", "error"}, NEW p \in BOOLEAN,
           NEW o \in BOOLEAN, NEW m \in Mems, jobUpdate(j, s, p, o, m),
           s = "done" => catalog[jobs[j].game] \in Published
    PROVE  RowsCalm
  <1> DEFINE row == Reported(jobs[j], s, p, o, m)
  <1>1. jobs[j] \in Job
    BY JobsDomain DEF Good
  <1>2. row \in Job
    <2>1. (IF m = 0 THEN jobs[j].mem ELSE m) \in Mems
      BY <1>1 DEF Job
    <2>2. (s = "processing" /\ (p \/ jobs[j].progress)) \in BOOLEAN /\ s \in JobStates
      BY DEF JobStates
    <2> QED  BY <1>1, <2>1, <2>2 DEF Job, Reported
  <1>3. /\ row.state = s /\ ~row.stale /\ row.disabled = jobs[j].disabled
        /\ row.kind = jobs[j].kind /\ row.game = jobs[j].game
    BY <1>1 DEF Job, Reported
  <1>4. jobs' = [jobs EXCEPT ![j] = row]
    BY DEF jobUpdate
  <1> HIDE DEF row
  <1> QED  BY <1>2, <1>3, <1>4, RewriteCalm DEF Good, Taken

\* So is a row going stale under daemons that count as broken.
LEMMA LapseCalm ==
    ASSUME Good, NEW j \in DOMAIN jobs, Lapse(j), Workers(j) \subseteq broken'
    PROVE  RowsCalm
  <1> DEFINE row == [jobs[j] EXCEPT !.stale = TRUE]
  <1>1. jobs[j] \in Job
    BY JobsDomain DEF Good
  <1>2. row \in Job /\ row.state = jobs[j].state /\ row.kind = jobs[j].kind /\ row.game = jobs[j].game
    BY <1>1 DEF Job
  <1>3. jobs' = [jobs EXCEPT ![j] = row]
    BY DEF Lapse
  <1> HIDE DEF row
  <1> QED  BY <1>2, <1>3, RewriteCalm DEF Good

\* And the switch, under the same condition.
LEMMA SwitchCalm ==
    ASSUME Good, NEW j \in DOMAIN jobs, NEW d \in BOOLEAN, jobSetDisabled(j, d),
           jobs[j].disabled \/ Workers(j) \subseteq broken'
    PROVE  RowsCalm
  <1> DEFINE row == Switched(jobs[j], d)
  <1>1. jobs[j] \in Job
    BY JobsDomain DEF Good
  <1>2. /\ row \in Job /\ row.kind = jobs[j].kind /\ row.game = jobs[j].game
        /\ row.state = "done" => jobs[j].state = "done"
    BY <1>1 DEF Job, JobStates, Switched
  <1>3. jobs' = [jobs EXCEPT ![j] = row]
    BY DEF jobSetDisabled
  <1> HIDE DEF row
  <1> QED  BY <1>2, <1>3, RewriteCalm DEF Good, Taken

-----------------------------------------------------------------------------
(* The hands. *)

\* A daemon at work has a job of the table.
LEMMA HandFacts ==
    ASSUME HandInv, NEW d \in Daemons
    PROVE  /\ HandOK(hand[d], DOMAIN jobs)
           /\ AtWork(d) <=> hand[d].pc \in Busy
           /\ AtWork(d) => hand[d].job \in DOMAIN jobs
  BY DEF HandInv, HandOK, AtWork, Busy

\* The hand of a daemon with nothing to do.
LEMMA IdleOK ==
    ASSUME NEW rows
    PROVE  HandOK(Idle, rows) /\ Idle.pc \notin Busy /\ ~Idle.ok
  BY DEF Idle, HandOK, PCs, Busy, NoJob

\* No hand moves.
LEMMA HandsStay ==
    ASSUME HandInv, Grows, hand' = hand, broken \subseteq broken'
    PROVE  HandsCalm
  <1>1. HandInv'
    BY DEF HandInv, HandOK, Grows
  <1> QED  BY <1>1 DEF HandsCalm, AtWork

\* One hand moves.
LEMMA HandMoved ==
    ASSUME HandInv, Grows, NEW d \in Daemons, NEW h, Moves(d, h), HandOK(h, DOMAIN jobs')
    PROVE  HandInv' /\ hand'[d] = h /\ \A e \in Daemons \ {d} : hand'[e] = hand[e]
  <1>1. hand'[d] = h /\ DOMAIN hand' = Daemons /\ \A e \in Daemons \ {d} : hand'[e] = hand[e]
    BY DEF HandInv, Moves
  <1>2. \A e \in Daemons \ {d} : HandOK(hand'[e], DOMAIN jobs')
    BY <1>1 DEF HandInv, HandOK, Grows
  <1> QED  BY <1>1, <1>2 DEF HandInv

\* A daemon that moves on without taking a job, and remembers publishing only what is published.
LEMMA HandMoves ==
    ASSUME HandInv, Grows, NEW d \in Daemons, NEW h, Moves(d, h), HandOK(h, DOMAIN jobs'),
           broken \subseteq broken' \/ (h.pc \notin Busy /\ broken \subseteq broken' \cup {d}),
           d \in Resimmers /\ h.pc \in Busy => AtWork(d) /\ h.job = hand[d].job,
           h.ok => \/ hand[d].ok /\ h.job = hand[d].job
                   \/ h.job \in DOMAIN jobs /\ catalog'[jobs[h.job].game] \in Published
    PROVE  HandsCalm
  <1>1. HandInv' /\ hand'[d] = h /\ \A e \in Daemons \ {d} : hand'[e] = hand[e]
    BY HandMoved
  <1>2. \A e \in Resimmers : AtWork(e)' => AtWork(e) /\ hand'[e].job = hand[e].job
    BY <1>1 DEF AtWork, Busy, Daemons
  <1>3. AtWork(d)' <=> h.pc \in Busy
    BY <1>1 DEF AtWork, Busy
  <1> QED  BY <1>1, <1>2, <1>3 DEF HandsCalm

-----------------------------------------------------------------------------
(* Calm steps keep the invariant, and so does taking a job. *)

\* Calm steps keep what is done playable, as what is published stays published.
LEMMA PlayableKept ==
    ASSUME SysInv, [Next]_vars, RowsCalm
    PROVE  DoneMeansPlayable'
  <1> SUFFICES ASSUME NEW j \in DOMAIN jobs', jobs'[j].state = "done",
                      jobs'[j].kind \in {"resim", "upload"}
               PROVE  catalog'[jobs'[j].game] \in Published
    BY DEF DoneMeansPlayable
  <1>1. /\ j \in DOMAIN jobs
        /\ jobs[j].state = "done" \/ catalog[jobs[j].game] \in Published
        /\ jobs'[j].game = jobs[j].game /\ jobs'[j].kind = jobs[j].kind
    BY DEF RowsCalm, Grows
  <1>2. jobs[j].game \in Games
    BY <1>1, GameOf DEF SysInv, IInv
  <1>3. catalog[jobs[j].game] \in Published
    BY <1>1 DEF SysInv, DoneMeansPlayable
  <1> QED  BY <1>1, <1>2, <1>3, PublishedKept DEF SysInv

\* What a daemon remembers having published stays published.
LEMMA OkKept ==
    ASSUME SysInv, [Next]_vars, Grows,
           \A d \in Daemons : hand'[d].ok =>
              \/ hand[d].ok /\ hand'[d].job = hand[d].job
              \/ hand'[d].job \in DOMAIN jobs /\ catalog'[jobs[hand'[d].job].game] \in Published
    PROVE  OkInv'
  <1> SUFFICES ASSUME NEW d \in Daemons, hand'[d].ok
               PROVE  catalog'[jobs'[hand'[d].job].game] \in Published
    BY DEF OkInv
  <1>1. CASE hand[d].ok /\ hand'[d].job = hand[d].job
    <2>1. hand[d].job \in DOMAIN jobs
      BY <1>1 DEF SysInv, HandInv, HandOK
    <2>2. jobs[hand[d].job].game \in Games /\ jobs'[hand[d].job].game = jobs[hand[d].job].game
      BY <2>1, GameOf DEF SysInv, IInv, Grows
    <2>3. catalog[jobs[hand[d].job].game] \in Published
      BY <1>1 DEF SysInv, OkInv
    <2> QED  BY <1>1, <2>2, <2>3, PublishedKept DEF SysInv
  <1>2. CASE hand'[d].job \in DOMAIN jobs /\ catalog'[jobs[hand'[d].job].game] \in Published
    BY <1>2 DEF Grows
  <1> QED  BY <1>1, <1>2

\* A calm step keeps the invariant.
LEMMA CalmKeeps ==
    ASSUME SysInv, [Next]_vars, RowsCalm, HandsCalm
    PROVE  SysInv'
  <1>1. IInv' /\ TypeOK /\ HandInv'
    BY Inductive DEF SysInv, IInv, HandsCalm
  <1>2. \A d \in Daemons : AtWork(d) => hand[d].job \in DOMAIN jobs
    BY HandFacts DEF SysInv
  <1>3. OkInv'
    BY OkKept DEF RowsCalm, HandsCalm
  <1>4. HoldInv'
    <2> SUFFICES ASSUME NEW d \in Resimmers, AtWork(d)', d \notin broken'
                 PROVE  Taken(jobs'[hand'[d].job])
      BY DEF HoldInv
    <2>1. AtWork(d) /\ hand'[d].job = hand[d].job /\ d \notin broken
      BY DEF HandsCalm
    <2>2. hand[d].job \in DOMAIN jobs /\ d \in Workers(hand[d].job)
      BY <1>2, <2>1 DEF Daemons, Workers, WorksOn
    <2>3. Taken(jobs[hand[d].job])
      BY <2>1 DEF SysInv, HoldInv
    <2>4. ASSUME NEW j \in DOMAIN jobs, Taken(jobs[j]), d \in Workers(j)
          PROVE  Taken(jobs'[j])
      BY <2>4 DEF RowsCalm
    <2>5. Taken(jobs'[hand[d].job]) <=> Taken(jobs'[hand'[d].job])
      BY <2>1
    <2> QED  BY <2>2, <2>3, <2>4, <2>5
  <1>5. HoldIsExclusive'
    <2> SUFFICES ASSUME NEW d \in Resimmers, NEW e \in Resimmers, AtWork(d)', AtWork(e)',
                        hand'[d].job = hand'[e].job, d # e
                 PROVE  d \in broken' \/ e \in broken'
      BY DEF HoldIsExclusive, Workers, WorksOn
    <2>1. AtWork(d) /\ AtWork(e) /\ hand[d].job = hand[e].job
      BY DEF HandsCalm
    <2>2. hand[d].job \in DOMAIN jobs /\ {d, e} \subseteq Workers(hand[d].job) \cap Resimmers
      BY <1>2, <2>1 DEF Daemons, Workers, WorksOn
    <2> QED  BY <2>2 DEF SysInv, HoldIsExclusive, HandsCalm
  <1>6. DoneMeansPlayable'
    BY PlayableKept
  <1> QED  BY <1>1, <1>3, <1>4, <1>5, <1>6 DEF SysInv

\* A re-sim daemon takes a job that nobody holds: every other hold is on another row, or broken.
LEMMA TakeKeeps ==
    ASSUME SysInv, [Next]_vars, NEW d \in Resimmers, NEW j \in DOMAIN jobs,
           jobClaim(j), Took(d, j), broken' = broken \ {d}
    PROVE  SysInv'
  <1> DEFINE h == [Idle EXCEPT !.pc = "running", !.job = j]
  <1>1. IInv' /\ TypeOK /\ Good /\ HandInv
    BY Inductive DEF SysInv, IInv, Good
  <1>2. RowsCalm /\ ~Taken(jobs[j]) /\ Taken(jobs'[j])
    BY <1>1, ClaimCalm
  <1>3. d \in Daemons /\ Grows /\ h.pc \in Busy /\ h.job = j /\ ~h.ok
    BY <1>2 DEF Daemons, RowsCalm, Busy, Idle
  <1>4. HandOK(h, DOMAIN jobs')
    BY <1>3 DEF HandOK, Idle, PCs, Busy, Grows
  <1>5. HandInv' /\ hand'[d] = h /\ \A e \in Daemons \ {d} : hand'[e] = hand[e]
    BY <1>1, <1>3, <1>4, HandMoved DEF Took
  <1> HIDE DEF h
  <1>6. \A e \in Daemons : AtWork(e) => hand[e].job \in DOMAIN jobs
    BY <1>1, HandFacts
  <1>7. \A e \in Resimmers \ {d} : AtWork(e)' => AtWork(e) /\ hand'[e].job = hand[e].job
    BY <1>5 DEF AtWork, Daemons
  <1>8. OkInv'
    BY <1>3, <1>5, OkKept
  <1>9. ASSUME NEW e \in Resimmers \ {d}, AtWork(e), e \notin broken
         PROVE  hand[e].job # j /\ Taken(jobs'[hand[e].job])
    <2>1. Taken(jobs[hand[e].job]) /\ hand[e].job \in DOMAIN jobs
      BY <1>6, <1>9 DEF SysInv, HoldInv, Daemons
    <2>2. ASSUME NEW k \in DOMAIN jobs, Taken(jobs[k]), e \in Workers(k)
          PROVE  k # j /\ Taken(jobs'[k])
      <3>1. ~(Workers(k) \subseteq broken')
        BY <1>9, <2>2
      <3> QED  BY <1>2, <2>2, <3>1 DEF RowsCalm
    <2>3. e \in Workers(hand[e].job)
      BY <1>9 DEF Workers, WorksOn, Daemons
    <2> QED  BY <2>1, <2>2, <2>3
  <1>10. HoldInv'
    <2> SUFFICES ASSUME NEW e \in Resimmers, AtWork(e)', e \notin broken'
                 PROVE  Taken(jobs'[hand'[e].job])
      BY DEF HoldInv
    <2>1. CASE e = d
      BY <1>2, <1>3, <1>5, <2>1
    <2>2. CASE e # d
      <3>1. AtWork(e) /\ hand'[e].job = hand[e].job /\ e \notin broken
        BY <1>7, <2>2
      <3>2. Taken(jobs'[hand[e].job])
        BY <1>9, <2>2, <3>1
      <3> QED  BY <3>1, <3>2
    <2> QED  BY <2>1, <2>2
  <1>11. HoldIsExclusive'
    <2> SUFFICES ASSUME NEW e \in Resimmers, NEW f \in Resimmers, AtWork(e)', AtWork(f)',
                        hand'[e].job = hand'[f].job, e # f, e # d
                 PROVE  e \in broken' \/ f \in broken'
      BY DEF HoldIsExclusive, Workers, WorksOn
    <2>1. AtWork(e) /\ hand'[e].job = hand[e].job
      BY <1>7
    <2>2. CASE f = d
      <3>1. hand[e].job = j
        BY <1>3, <1>5, <2>1, <2>2
      <3> QED  BY <1>9, <2>1, <3>1
    <2>3. CASE f # d
      <3>1. AtWork(f) /\ hand'[f].job = hand[f].job
        BY <1>7, <2>3
      <3>2. hand[e].job \in DOMAIN jobs /\ {e, f} \subseteq Workers(hand[e].job) \cap Resimmers
        BY <1>6, <2>1, <3>1 DEF Daemons, Workers, WorksOn
      <3> QED  BY <2>3, <3>2 DEF SysInv, HoldIsExclusive
    <2> QED  BY <2>2, <2>3
  <1>12. DoneMeansPlayable'
    BY <1>2, PlayableKept
  <1> QED  BY <1>1, <1>5, <1>8, <1>10, <1>11, <1>12 DEF SysInv

-----------------------------------------------------------------------------
(* Every action is a step of the queue, and is calm or takes a job. *)

StepOK == [Next]_vars /\ SysInv'

\* A calm step that is one of the queue's, or none.
LEMMA CalmStep ==
    ASSUME SysInv, Next \/ UNCHANGED vars, RowsCalm, HandsCalm
    PROVE  StepOK
  BY CalmKeeps DEF StepOK

\* What the steps use of the invariant.
LEMMA SysFacts ==
    ASSUME SysInv
    PROVE  Good /\ TypeOK /\ HandInv
  BY DEF SysInv, IInv, Good

\* A step that leaves the queue alone is calm.
LEMMA QueueKept ==
    ASSUME SysInv, UNCHANGED vars
    PROVE  RowsCalm /\ Grows /\ DOMAIN jobs' = DOMAIN jobs
  BY QueuesCalm, SysFacts DEF vars, Queues, RowsCalm

\* A report is an RPC of the queue.
LEMMA Reports ==
    ASSUME NEW j \in DOMAIN jobs, NEW s \in {"processing", "done", "error"}, NEW p \in BOOLEAN,
           NEW o \in BOOLEAN, NEW m \in Mems, jobUpdate(j, s, p, o, m),
           s = "processing" => ~o /\ m = 0, s = "done" => ~p /\ ~o, s = "error" => ~p
    PROVE  Next
  <1>1. Report(j, s, p, o, m)
    BY DEF Report
  <1> QED  BY <1>1 DEF Next, JobRPC

\* A beat, of the daemon at work on the job or a late one.
LEMMA BeatCalm ==
    ASSUME SysInv, NEW j \in DOMAIN jobs, Heartbeat(j)
    PROVE  Next /\ RowsCalm /\ Grows
  <1>1. Next
    BY Reports, NoSize DEF Heartbeat
  <1>2. RowsCalm
    BY SysFacts, UpdateCalm, NoSize DEF Heartbeat
  <1> QED  BY <1>1, <1>2 DEF RowsCalm

\* A daemon with a list, and one at work.
LEMMA ListedHand ==
    ASSUME SysInv, NEW d \in Daemons, hand[d].pc = "listed"
    PROVE  /\ HandOK(hand[d], DOMAIN jobs) /\ ~AtWork(d) /\ ~hand[d].ok
           /\ hand[d].list \subseteq DOMAIN jobs /\ First(hand[d].list) \subseteq DOMAIN jobs
  BY SysFacts, HandFacts DEF HandOK, First, Busy

\* A daemon at work: its job, and what it remembers.
LEMMA WorkingHand ==
    ASSUME SysInv, NEW d \in Daemons, hand[d].pc \in Busy
    PROVE  /\ HandOK(hand[d], DOMAIN jobs) /\ AtWork(d) /\ hand[d].job \in DOMAIN jobs
           /\ jobs[hand[d].job].game \in Games
           /\ hand[d].ok => catalog[jobs[hand[d].job].game] \in Published
  BY SysFacts, HandFacts, GameOf DEF SysInv, OkInv

\* A hand that has put its job down, or passed one over.
LEMMA RestingHand ==
    ASSUME NEW rows, NEW list \in SUBSET rows
    PROVE  LET h == IF list = {} THEN Idle ELSE [Idle EXCEPT !.pc = "listed", !.list = list]
           IN  HandOK(h, rows) /\ h.pc \notin Busy /\ ~h.ok
  BY DEF HandOK, Idle, PCs, Busy, NoJob

\* A daemon puts its job down, or has none, while the queue does something calm.
LEMMA RestsCalm ==
    ASSUME SysInv, RowsCalm, NEW d \in Daemons, NEW h, Moves(d, h), HandOK(h, DOMAIN jobs'),
           h.pc \notin Busy, ~h.ok, broken \subseteq broken' \cup {d}
    PROVE  HandsCalm
  BY SysFacts, HandMoves DEF RowsCalm

\* A daemon leaves its job, or its list.
LEMMA LeaveCalm ==
    ASSUME SysInv, RowsCalm, NEW d \in Daemons, Leave(d) \/ Moves(d, Idle), broken' = broken
    PROVE  HandsCalm
  <1> DEFINE h(list) == IF list = {} THEN Idle ELSE [Idle EXCEPT !.pc = "listed", !.list = list]
  <1>1. hand[d].list \subseteq DOMAIN jobs'
    BY SysFacts, HandFacts DEF HandOK, RowsCalm, Grows
  <1>2. \A list \in SUBSET DOMAIN jobs' :
            HandOK(h(list), DOMAIN jobs') /\ h(list).pc \notin Busy /\ ~h(list).ok
    BY RestingHand
  <1>3. \E list \in SUBSET DOMAIN jobs' : Moves(d, h(list))
    BY <1>1 DEF Leave
  <1> HIDE DEF h
  <1> QED  BY <1>2, <1>3, RestsCalm

\* Another field of the hand of a daemon that keeps its job.
LEMMA StaysAtWork ==
    ASSUME SysInv, RowsCalm, NEW d \in Daemons, hand[d].pc \in Busy,
           NEW h, Moves(d, h), HandOK(h, DOMAIN jobs), broken' = broken,
           h.job = hand[d].job, h.pc \in Busy,
           h.ok => hand[d].ok \/ catalog'[jobs[hand[d].job].game] \in Published
    PROVE  HandsCalm
  <1>1. AtWork(d) /\ hand[d].job \in DOMAIN jobs
    BY WorkingHand
  <1>2. HandOK(h, DOMAIN jobs')
    BY DEF HandOK, RowsCalm, Grows
  <1> QED  BY <1>1, <1>2, SysFacts, HandMoves DEF RowsCalm

-----------------------------------------------------------------------------
(* The re-sim daemon. *)

\* It is offered jobs.
LEMMA PollResimOK ==
    ASSUME SysInv, NEW d \in Resimmers, PollResim(d)
    PROVE  StepOK
  <1> DEFINE answer == Pending("resim") \cup (DOMAIN jobs' \ DOMAIN jobs)
             h == IF answer = {} THEN Idle ELSE [Idle EXCEPT !.pc = "listed", !.list = answer]
  <1>1. d \in Daemons /\ MemOf[d] \in Mems /\ jobsOffer(MemOf[d])
    BY DaemonsAssumption DEF Daemons, PollResim
  <1>2. Next
    BY <1>1 DEF Next
  <1>3. RowsCalm /\ Grows
    BY <1>1, SysFacts, OfferQueues, QueuesCalm DEF RowsCalm
  <1>4. answer \subseteq DOMAIN jobs'
    BY <1>3 DEF Pending, Grows
  <1>5. HandOK(h, DOMAIN jobs') /\ h.pc \notin Busy /\ ~h.ok
    BY <1>4, RestingHand
  <1>6. Moves(d, h) /\ broken' = broken
    BY DEF PollResim
  <1> HIDE DEF h
  <1>7. HandsCalm
    BY <1>1, <1>3, <1>5, <1>6, RestsCalm
  <1> QED  BY <1>2, <1>3, <1>7, CalmStep

\* The daemon passes a job over: somebody else's, or one whose claim went unanswered.
LEMMA SkippedCalm ==
    ASSUME SysInv, RowsCalm, NEW d \in Daemons, NEW j, hand[d].pc = "listed", Skipped(d, j),
           broken \subseteq broken' \cup {d}
    PROVE  HandsCalm
  <1> DEFINE rest == hand[d].list \ {j}
             h == IF rest = {} THEN Idle ELSE [hand[d] EXCEPT !.list = rest]
  <1>1. HandOK(hand[d], DOMAIN jobs) /\ ~hand[d].ok /\ rest \subseteq DOMAIN jobs'
    BY ListedHand DEF RowsCalm, Grows
  <1>2. HandOK(h, DOMAIN jobs') /\ h.pc \notin Busy /\ ~h.ok
    BY <1>1 DEF HandOK, Idle, PCs, Busy, NoJob, RowsCalm, Grows
  <1>3. Moves(d, h)
    BY DEF Skipped
  <1> HIDE DEF h
  <1> QED  BY <1>2, <1>3, RestsCalm

\* It claims one: the only step that is not calm.
LEMMA ClaimOK ==
    ASSUME SysInv, NEW d \in Resimmers, Claim(d) \/ ClaimAnswerLost(d)
    PROVE  StepOK
  <1>1. hand[d].pc = "listed" /\ d \in Daemons
    BY DEF Claim, ClaimAnswerLost, Daemons
  <1>2. PICK j \in First(hand[d].list) :
            \/ jobClaim(j) /\ Took(d, j) /\ broken' = broken \ {d}
            \/ jobClaim(j) /\ Skipped(d, j) /\ broken' = broken
            \/ UNCHANGED vars /\ Skipped(d, j) /\ broken' = broken \ {d}
    BY DEF Claim, ClaimAnswerLost
  <1>3. j \in DOMAIN jobs
    BY <1>1, ListedHand
  <1>4. jobClaim(j) => Next
    BY <1>3 DEF Next, JobRPC
  <1>5. CASE jobClaim(j) /\ Took(d, j) /\ broken' = broken \ {d}
    BY <1>3, <1>4, <1>5, TakeKeeps DEF StepOK
  <1>6. CASE jobClaim(j) /\ Skipped(d, j) /\ broken' = broken
    <2>1. RowsCalm
      BY <1>3, <1>6, ClaimCalm, SysFacts
    <2> QED  BY <1>1, <1>4, <1>6, <2>1, SkippedCalm, CalmStep
  <1>7. CASE UNCHANGED vars /\ Skipped(d, j) /\ broken' = broken \ {d}
    BY <1>1, <1>7, QueueKept, SkippedCalm, CalmStep
  <1> QED  BY <1>2, <1>5, <1>6, <1>7

\* It beats.
LEMMA BeatOK ==
    ASSUME SysInv,
           \/ \E d \in Resimmers : Beat(d) \/ CancelBeat(d)
           \/ \E j \in DOMAIN jobs : DeliverLate(j)
    PROVE  StepOK
  <1>1. \/ \E j \in DOMAIN jobs : Heartbeat(j)
        \/ UNCHANGED vars
    BY WorkingHand DEF Beat, CancelBeat, DeliverLate, Busy, Daemons
  <1>2. hand' = hand /\ broken' = broken
    BY DEF Beat, CancelBeat, DeliverLate, system
  <1>3. (Next \/ UNCHANGED vars) /\ RowsCalm /\ Grows
    BY <1>1, BeatCalm, QueueKept
  <1> QED  BY <1>2, <1>3, SysFacts, HandsStay, CalmStep

\* It publishes the replay.
LEMMA PublishResimOK ==
    ASSUME SysInv, NEW d \in Resimmers, PublishResim(d)
    PROVE  StepOK
  <1> DEFINE g == jobs[hand[d].job].game
             h == [hand[d] EXCEPT !.pc = "published", !.ok = TRUE]
  <1>1. /\ d \in Daemons /\ hand[d].pc \in Busy /\ HandOK(hand[d], DOMAIN jobs) /\ g \in Games
    BY WorkingHand DEF PublishResim, Daemons, Busy
  <1>2. upsert(g, "covered") /\ Moves(d, h) /\ broken' = broken
    BY DEF PublishResim
  <1>3. Next
    BY <1>1, <1>2 DEF Next, GameRPC, Published
  <1>4. Queues /\ catalog'[g] \in Published
    BY <1>1, <1>2, SysFacts DEF upsert, Queues, Published, TypeOK
  <1>5. RowsCalm
    BY <1>4, SysFacts, QueuesCalm
  <1>6. HandOK(h, DOMAIN jobs) /\ h.pc \in Busy /\ h.job = hand[d].job
    BY <1>1 DEF HandOK, PCs, Busy
  <1> HIDE DEF g, h
  <1>7. HandsCalm
    BY <1>1, <1>2, <1>4, <1>5, <1>6, StaysAtWork DEF g
  <1> QED  BY <1>3, <1>5, <1>7, CalmStep

\* Its run fails.
LEMMA FailResimOK ==
    ASSUME SysInv, NEW d \in Resimmers, FailResim(d)
    PROVE  StepOK
  <1>1. PICK oom \in BOOLEAN : Moves(d, [hand[d] EXCEPT !.pc = "failed", !.oom = oom])
    BY DEF FailResim
  <1> DEFINE h == [hand[d] EXCEPT !.pc = "failed", !.oom = oom]
  <1>2. d \in Daemons /\ hand[d].pc \in Busy /\ HandOK(hand[d], DOMAIN jobs)
    BY WorkingHand DEF FailResim, Daemons, Busy
  <1>3. HandOK(h, DOMAIN jobs) /\ h.pc \in Busy /\ h.job = hand[d].job /\ h.ok = hand[d].ok
    BY <1>2 DEF HandOK, PCs, Busy
  <1>4. UNCHANGED vars /\ broken' = broken
    BY DEF FailResim
  <1> HIDE DEF h
  <1>5. HandsCalm
    BY <1>1, <1>2, <1>3, <1>4, QueueKept, StaysAtWork DEF h
  <1> QED  BY <1>4, <1>5, QueueKept, CalmStep

\* Its beats stop before it reports.
LEMMA StopHealthcheckOK ==
    ASSUME SysInv, NEW d \in Resimmers, StopHealthcheck(d)
    PROVE  StepOK
  <1> DEFINE h == [hand[d] EXCEPT !.pc = "reporting"]
  <1>1. /\ d \in Daemons /\ hand[d].pc \in Busy /\ HandOK(hand[d], DOMAIN jobs)
        /\ hand[d].job \in DOMAIN jobs
    BY WorkingHand DEF StopHealthcheck, Daemons, Busy
  <1>2. HandOK(h, DOMAIN jobs) /\ h.pc \in Busy /\ h.job = hand[d].job /\ h.ok = hand[d].ok
    BY <1>1 DEF HandOK, PCs, Busy
  <1>3. Moves(d, h) /\ broken' = broken /\ (Heartbeat(hand[d].job) \/ UNCHANGED vars)
    BY DEF StopHealthcheck, Goes
  <1>4. (Next \/ UNCHANGED vars) /\ RowsCalm
    BY <1>1, <1>3, BeatCalm, QueueKept
  <1> HIDE DEF h
  <1>5. HandsCalm
    BY <1>1, <1>2, <1>3, <1>4, StaysAtWork
  <1> QED  BY <1>4, <1>5, CalmStep

\* The final report: "done" only from a daemon that has published.
LEMMA OutcomeCalm ==
    ASSUME SysInv, NEW d \in Daemons, hand[d].pc \in Busy, NEW m \in Mems, Outcome(d, m)
    PROVE  Next /\ RowsCalm
  <1>1. /\ hand[d].job \in DOMAIN jobs /\ hand[d].oom \in BOOLEAN
        /\ hand[d].ok => catalog[jobs[hand[d].job].game] \in Published
    BY WorkingHand DEF HandOK
  <1>2. CASE hand[d].ok
    <2>1. jobUpdate(hand[d].job, "done", FALSE, FALSE, m)
      BY <1>2 DEF Outcome
    <2>2. Next
      BY <1>1, <2>1, Reports
    <2> QED  BY <1>1, <1>2, <2>1, <2>2, UpdateCalm, SysFacts
  <1>3. CASE ~hand[d].ok
    <2>1. jobUpdate(hand[d].job, "error", FALSE, hand[d].oom, m)
      BY <1>3 DEF Outcome
    <2>2. Next
      BY <1>1, <2>1, Reports
    <2> QED  BY <1>1, <2>1, <2>2, UpdateCalm, SysFacts
  <1> QED  BY <1>2, <1>3

\* A step that reports the end of a job is calm.
LEMMA ReportOK ==
    ASSUME SysInv, \/ \E d \in Resimmers : ReportResim(d)
                   \/ \E d \in Uploaders : ReportUpload(d)
    PROVE  StepOK
  <1>1. PICK d \in Daemons : /\ hand[d].pc \in Busy /\ (Leave(d) \/ Moves(d, Idle)) /\ broken' = broken
                             /\ \E m \in Mems : Outcome(d, m)
    BY NoSize, DaemonsAssumption DEF ReportResim, ReportUpload, Daemons, Busy
  <1>2. Next /\ RowsCalm
    BY <1>1, OutcomeCalm
  <1> QED  BY <1>1, <1>2, LeaveCalm, CalmStep

-----------------------------------------------------------------------------
(* The upload daemon. *)

\* It asks for jobs.
LEMMA PollUploadOK ==
    ASSUME SysInv, NEW d \in Uploaders, PollUpload(d)
    PROVE  StepOK
  <1> DEFINE h == [Idle EXCEPT !.pc = "listed", !.list = Pending("upload")]
  <1>1. UNCHANGED vars /\ Moves(d, h) /\ broken' = broken /\ d \in Daemons
    BY DEF PollUpload, Daemons
  <1>2. HandOK(h, DOMAIN jobs) /\ h.pc \notin Busy /\ ~h.ok
    BY DEF HandOK, Idle, PCs, Busy, NoJob, Pending
  <1> HIDE DEF h
  <1>3. HandsCalm
    BY <1>1, <1>2, QueueKept, RestsCalm
  <1> QED  BY <1>1, <1>3, QueueKept, CalmStep

\* A hand that takes the next job of an upload daemon's list.
LEMMA UploadHand ==
    ASSUME SysInv, NEW d \in Uploaders, hand[d].pc = "listed", NEW j \in First(hand[d].list),
           NEW pc \in {"running", "reporting"}, RowsCalm, broken' = broken,
           Moves(d, [Idle EXCEPT !.pc = pc, !.job = j, !.list = hand[d].list \ {j}])
    PROVE  HandsCalm
  <1> DEFINE h == [Idle EXCEPT !.pc = pc, !.job = j, !.list = hand[d].list \ {j}]
  <1>1. d \in Daemons /\ d \notin Resimmers /\ Grows
    BY DaemonsAssumption DEF Daemons, RowsCalm
  <1>2. j \in DOMAIN jobs' /\ hand[d].list \subseteq DOMAIN jobs'
    BY <1>1, ListedHand DEF Grows
  <1>3. HandOK(h, DOMAIN jobs') /\ ~h.ok
    BY <1>2 DEF HandOK, Idle, PCs, Busy
  <1> HIDE DEF h
  <1> QED  BY <1>1, <1>3, SysFacts, HandMoves DEF h

\* It takes the next, without a claim: it holds nothing.
LEMMA StartUploadOK ==
    ASSUME SysInv, NEW d \in Uploaders, StartUpload(d)
    PROVE  StepOK
  <1>1. PICK j \in First(hand[d].list) :
            /\ jobUpdate(j, "processing", FALSE, FALSE, 0) \/ UNCHANGED vars
            /\ Moves(d, [Idle EXCEPT !.pc = "running", !.job = j, !.list = hand[d].list \ {j}])
    BY DEF StartUpload
  <1>2. hand[d].pc = "listed" /\ d \in Daemons /\ broken' = broken
    BY DEF StartUpload, Daemons
  <1>3. j \in DOMAIN jobs
    BY <1>2, ListedHand
  <1>4. (Next \/ UNCHANGED vars) /\ RowsCalm
    <2>1. CASE jobUpdate(j, "processing", FALSE, FALSE, 0)
      <3>1. Next
        BY <1>3, <2>1, Reports, NoSize
      <3>2. RowsCalm
        BY <1>3, <2>1, UpdateCalm, SysFacts, NoSize
      <3> QED  BY <3>1, <3>2
    <2> QED  BY <1>1, <2>1, QueueKept
  <1>5. HandsCalm
    BY <1>1, <1>2, <1>4, UploadHand
  <1> QED  BY <1>4, <1>5, CalmStep

\* It publishes the upload.
LEMMA PublishUploadOK ==
    ASSUME SysInv, NEW d \in Uploaders, PublishUpload(d)
    PROVE  StepOK
  <1> DEFINE g == jobs[hand[d].job].game
             h == [hand[d] EXCEPT !.pc = "reporting", !.ok = TRUE]
  <1>1. /\ d \in Daemons /\ hand[d].pc \in Busy /\ HandOK(hand[d], DOMAIN jobs) /\ g \in Games
    BY WorkingHand DEF PublishUpload, Daemons, Busy
  <1>2. PICK row \in Published : upsert(g, row)
    BY DEF PublishUpload
  <1>3. Moves(d, h) /\ broken' = broken
    BY DEF PublishUpload
  <1>4. Next
    BY <1>1, <1>2 DEF Next, GameRPC
  <1>5. Queues /\ catalog'[g] \in Published
    <2>1. Queues
      BY <1>1, <1>2, AnnounceQueues DEF upsert, Queues
    <2> QED  BY <1>1, <1>2, <2>1, SysFacts DEF upsert, TypeOK
  <1>6. RowsCalm
    BY <1>5, SysFacts, QueuesCalm
  <1>7. HandOK(h, DOMAIN jobs) /\ h.pc \in Busy /\ h.job = hand[d].job
    BY <1>1 DEF HandOK, PCs, Busy
  <1> HIDE DEF g, h
  <1>8. HandsCalm
    BY <1>1, <1>3, <1>5, <1>6, <1>7, StaysAtWork DEF g
  <1> QED  BY <1>4, <1>6, <1>8, CalmStep

\* It gives the upload up.
LEMMA FailUploadOK ==
    ASSUME SysInv, NEW d \in Uploaders, FailUpload(d)
    PROVE  StepOK
  <1>1. UNCHANGED vars /\ broken' = broken /\ d \in Daemons
    BY DEF FailUpload, Daemons
  <1>2. CASE hand[d].pc = "running" /\ Goes(d, "reporting")
    <2> DEFINE h == [hand[d] EXCEPT !.pc = "reporting"]
    <2>1. HandOK(hand[d], DOMAIN jobs) /\ hand[d].pc \in Busy
      BY <1>1, <1>2, WorkingHand DEF Busy
    <2>2. HandOK(h, DOMAIN jobs) /\ h.pc \in Busy /\ h.job = hand[d].job /\ h.ok = hand[d].ok
      BY <2>1 DEF HandOK, PCs, Busy
    <2>3. Moves(d, h)
      BY <1>2 DEF Goes
    <2> HIDE DEF h
    <2>4. HandsCalm
      BY <1>1, <2>1, <2>2, <2>3, QueueKept, StaysAtWork
    <2> QED  BY <1>1, <2>4, QueueKept, CalmStep
  <1>3. CASE /\ hand[d].pc = "listed"
             /\ \E j \in First(hand[d].list) :
                  Moves(d, [Idle EXCEPT !.pc = "reporting", !.job = j, !.list = hand[d].list \ {j}])
    BY <1>1, <1>3, QueueKept, UploadHand, CalmStep
  <1> QED  BY <1>2, <1>3 DEF FailUpload

-----------------------------------------------------------------------------
(* Faults, people, time. *)

\* A report that is lost and a crash: the daemon is at no job then.
LEMMA FaultOK ==
    ASSUME SysInv, NEW d \in Daemons, ReportLost(d) \/ Crash(d)
    PROVE  StepOK
  <1>1. UNCHANGED vars /\ broken' = broken /\ (Leave(d) \/ Moves(d, Idle))
    BY DEF ReportLost, Crash
  <1> QED  BY <1>1, QueueKept, LeaveCalm, CalmStep

\* A row goes stale: who holds it counts as broken from then on.
LEMMA GoesStaleOK ==
    ASSUME SysInv, NEW j \in DOMAIN jobs, GoesStale(j)
    PROVE  StepOK
  <1>1. Lapse(j) /\ broken' = broken \cup Workers(j) /\ hand' = hand
    BY DEF GoesStale
  <1>2. Next
    BY <1>1 DEF Next, JobRPC
  <1>3. RowsCalm
    BY <1>1, LapseCalm, SysFacts
  <1> QED  BY <1>1, <1>2, <1>3, SysFacts, HandsStay, CalmStep DEF RowsCalm

\* The switch holds a job back.
LEMMA HoldBackOK ==
    ASSUME SysInv, NEW j \in DOMAIN jobs, HoldBack(j)
    PROVE  StepOK
  <1> DEFINE d == ~jobs[j].disabled
  <1>1. /\ jobSetDisabled(j, d) /\ hand' = hand /\ broken \subseteq broken'
        /\ jobs[j].disabled \/ Workers(j) \subseteq broken'
    BY DEF HoldBack
  <1>2. d \in BOOLEAN
    OBVIOUS
  <1> HIDE DEF d
  <1>3. Next
    BY <1>1, <1>2 DEF Next, JobRPC
  <1>4. RowsCalm
    BY <1>1, <1>2, SwitchCalm, SysFacts
  <1> QED  BY <1>1, <1>3, <1>4, SysFacts, HandsStay, CalmStep DEF RowsCalm

\* People and the sync ask.
LEMMA AskOK ==
    ASSUME SysInv, Ask
    PROVE  StepOK
  <1>1. hand' = hand /\ broken' = broken
    BY DEF Ask
  <1>2. Next /\ Queues
    <2>1. ASSUME NEW g \in Games, Asked(g)
          PROVE  Next
      BY <2>1 DEF Asked, Next, GameRPC
    <2>2. ASSUME NEW j \in DOMAIN jobs, jobRetry(j)
          PROVE  Next
      BY <2>2 DEF Next, JobRPC
    <2> QED  BY <2>1, <2>2, AskedQueues, RetryQueues, SysFacts DEF Ask
  <1>3. RowsCalm
    BY <1>2, QueuesCalm, SysFacts
  <1> QED  BY <1>1, <1>2, <1>3, SysFacts, HandsStay, CalmStep DEF RowsCalm

\* A daemon has rested.
LEMMA RestedOK ==
    ASSUME SysInv, Rested
    PROVE  StepOK
  <1>1. hand' = hand /\ broken' = broken /\ Next /\ Queues
    BY DEF Rested, system, RestOver, Next, Queues
  <1>2. RowsCalm
    BY <1>1, QueuesCalm, SysFacts
  <1> QED  BY <1>1, <1>2, SysFacts, HandsStay, CalmStep DEF RowsCalm

\* Every step of the system.
LEMMA SystemStep ==
    ASSUME SysInv, [SystemNext]_allVars
    PROVE  StepOK
  <1>1. ASSUME NEW d \in Resimmers, ResimStep(d)
        PROVE  StepOK
    BY <1>1, PollResimOK, ClaimOK, PublishResimOK, FailResimOK, StopHealthcheckOK, ReportOK DEF ResimStep
  <1>2. ASSUME NEW d \in Uploaders, UploadStep(d)
        PROVE  StepOK
    BY <1>2, PollUploadOK, StartUploadOK, PublishUploadOK, FailUploadOK, ReportOK DEF UploadStep
  <1>3. CASE UNCHANGED allVars
    <2>1. UNCHANGED vars /\ hand' = hand /\ broken' = broken
      BY <1>3 DEF allVars, system
    <2> QED  BY <2>1, QueueKept, SysFacts, HandsStay, CalmStep
  <1> QED  BY <1>1, <1>2, <1>3, ClaimOK, BeatOK, FaultOK, GoesStaleOK, HoldBackOK, AskOK, RestedOK
           DEF SystemNext

-----------------------------------------------------------------------------
(* The theorems. *)

\* The system starts on an empty queue, with idle hands.
LEMMA SystemInitially == SystemInit => Init /\ SysInv
  <1> SUFFICES ASSUME SystemInit PROVE SysInv
    BY DEF SystemInit
  <1>1. IInv
    BY Initially DEF SystemInit
  <1>2. DOMAIN jobs = {}
    BY EmptySeq DEF SystemInit, Init
  <1>3. \A d \in Daemons : hand[d] = Idle /\ ~AtWork(d)
    BY DEF SystemInit, AtWork, Idle
  <1>4. HandInv
    <2>1. \A d \in Daemons : HandOK(hand[d], DOMAIN jobs)
      BY <1>3, IdleOK
    <2> QED  BY <2>1 DEF SystemInit, HandInv
  <1>5. OkInv
    BY <1>3 DEF OkInv, Idle
  <1>6. HoldInv
    BY <1>3 DEF HoldInv, Daemons
  <1> QED  BY <1>1, <1>2, <1>4, <1>5, <1>6 DEF SysInv, HoldIsExclusive, DoneMeansPlayable

\* The inductive invariant holds of every state of the queue and its daemons.
THEOREM SystemAlways == SystemSpec => []SysInv
  <1>1. SysInv /\ [SystemNext]_allVars => SysInv'
    BY SystemStep DEF StepOK
  <1> QED  BY <1>1, SystemInitially, PTL DEF SystemSpec

\* What the daemons, the people and the games sync do to the queue are RPCs of the queue:
\* every behaviour of the system is one of JobQueue, and all that is proved there holds
\* here (the routes of app.ts are the only way in).
THEOREM SystemDrivesQueue == SystemSpec => Spec
  <1>1. SysInv /\ [SystemNext]_allVars => [Next]_vars
    BY SystemStep DEF StepOK
  <1> QED  BY <1>1, SystemInitially, SystemAlways, PTL DEF SystemSpec, Spec

\* Two re-sim daemons are at work on one job only after one of them lost it, to silence or
\* to the switch, however claims, lost answers, late beats and crashes interleave (jobClaim).
THEOREM HoldsAreExclusive == SystemSpec => []HoldIsExclusive
  <1>1. SysInv => HoldIsExclusive
    BY DEF SysInv
  <1> QED  BY <1>1, SystemAlways, PTL

\* A daemon's job that reads "done" has a replay to open, whatever happens to the game's
\* other jobs (resimPublish, processUpload, dropCatalogPlaceholder).
THEOREM DoneIsPlayable == SystemSpec => []DoneMeansPlayable
  <1>1. SysInv => DoneMeansPlayable
    BY DEF SysInv
  <1> QED  BY <1>1, SystemAlways, PTL
=============================================================================
