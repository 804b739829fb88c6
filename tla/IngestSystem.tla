---------------------------- MODULE IngestSystem ----------------------------
(***************************************************************************)
(* The ingest queue with what drives it: the re-sim daemons and the upload *)
(* daemons (cmd/bringest/main.go), the people who request, upload, retry   *)
(* and hold back work, and the games sync.  Every step of it is a JobQueue *)
(* RPC together with what it does to its caller, or a step of a caller     *)
(* alone; the two sides share nothing but the queue, over HTTP.            *)
(*                                                                         *)
(* A daemon can die or be stopped at any point, keeping nothing; the       *)
(* answer to a claim and a final report can be lost (runQueued ignores the *)
(* error of both); a heartbeat whose request was cancelled can still be    *)
(* served later, after what the daemon sent next.                          *)
(***************************************************************************)
EXTENDS JobQueue

CONSTANTS
    Resimmers,      \* daemons run with -resim
    Uploaders,      \* plain daemons
    MemOf,          \* the memory each re-sim daemon reports with its poll
    Punctual,       \* no row lapses while a daemon works on it
    PeopleHoldBack, \* the queue page's switch is used
    LateBeats,      \* a cancelled heartbeat may be served late
    MaxAsks,        \* bound: things people and the games sync send
    MaxFaults       \* bound: crashes, lost answers and late beats

Daemons == Resimmers \cup Uploaders

ASSUME DaemonsAssumption ==
    /\ Resimmers \cap Uploaders = {}
    /\ MemOf \in [Resimmers -> Mems]
    /\ {Punctual, PeopleHoldBack, LateBeats} \subseteq BOOLEAN
    /\ {MaxAsks, MaxFaults} \subseteq Nat

VARIABLES
    hand,     \* what each daemon is doing
    late,     \* jobs with a cancelled heartbeat still on its way
    asks,     \* how many times people and the games sync have acted
    faults,   \* how many faults have happened
    broken    \* history: daemons whose hold on their job was taken away

system == <<hand, late, asks, faults, broken>>
allVars == <<vars, system>>

(***************************************************************************)
(* A daemon's hand: `list` is what is left of the list its poll returned,  *)
(* `job` the job it works on.  Both kinds go idle -> listed -> running ->  *)
(* (published | failed) -> reporting -> ; the upload daemon then returns   *)
(* to its list, the re-sim daemon polls again (one job per poll).          *)
(***************************************************************************)
Hand == [pc : {"idle", "listed", "running", "published", "failed", "reporting"},
         list : SUBSET (1..MaxJobs), job : 0..MaxJobs, ok : BOOLEAN, oom : BOOLEAN]
Idle == [pc |-> "idle", list |-> {}, job |-> NoJob, ok |-> FALSE, oom |-> FALSE]

AtWork(d) == hand[d].pc \in {"running", "published", "failed", "reporting"}
WorksOn(d, j) == AtWork(d) /\ hand[d].job = j
Workers(j) == {d \in Daemons : WorksOn(d, j)}

Fault == faults < MaxFaults /\ faults' = faults + 1
Moves(d, h) == hand' = [hand EXCEPT ![d] = h]
Goes(d, pc) == Moves(d, [hand[d] EXCEPT !.pc = pc])

-----------------------------------------------------------------------------
(* The poll. *)

\* jobsOffer's order: waiting lava games first, the latest-ended first; else oldest first.
Before(i, j) ==
    LET LavaJob(k) == jobs[k].game \in Lava \cap mirror
    IN  \/ LavaJob(i) /\ ~LavaJob(j)
        \/ LavaJob(i) /\ LavaJob(j) /\ EndUnix[jobs[i].game] > EndUnix[jobs[j].game]
        \/ /\ LavaJob(i) <=> LavaJob(j)
           /\ LavaJob(i) => jobs[i].game = jobs[j].game
           /\ i < j
First(S) == {i \in S : \A j \in S \ {i} : Before(i, j)}

\* The answer holds what was pending and the job the poll queued.
PollResim(d) ==
    /\ hand[d].pc = "idle"
    /\ jobsOffer(MemOf[d])
    /\ LET answer == Pending("resim") \cup (DOMAIN jobs' \ DOMAIN jobs)
       IN  /\ answer # {} \/ resting' # resting
           /\ Moves(d, IF answer = {} THEN Idle ELSE [Idle EXCEPT !.pc = "listed", !.list = answer])
    /\ UNCHANGED <<late, asks, faults, broken>>

PollUpload(d) ==
    /\ hand[d].pc = "idle" /\ Pending("upload") # {}
    /\ Moves(d, [Idle EXCEPT !.pc = "listed", !.list = Pending("upload")])
    /\ UNCHANGED <<vars, late, asks, faults, broken>>

-----------------------------------------------------------------------------
(* The re-sim daemon: claim, run under a healthcheck, publish, report. *)

Took(d, j) == Moves(d, [Idle EXCEPT !.pc = "running", !.job = j])
Skipped(d, j) ==
    LET rest == hand[d].list \ {j}
    IN  Moves(d, IF rest = {} THEN Idle ELSE [hand[d] EXCEPT !.list = rest])

Claim(d) ==
    /\ hand[d].pc = "listed"
    /\ \E j \in First(hand[d].list) :
        \/ jobClaim(j) /\ Took(d, j)
        \/ ~Claimable(j) /\ Skipped(d, j) /\ UNCHANGED vars
    /\ broken' = broken \ {d}
    /\ UNCHANGED <<late, asks, faults>>

\* The worker took the claim and its answer was lost: the daemon passes the job over.
ClaimAnswerLost(d) ==
    /\ Fault
    /\ hand[d].pc = "listed"
    /\ \E j \in First(hand[d].list) : jobClaim(j) /\ Skipped(d, j)
    /\ UNCHANGED <<late, asks, broken>>

Heartbeat(j) == jobUpdate(j, "processing", TRUE, FALSE, 0)

\* One tick of the healthcheck.
Beat(d) ==
    /\ hand[d].pc = "running" /\ Heartbeat(hand[d].job)
    /\ UNCHANGED system

\* A tick cut off by the end of the run: cancelled here, perhaps served later.
CancelBeat(d) ==
    /\ LateBeats /\ Fault
    /\ hand[d].pc = "running"
    /\ late' = late \cup {hand[d].job}
    /\ UNCHANGED <<vars, hand, asks, broken>>

DeliverLate(j) ==
    /\ j \in late /\ late' = late \ {j}
    /\ Heartbeat(j)
    /\ UNCHANGED <<hand, asks, faults, broken>>

\* The run's end: the full view is published, or the run failed (perhaps out of memory).
PublishResim(d) ==
    /\ hand[d].pc = "running"
    /\ upsert(jobs[hand[d].job].game, "covered")
    /\ Moves(d, [hand[d] EXCEPT !.pc = "published", !.ok = TRUE])
    /\ UNCHANGED <<late, asks, faults, broken>>

FailResim(d) ==
    /\ hand[d].pc = "running"
    /\ \E oom \in BOOLEAN : Moves(d, [hand[d] EXCEPT !.pc = "failed", !.oom = oom])
    /\ UNCHANGED <<vars, late, asks, faults, broken>>

\* stop(): the goroutine is waited for and the closing beat is sent, before the report.
StopHealthcheck(d) ==
    /\ hand[d].pc \in {"published", "failed"}
    /\ Heartbeat(hand[d].job) \/ UNCHANGED vars
    /\ Goes(d, "reporting")
    /\ UNCHANGED <<late, asks, faults, broken>>

Outcome(d, m) ==
    IF hand[d].ok THEN jobUpdate(hand[d].job, "done", FALSE, FALSE, m)
    ELSE jobUpdate(hand[d].job, "error", FALSE, hand[d].oom, m)

ReportResim(d) ==
    /\ hand[d].pc = "reporting"
    /\ Outcome(d, MemOf[d])
    /\ Moves(d, Idle)
    /\ UNCHANGED <<late, asks, faults, broken>>

-----------------------------------------------------------------------------
(* The upload daemon works through its list without claiming. *)

Leave(d) ==
    Moves(d, IF hand[d].list = {} THEN Idle ELSE [Idle EXCEPT !.pc = "listed", !.list = hand[d].list])

StartUpload(d) ==
    /\ hand[d].pc = "listed"
    /\ \E j \in First(hand[d].list) :
        /\ jobUpdate(j, "processing", FALSE, FALSE, 0) \/ (jobs[j].disabled /\ UNCHANGED vars)
        /\ Moves(d, [Idle EXCEPT !.pc = "running", !.job = j, !.list = hand[d].list \ {j}])
    /\ UNCHANGED <<late, asks, faults, broken>>

\* Mutant: a publish that failed is reported like one that worked.
PublishUnchecked(d) ==
    /\ hand[d].pc = "running"
    /\ Moves(d, [hand[d] EXCEPT !.pc = "reporting", !.ok = TRUE])
    /\ UNCHANGED <<vars, late, asks, faults, broken>>

PublishUpload(d) ==
    /\ hand[d].pc = "running"
    /\ \E row \in Published : /\ upsert(jobs[hand[d].job].game, row)
                              /\ catalog[jobs[hand[d].job].game] = "covered" => row = "covered"
    /\ Moves(d, [hand[d] EXCEPT !.pc = "reporting", !.ok = TRUE])
    /\ UNCHANGED <<late, asks, faults, broken>>

\* Packing or publishing failed, or already the "processing" report did.
FailUpload(d) ==
    /\ \/ hand[d].pc = "running" /\ Goes(d, "reporting")
       \/ /\ hand[d].pc = "listed"
          /\ \E j \in First(hand[d].list) :
                Moves(d, [Idle EXCEPT !.pc = "reporting", !.job = j, !.list = hand[d].list \ {j}])
    /\ UNCHANGED <<vars, late, asks, faults, broken>>

ReportUpload(d) ==
    /\ hand[d].pc = "reporting"
    /\ Outcome(d, 0)
    /\ Leave(d)
    /\ UNCHANGED <<late, asks, faults, broken>>

-----------------------------------------------------------------------------
(* Faults. *)

\* The final report never arrived; neither loop sends it again.
ReportLost(d) ==
    /\ Fault
    /\ hand[d].pc = "reporting" /\ Leave(d)
    /\ UNCHANGED <<vars, late, asks, broken>>

Crash(d) ==
    /\ Fault
    /\ hand[d].pc # "idle" /\ Moves(d, Idle)
    /\ UNCHANGED <<vars, late, asks, broken>>

\* A row goes stale: nobody is beating for it, or (not Punctual) somebody too slowly.
GoesStale(j) ==
    /\ Punctual => Workers(j) = {}
    /\ Lapse(j)
    /\ broken' = broken \cup Workers(j)
    /\ UNCHANGED <<hand, late, asks, faults>>

-----------------------------------------------------------------------------
(* People, the games sync, time. *)

Asked(g) ==
    \/ Upload(g, NoJob) \/ resimEnqueue(g) \/ resimRequest(g)
    \/ g \notin mirror /\ gamesInsert({g})

Ask ==
    /\ asks < MaxAsks /\ asks' = asks + 1
    /\ \/ \E g \in Games : Asked(g)
       \/ \E j \in DOMAIN jobs : jobs[j].state \in {"done", "error"} /\ jobRetry(j)
    /\ UNCHANGED <<hand, late, faults, broken>>

\* Someone flips the switch of a row; switched off, it is taken from whoever works on it.
HoldBack(j) ==
    /\ PeopleHoldBack /\ asks < MaxAsks /\ asks' = asks + 1
    /\ jobSetDisabled(j, ~jobs[j].disabled)
    /\ broken' = IF jobs[j].disabled THEN broken ELSE broken \cup Workers(j)
    /\ UNCHANGED <<hand, late, faults>>

Rested == (\E k \in RestKeys : RestOver(k)) /\ UNCHANGED system

-----------------------------------------------------------------------------

SystemInit ==
    /\ Init
    /\ hand = [d \in Daemons |-> Idle]
    /\ late = {} /\ asks = 0 /\ faults = 0 /\ broken = {}

ResimStep(d) ==
    PollResim(d) \/ Claim(d) \/ PublishResim(d) \/ FailResim(d) \/ StopHealthcheck(d) \/ ReportResim(d)
UploadStep(d) ==
    PollUpload(d) \/ StartUpload(d) \/ PublishUpload(d) \/ FailUpload(d) \/ ReportUpload(d)

SystemNext ==
    \/ \E d \in Resimmers : ResimStep(d) \/ ClaimAnswerLost(d) \/ Beat(d) \/ CancelBeat(d)
    \/ \E d \in Uploaders : UploadStep(d)
    \/ \E d \in Daemons : ReportLost(d) \/ Crash(d)
    \/ \E j \in DOMAIN jobs : DeliverLate(j) \/ GoesStale(j) \/ HoldBack(j)
    \/ Ask
    \/ Rested

SystemSpec == SystemInit /\ [][SystemNext]_allVars

(***************************************************************************)
(* Fairness: a daemon that is up keeps polling, claiming, finishing and    *)
(* reporting (its loop never blocks on another's), and time passes.  It is *)
(* never assumed that anyone asks for anything, or that nothing crashes.   *)
(***************************************************************************)
Fairness ==
    /\ \A d \in Resimmers : WF_allVars(ResimStep(d))
    /\ \A d \in Uploaders : WF_allVars(UploadStep(d))
    /\ \A j \in 1..MaxJobs : WF_allVars(j \in DOMAIN jobs /\ GoesStale(j))

FairSystemSpec == SystemSpec /\ Fairness

-----------------------------------------------------------------------------
(* What the system promises. *)

\* Two re-sim daemons are at work on one job only after the job was taken from one of
\* them: it let the window pass without a beat, or somebody held the job back
\* (jobClaim's refusal, "two daemons polling the same round would both think they had it").
HoldIsExclusive ==
    \A j \in DOMAIN jobs : \A d, e \in Workers(j) \cap Resimmers :
        d # e => d \in broken \/ e \in broken

\* A daemon's job that reads "done" has a replay to open: daemons publish and only then
\* report, and nothing that happens to the game's other jobs takes the row away again
\* (resimPublish, processUpload, dropCatalogPlaceholder).
DoneMeansPlayable ==
    \A j \in DOMAIN jobs : jobs[j].state = "done" /\ jobs[j].kind \in {"resim", "upload"}
        => catalog[jobs[j].game] \in Published

\* A job the queue accepted is not forgotten: whatever crashes or gets lost, it is in
\* the end done, failed or held back by a person (stale takeover in jobsPending).
JobsComeToRest ==
    \A j \in 1..MaxJobs :
        j \in DOMAIN jobs
            ~> (j \in DOMAIN jobs /\ (jobs[j].state \in {"done", "error"} \/ jobs[j].disabled))
=============================================================================
