----------------------------- MODULE FogOfWarApp ----------------------------
(***************************************************************************)
(* The FogOfWar desktop app (src/cmd/fogofwar): one process, launched and  *)
(* ended over and over, whose goroutines share App under a.mu: the page's  *)
(* calls, the run, the auto-replay loop, the upload watches, a move of the *)
(* app's folder, and the session record that tells the next launch how     *)
(* this one ended.  The config and the records outlive the process.        *)
(***************************************************************************)
EXTENDS Integers, Sequences, FiniteSets

CONSTANTS
    Games, Homes, FirstHome,
    MaxFails,     \* autoMaxFailRun
    MaxHistory,   \* maxHistory
    MaxRuns,      \* bound: runs started
    MaxCalls,     \* bound: switches, stops and retries asked for
    MaxUpsets     \* bound: moves of the folder, heartbeats and ends of the process

None == "none"
ASSUME FogOfWarAssumption ==
    /\ FirstHome \in Homes /\ None \notin Homes
    /\ {MaxFails, MaxHistory} \subseteq Nat \ {0} /\ {MaxRuns, MaxCalls, MaxUpsets} \subseteq Nat

VARIABLES
    app,      \* the process: App under a.mu (mode, home, auto-replay's pace, ...)
    cfg,      \* the config, which every change under a.mu saves: folder, set up, switch, history
    session,  \* the record in each folder: none, open, or the reason it was closed for
    job,      \* the run in hand, if any
    after,    \* what the last run's goroutine still has to do once the mode is ready
    look,     \* the auto-replay loop: idle, or waiting for the games list
    move,     \* the folder move under way
    touch, closer,   \* a heartbeat and a close that have read the home, not yet written
    watched,  \* upload jobs being watched
    late,     \* upload jobs whose watch ran into its two hours
    handedBack, pausing, lastEnd, crossed, \* history: see the properties
    used      \* bounds used up

threads == <<job, after, look, move, touch, closer, watched, late>>
history == <<handedBack, pausing, lastEnd, crossed>>
vars == <<app, cfg, session, threads, history, used>>

NoJob == [game |-> None]
NoAfter == [pc |-> None, watch |-> FALSE]
NoMove == [pc |-> None]
NoClose == [reason |-> None]
Dead == [mode |-> None]
Quiet == [pc |-> "idle", tried |-> {}, paused |-> FALSE]
Alive == app # Dead
Running == job # NoJob
Bounded(what, limit) == used[what] < limit /\ used' = [used EXCEPT ![what] = @ + 1]
-----------------------------------------------------------------------------
(* The process: launch, the ways to end, the session record.               *)

Queued(h) == {h[i].job : i \in {i \in DOMAIN h : h[i].upload = "queued"}}

\* main and startup: read the config, open the session, watch what is queued.
Launch ==
    /\ ~Alive
    /\ app' = [mode |-> IF cfg.setup THEN "ready" ELSE "setup", stop |-> FALSE, home |-> cfg.home,
               quitting |-> FALSE, next |-> "now", fails |-> 0, ended |-> None]
    /\ watched' = Queued(cfg.runs) /\ late' = {}
    /\ session' = [session EXCEPT ![cfg.home] = "open"]
    /\ lastEnd' = None /\ crossed' = FALSE /\ pausing' = FALSE
    /\ UNCHANGED <<cfg, job, after, look, move, touch, closer, handedBack, used>>

\* The process is gone, and with it everything but the config and the records.
Exit ==
    /\ app' = Dead /\ job' = NoJob /\ after' = NoAfter /\ look' = Quiet /\ move' = NoMove
    /\ touch' = None /\ closer' = NoClose /\ watched' = {} /\ late' = {} /\ pausing' = FALSE
    /\ lastEnd' = IF app.ended = None THEN "open" ELSE app.ended
    /\ crossed' = (crossed \/ move.pc = "saved")
    /\ UNCHANGED <<cfg, session, handedBack>>

\* A kill, a crash, a power cut; or the end a closer recorded.
Killed == Alive /\ app.ended = None /\ Bounded("upsets", MaxUpsets) /\ Exit
Ended == Alive /\ app.ended # None /\ closer = NoClose /\ Exit /\ UNCHANGED used

\* endSession reads the folder before it takes the session's lock: called by the shutdown that
\* Quit begins, and when Windows ends.
EndSession(reason) ==
    /\ Alive /\ closer = NoClose /\ Bounded("upsets", MaxUpsets)
    /\ closer' = [home |-> app.home, reason |-> reason]
    /\ app' = [app EXCEPT !.quitting = @ \/ reason = "closed"]
    /\ UNCHANGED <<cfg, session, job, after, look, move, touch, watched, late, history>>

\* The first one's reason wins; shutdown then cancels the run.
WriteEnd ==
    /\ closer # NoClose
    /\ LET first == app.ended = None
           shutdown == closer.reason = "closed"
       IN /\ app' = [app EXCEPT !.ended = IF first THEN closer.reason ELSE @,
                                !.stop = @ \/ (shutdown /\ app.mode = "setup")]
          /\ session' = IF first THEN [session EXCEPT ![closer.home] = closer.reason] ELSE session
          /\ crossed' = (crossed \/ (first /\ closer.home # app.home))
          /\ job' = IF Running /\ shutdown THEN [job EXCEPT !.stopped = TRUE] ELSE job
    /\ closer' = NoClose
    /\ UNCHANGED <<cfg, after, look, move, touch, watched, late, handedBack, pausing, lastEnd, used>>

\* touchSession: the heartbeat, once a minute.
Touch ==
    /\ Alive /\ touch = None /\ Bounded("upsets", MaxUpsets)
    /\ touch' = app.home
    /\ UNCHANGED <<app, cfg, session, job, after, look, move, closer, watched, late, history>>

\* Mutant: a heartbeat also marks an ended session as alive.
TouchAnyway ==
    /\ touch # None
    /\ session' = [session EXCEPT ![touch] = "open"]
    /\ touch' = None
    /\ UNCHANGED <<app, cfg, job, after, look, move, closer, watched, late, history, used>>

WriteTouch ==
    /\ touch # None
    /\ session' = IF app.ended = None THEN [session EXCEPT ![touch] = "open"] ELSE session
    /\ touch' = None
    /\ UNCHANGED <<app, cfg, job, after, look, move, closer, watched, late, history, used>>
-----------------------------------------------------------------------------
(* A run.                                                                  *)

Startable == Alive /\ app.mode \in {"ready", "setupFailed"}

startResim(g, auto) ==
    /\ app' = [app EXCEPT !.mode = "running"]
    /\ job' = [game |-> g, auto |-> auto, stopped |-> FALSE]

\* The page's StartResim.
StartResim(g) ==
    /\ Startable /\ Bounded("runs", MaxRuns)
    /\ startResim(g, FALSE)
    /\ UNCHANGED <<cfg, session, after, look, move, touch, closer, watched, late, history>>

\* runJob's end: resim.Run is back with a replay, whose upload was taken or not, or without one;
\* the run goes into the history, the mode is ready, and only then comes the rest.
RunEnds(ok, taken) ==
    /\ Running /\ (taken => ok)
    /\ after = NoAfter          \* a run outlasts what the one before it has left to do
    /\ LET item == [game |-> job.game, job |-> used["runs"],
                    upload |-> IF taken THEN "queued" ELSE IF ok THEN "failed" ELSE None]
           runs == <<item>> \o cfg.runs
       IN cfg' = [cfg EXCEPT !.runs = IF Len(runs) > MaxHistory THEN SubSeq(runs, 1, MaxHistory) ELSE runs]
    /\ app' = [app EXCEPT !.mode = "ready"]
    /\ after' = [pc |-> "rest", watch |-> taken, job |-> used["runs"], auto |-> job.auto, ok |-> ok,
                 stopped |-> job.stopped]
    /\ job' = NoJob
    /\ UNCHANGED <<session, look, move, touch, closer, watched, late, history, used>>

\* Mutant: an upload is watched from the next launch on.
WatchNever ==
    /\ after.watch
    /\ after' = [after EXCEPT !.watch = FALSE]
    /\ UNCHANGED <<app, cfg, session, job, look, move, touch, closer, watched, late, history, used>>

WatchStarts ==
    /\ after.watch
    /\ after' = [after EXCEPT !.watch = FALSE]
    /\ watched' = watched \cup {after.job}
    /\ UNCHANGED <<app, cfg, session, job, look, move, touch, closer, late, history, used>>

\* autoFinished: failures in a row pause the loop; a stopped run counts as neither.
autoFinished ==
    /\ after # NoAfter /\ ~after.watch
    /\ LET counts == after.auto /\ ~after.stopped
           pauses == counts /\ ~after.ok /\ app.fails + 1 >= MaxFails
       IN /\ app' = CASE pauses -> [app EXCEPT !.fails = 0, !.next = "paused"]
                      [] counts /\ after.ok -> [app EXCEPT !.fails = 0, !.next = "now"]
                      [] counts /\ ~after.ok /\ ~pauses -> [app EXCEPT !.fails = @ + 1]
                      [] ~counts -> app
          /\ pausing' = (pauses \/ (pausing /\ ~(counts /\ after.ok)))
    /\ after' = NoAfter
    /\ UNCHANGED <<cfg, session, job, look, move, touch, closer, watched, late, handedBack, lastEnd, crossed, used>>

\* Mutant: a stop stops this run only.
CancelRunOnly ==
    /\ Alive /\ Bounded("calls", MaxCalls)
    /\ app.mode \in {"running", "setup"}
    /\ handedBack' = (handedBack \/ (Running /\ job.auto /\ cfg.auto))
    /\ job' = IF Running THEN [job EXCEPT !.stopped = TRUE] ELSE job
    /\ app' = [app EXCEPT !.stop = app.mode = "setup"]
    /\ UNCHANGED <<cfg, session, after, look, move, touch, closer, watched, late, pausing, lastEnd, crossed>>

\* The page's Cancel: stopping what auto-replay picked hands control back.
Cancel ==
    /\ Alive /\ Bounded("calls", MaxCalls)
    /\ app.mode \in {"running", "setup"}
    /\ LET back == Running /\ job.auto /\ cfg.auto
       IN /\ cfg' = [cfg EXCEPT !.auto = @ /\ ~back]
          /\ handedBack' = (handedBack \/ back)
    /\ job' = IF Running THEN [job EXCEPT !.stopped = TRUE] ELSE job
    /\ app' = [app EXCEPT !.stop = app.mode = "setup"]
    /\ UNCHANGED <<session, after, look, move, touch, closer, watched, late, pausing, lastEnd, crossed>>
-----------------------------------------------------------------------------
(* The first-run download.                                                 *)

SetupEnds(ok) ==
    /\ Alive /\ app.mode = "setup" /\ (ok => ~app.stop)
    /\ app' = [app EXCEPT !.mode = IF ok THEN "ready" ELSE "setupFailed"]
    /\ cfg' = [cfg EXCEPT !.setup = @ \/ ok]
    /\ UNCHANGED <<session, threads, history, used>>

beginSetup(a) ==
    IF a.mode \in {"running", "setup"} THEN a ELSE [a EXCEPT !.mode = "setup", !.stop = FALSE]

RetrySetup ==
    /\ Startable /\ Bounded("calls", MaxCalls)
    /\ app' = beginSetup(app)
    /\ UNCHANGED <<cfg, session, threads, history>>
-----------------------------------------------------------------------------
(* Auto-replay.                                                            *)

SetAutoReplay(on) ==
    /\ Alive /\ Bounded("calls", MaxCalls)
    /\ cfg' = [cfg EXCEPT !.auto = on]
    /\ app' = [app EXCEPT !.next = "now", !.fails = 0]
    /\ handedBack' = (handedBack /\ ~on)
    /\ pausing' = FALSE
    /\ UNCHANGED <<session, threads, lastEnd, crossed>>

\* The recheck minute, or the pause, is over.
Due ==
    /\ Alive /\ app.next # "now"
    /\ app' = [app EXCEPT !.next = "now"]
    /\ pausing' = (pausing /\ app.next # "paused")
    /\ UNCHANGED <<cfg, session, threads, handedBack, lastEnd, crossed, used>>

\* autoStep's first look: on, idle and not quitting.
MayLook == Alive /\ look.pc = "idle" /\ cfg.auto /\ app.mode = "ready" /\ ~app.quitting
Asking == [pc |-> "asking", tried |-> {cfg.runs[i].game : i \in DOMAIN cfg.runs}, paused |-> pausing]

\* autoStep, first half: due as well; the lock is let go while the site is asked.
Look ==
    /\ MayLook /\ app.next = "now"
    /\ look' = Asking
    /\ UNCHANGED <<app, cfg, session, job, after, move, touch, closer, watched, late, history, used>>

\* A pause that began while the list was on its way ends with what this look does.
Overtaken == pausing' = (pausing /\ look.paused)

\* autoStep, second half, when no game qualifies, the site refuses, or the run cannot start.
LookAgain ==
    /\ look.pc = "asking"
    /\ app' = [app EXCEPT !.next = "soon"]
    /\ look' = Quiet /\ Overtaken
    /\ UNCHANGED <<cfg, session, job, after, move, touch, closer, watched, late, handedBack, lastEnd, crossed, used>>

\* autoStep, second half: the pick starts whatever happened to the switch meanwhile.
AutoStarts ==
    /\ look.pc = "asking" /\ Startable /\ Bounded("runs", MaxRuns)
    /\ \E g \in Games \ look.tried : startResim(g, TRUE)
    /\ look' = Quiet /\ Overtaken
    /\ UNCHANGED <<cfg, session, after, move, touch, closer, watched, late, handedBack, lastEnd, crossed>>
-----------------------------------------------------------------------------
(* Uploads.                                                                *)

\* watchUpload: the site's answer settles the row and the watch.
watchUpload(j, state) ==
    /\ Alive /\ j \in watched
    /\ LET Set(item) == IF item.job = j THEN [item EXCEPT !.upload = state] ELSE item
       IN cfg' = [cfg EXCEPT !.runs = [i \in DOMAIN @ |-> Set(@[i])]]
    /\ watched' = watched \ {j}
    /\ UNCHANGED <<app, session, job, after, look, move, touch, closer, late, history, used>>

\* Two hours are over: the row stays queued, and only the next launch asks again.
WatchExpires(j) ==
    /\ Alive /\ j \in watched
    /\ watched' = watched \ {j} /\ late' = late \cup {j}
    /\ UNCHANGED <<app, cfg, session, job, after, look, move, touch, closer, history, used>>
-----------------------------------------------------------------------------
(* A move of the FogOfWar folder.                                          *)

\* moveTo, under a.mu: everything is moved and the config names the new folder.
moveTo(home, dataMoved) ==
    /\ Alive /\ app.mode \notin {"running", "setup"} /\ move = NoMove
    /\ home # cfg.home /\ Bounded("upsets", MaxUpsets)
    /\ cfg' = [cfg EXCEPT !.home = home, !.setup = @ /\ dataMoved]
    /\ move' = [pc |-> "saved", old |-> cfg.home, data |-> dataMoved]
    /\ UNCHANGED <<app, session, job, after, look, touch, closer, watched, late, history>>

\* moveHome: the log and the session record follow, unless the session is over.
moveHome ==
    /\ move.pc = "saved"
    /\ app' = [app EXCEPT !.home = cfg.home]
    /\ session' = IF app.ended = None THEN [session EXCEPT ![cfg.home] = "open"] ELSE session
    /\ crossed' = (crossed \/ app.ended # None)
    /\ move' = [move EXCEPT !.pc = "followed"]
    /\ UNCHANGED <<cfg, job, after, look, touch, closer, watched, late, handedBack, pausing, lastEnd, used>>

\* The old record goes; data that could not come along is downloaded again.
MoveTidies ==
    /\ move.pc = "followed"
    /\ session' = [session EXCEPT ![move.old] = None]
    /\ app' = IF move.data THEN app ELSE beginSetup(app)
    /\ move' = NoMove
    /\ UNCHANGED <<cfg, job, after, look, touch, closer, watched, late, history, used>>
-----------------------------------------------------------------------------
Init ==
    /\ app = Dead /\ job = NoJob /\ after = NoAfter /\ look = Quiet /\ move = NoMove
    /\ touch = None /\ closer = NoClose /\ watched = {} /\ late = {}
    /\ cfg = [home |-> FirstHome, setup |-> FALSE, auto |-> FALSE, runs |-> <<>>]
    /\ session = [h \in Homes |-> None]
    /\ handedBack = FALSE /\ pausing = FALSE /\ lastEnd = None /\ crossed = FALSE
    /\ used = [runs |-> 0, calls |-> 0, upsets |-> 0]

Process ==
    \/ Launch \/ Killed \/ WriteEnd \/ Ended \/ Touch \/ WriteTouch
    \/ \E reason \in {"closed", "windows"} : EndSession(reason)
Work ==
    \/ WatchStarts \/ autoFinished \/ Cancel \/ RetrySetup \/ Look \/ LookAgain \/ AutoStarts \/ Due
    \/ \E g \in Games : StartResim(g)
    \/ \E ok, taken \in BOOLEAN : RunEnds(ok, taken)
    \/ \E b \in BOOLEAN : SetupEnds(b) \/ SetAutoReplay(b)
Uploads ==
    \E j \in watched : WatchExpires(j) \/ \E state \in {"published", "failed"} : watchUpload(j, state)
Moves == moveHome \/ MoveTidies \/ \E h \in Homes, data \in BOOLEAN : moveTo(h, data)

Next == Process \/ Work \/ Uploads \/ Moves
Spec == Init /\ [][Next]_vars
-----------------------------------------------------------------------------
(* What the app promises.                                                  *)

\* "Stop means stop: stopping a game auto-replay picked hands control back" (app.go Cancel) and
\* "a run of failures pauses the loop" (autoFinished): no run of auto-replay starts between a stop
\* and the switch going on again, launches included, nor from a look made during the pause, but
\* for a pause that a look already under way cut short.
AutoIsObedient ==
    [][Running' /\ ~Running /\ job'.auto => ~handedBack /\ ~(look.paused /\ pausing)]_vars

\* "the row says 'queued' until then, and the next launch asks again" (watchUpload): while the
\* app runs, every row that reads queued (of the last two days) is watched, about to be, or was for its two hours since
\* the launch, however often the process ended between the upload and the answer.
UploadsFollowed ==
    Alive => \A j \in Queued(cfg.runs) : j \in watched \cup late \/ (after.watch /\ after.job = j)

\* "A record with no close at the next start is a run that was ended" (session.go): whoever of
\* the closers and the heartbeats comes first or last, the record in the folder config.json
\* names tells how the last run ended, unless it ended during a move.
EndIsTold ==
    ~Alive /\ lastEnd # None /\ ~crossed => session[cfg.home] = lastEnd
=============================================================================
