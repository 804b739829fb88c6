------------------------------- MODULE DataDir -------------------------------
(***************************************************************************)
(* One engine data directory and the processes that share it: the lock     *)
(* file, re-simulations from their provisioning to what they hand over,    *)
(* prunes under the disk limit, the memory guard, a person's stop, and     *)
(* processes killed between any two steps.  A step of a process is what it *)
(* does up to the next moment another could look at the directory.         *)
(***************************************************************************)
EXTENDS Integers, Sequences, FiniteSetsExt, SequencesExt

CONSTANTS
    Workers,        \* the processes: daemons, the desktop app
    Builds,         \* games, each pinned to a build of its own
    FilesOf,        \* the pool files each build's package lists
    MaxTasks, MaxUpsets     \* bounds: tasks begun; kills, stops, trips, failures

ASSUME DataDirAssumption ==
    /\ "unset" \notin Builds /\ Workers \subseteq Nat \ {0}
    /\ \E last \in Workers : \A p \in Workers : p <= last
    /\ FilesOf \in [Builds -> SUBSET UNION {FilesOf[b] : b \in Builds}]
    /\ {MaxTasks, MaxUpsets} \subseteq Nat

VARIABLES
    folder,     \* the directory: lock, cfg, bak, stream, packages, half, pool
    task,       \* what each process is at, and how its last run ended
    strays,     \* children of killed processes that still run in the directory
    past        \* history: pids given out, tasks, upsets, what went wrong before

dirVars == <<folder, task, strays, past>>

Absent == "absent"                  \* no such file
Cut == "cut"                        \* a file whose last write broke off
Unlocked == [pid |-> 0, stamped |-> FALSE]
NoStream == [pid |-> 0, span |-> "none"]
-----------------------------------------------------------------------------
(* Processes and their ends.                                               *)

AtRest(pid) == [pid |-> pid, pc |-> "idle", kind |-> "run", build |-> "unset", tries |-> 0, existed |-> FALSE,
              engine |-> "off", tripped |-> FALSE, stopped |-> FALSE, wrote |-> FALSE,
              capture |-> NoStream, said |-> "nothing"]

At(p, pcs) == task[p].pc \in pcs
Goes(p, pc) == task' = [task EXCEPT ![p].pc = pc]
Opening == {"create", "look", "clear"}
Running == {"launch", "engine", "judge"}
Holds(p) == ~At(p, Opening \cup {"idle", "abandon"})

processAlive(pid) == \E p \in Workers : task[p].pid = pid

Upset == past.upsets < MaxUpsets /\ past' = [past EXCEPT !.upsets = @ + 1]

\* A run unwinds: before the widget config was touched there is only the lock to give back.
Fails(p) ==
    task' = [task EXCEPT ![p].said = "error", ![p].pc = IF At(p, Running) THEN "restore" ELSE "unlock"]

Begin(p, kind, b) ==
    /\ At(p, {"idle"}) /\ past.tasks < MaxTasks
    /\ task' = [task EXCEPT ![p] = [AtRest(@.pid) EXCEPT !.pc = "create", !.kind = kind, !.build = b]]
    /\ past' = [past EXCEPT !.tasks = @ + 1]
    /\ UNCHANGED <<folder, strays>>
-----------------------------------------------------------------------------
(* The lock file (LockDataDir): created empty, then given the pid.          *)

Create(p) ==
    /\ At(p, {"create"})
    /\ IF folder.lock = Unlocked
       THEN /\ folder' = [folder EXCEPT !.lock = [pid |-> task[p].pid, stamped |-> FALSE]]
            /\ Goes(p, "stamp")
            /\ past' = [past EXCEPT !.raced = @ \/ strays # {} \/ \E q \in Workers \ {p} : Holds(q)]
       ELSE Goes(p, "look") /\ UNCHANGED <<folder, past>>
    /\ UNCHANGED strays

\* The pid goes into the file that was created, also if another has it unlinked by now.
Stamp(p) ==
    /\ At(p, {"stamp"})
    /\ folder' = IF folder.lock.pid = task[p].pid THEN [folder EXCEPT !.lock.stamped = TRUE] ELSE folder
    /\ Goes(p, IF task[p].kind = "prune" THEN "leftovers" ELSE "provision")
    /\ UNCHANGED <<strays, past>>

readLock == IF folder.lock.stamped THEN folder.lock.pid ELSE 0

\* A run that is refused has an error like any other: its deferred removal still runs.
Look(p) ==
    /\ At(p, {"look"})
    /\ IF readLock > 0 /\ processAlive(readLock)
       THEN task' = [task EXCEPT ![p].said = "error", ![p].pc = IF task[p].kind = "run" THEN "abandon" ELSE "idle"]
       ELSE Goes(p, "clear")
    /\ UNCHANGED <<folder, strays, past>>

\* The stale lock goes, or whatever stands there now; a second try is the last.
Clear(p) ==
    /\ At(p, {"clear"})
    /\ folder' = [folder EXCEPT !.lock = Unlocked]
    /\ task' = [task EXCEPT ![p].tries = @ + 1, ![p].said = IF task[p].tries = 1 THEN "error" ELSE @,
                            ![p].pc = IF task[p].tries = 0 THEN "create" ELSE
                                      IF task[p].kind = "run" THEN "abandon" ELSE "idle"]
    /\ UNCHANGED <<strays, past>>

Unlock(p) ==
    /\ At(p, {"unlock"})
    /\ folder' = [folder EXCEPT !.lock = Unlocked]
    /\ Goes(p, IF task[p].kind = "run" /\ task[p].said # "published" THEN "abandon" ELSE "idle")
    /\ UNCHANGED <<strays, past>>

\* Deferred before the lock was taken, so it runs after the lock is given back.
removeAbandonedStream(p) ==
    /\ At(p, {"abandon"})
    /\ folder' = [folder EXCEPT !.stream[task[p].build] = NoStream]
    /\ Goes(p, "idle")
    /\ UNCHANGED <<strays, past>>
-----------------------------------------------------------------------------
(* Provisioning and pruning.                                               *)

\* The package's place in the order of last use, which its touch renews.
Touched(b) ==
    LET order == folder.packages
        at == {i \in DOMAIN order : order[i] = b}
    IN Append(IF at = {} THEN order ELSE RemoveAt(order, CHOOSE i \in at : TRUE), b)

\* EnsureContent: what is installed is touched; what is not is fetched, pool files first.
Provision(p) ==
    /\ At(p, {"provision"})
    /\ LET b == task[p].build IN
       \/ /\ b \in ToSet(folder.packages)
          /\ folder' = [folder EXCEPT !.packages = Touched(b)] /\ Goes(p, "heal") /\ UNCHANGED past
       \/ /\ b \notin ToSet(folder.packages)
          /\ folder' = [folder EXCEPT !.pool = @ \cup FilesOf[b], !.half = @ \cup {b}]
          /\ Goes(p, "package") /\ UNCHANGED past
       \/ b \notin ToSet(folder.packages) /\ Upset /\ Fails(p) /\ UNCHANGED folder
    /\ UNCHANGED strays

Package(p) ==
    /\ At(p, {"package"})
    /\ LET b == task[p].build IN
       folder' = [folder EXCEPT !.packages = Touched(b), !.half = @ \ {b}]
    /\ Goes(p, "heal")
    /\ UNCHANGED <<strays, past>>

\* The download stops half-way, or the person stops it: what has come stays.
PackageFails(p) == At(p, {"package"}) /\ Upset /\ Fails(p) /\ UNCHANGED <<folder, strays>>

\* A child the kill left behind goes on: pr-downloader to the end of its package, an engine for a while.
Stray(s) ==
    /\ s \in strays
    /\ IF s.engine
       THEN \E span \in {folder.stream[s.build].span, "whole"} :
                folder' = [folder EXCEPT !.stream[s.build].span = IF folder.stream[s.build].pid = s.pid THEN span ELSE @]
       ELSE folder' = [folder EXCEPT !.packages = Touched(s.build), !.half = @ \ {s.build}]
    /\ strays' = strays \ {s}
    /\ UNCHANGED <<task, past>>

Listed(packages) == UNION {FilesOf[packages[i]] : i \in DOMAIN packages}

gcPool(d) == [d EXCEPT !.pool = @ \cap Listed(d.packages)]

Leftovers(p) ==
    /\ At(p, {"leftovers"})
    /\ folder' = gcPool([folder EXCEPT !.half = {}, !.stream = [b \in Builds |-> NoStream]])
    /\ Goes(p, "over")
    /\ UNCHANGED <<strays, past>>

BeginPrune(p) == Begin(p, "prune", "unset")

\* Over the limit the package used longest ago goes, then the pool files only it used; the newest stays.
Over(p) ==
    /\ At(p, {"over"})
    /\ IF Len(folder.packages) > 1
       THEN \/ folder' = gcPool([folder EXCEPT !.packages = Tail(@)]) /\ UNCHANGED task
            \/ Goes(p, "unlock") /\ UNCHANGED folder
       ELSE Goes(p, "unlock") /\ UNCHANGED folder
    /\ UNCHANGED <<strays, past>>
-----------------------------------------------------------------------------
(* The widget's config (EnableWidget and the restore it returns).          *)

WriteFails == past.upsets < MaxUpsets /\ past' = [past EXCEPT !.upsets = @ + 1, !.cut = TRUE]

\* Mutant: a backup left behind is not put back.
KeepLeftover(p) == At(p, {"heal"}) /\ Goes(p, "backup") /\ UNCHANGED <<folder, strays, past>>

\* A leftover backup is the user's config: written back, then removed, whether or not that write failed.
Heal(p) ==
    /\ At(p, {"heal"})
    /\ \/ folder.bak = Absent /\ Goes(p, "backup") /\ UNCHANGED <<folder, past>>
       \/ /\ folder.bak # Absent /\ folder.cfg # folder.bak
          /\ \/ folder' = [folder EXCEPT !.cfg = folder.bak] /\ UNCHANGED <<task, past>>
             \/ WriteFails /\ folder' = [folder EXCEPT !.cfg = Cut, !.bak = Absent] /\ Goes(p, "backup")
       \/ /\ folder.bak # Absent /\ folder.cfg = folder.bak
          /\ folder' = [folder EXCEPT !.bak = Absent] /\ Goes(p, "backup") /\ UNCHANGED past
    /\ UNCHANGED strays

\* Its copy is a write of its own, which may break off.
Backup(p) ==
    /\ At(p, {"backup"})
    /\ LET there == folder.cfg # Absent IN
       \/ /\ folder' = IF there THEN [folder EXCEPT !.bak = folder.cfg] ELSE folder
          /\ task' = [task EXCEPT ![p].existed = there, ![p].pc = "seed"] /\ UNCHANGED past
       \/ there /\ WriteFails /\ folder' = [folder EXCEPT !.bak = Cut] /\ Fails(p)
    /\ UNCHANGED strays

Seed(p) ==
    /\ At(p, {"seed"})
    /\ \/ folder' = [folder EXCEPT !.cfg = "seed"] /\ Goes(p, "launch") /\ UNCHANGED past
       \/ /\ folder' = [folder EXCEPT !.cfg = Cut] /\ Fails(p)
          /\ past.upsets < MaxUpsets /\ past' = [past EXCEPT !.upsets = @ + 1, !.bare = @ \/ ~task[p].existed]
    /\ UNCHANGED strays

\* Written back from the backup, which goes in any case; a config there was none of goes.
Restore(p) ==
    /\ At(p, {"restore"})
    /\ \/ /\ ~task[p].existed
          /\ folder' = [folder EXCEPT !.cfg = Absent, !.bak = Absent] /\ Goes(p, "unlock") /\ UNCHANGED past
       \/ /\ task[p].existed /\ folder.bak # Absent /\ folder.cfg # folder.bak
          /\ \/ folder' = [folder EXCEPT !.cfg = folder.bak] /\ UNCHANGED <<task, past>>
             \/ WriteFails /\ folder' = [folder EXCEPT !.cfg = Cut, !.bak = Absent] /\ Goes(p, "unlock")
       \/ /\ task[p].existed /\ (folder.bak = Absent \/ folder.cfg = folder.bak)
          /\ folder' = [folder EXCEPT !.bak = Absent] /\ Goes(p, "unlock") /\ UNCHANGED past
    /\ UNCHANGED strays
-----------------------------------------------------------------------------
(* The engine, the guard and the verdict (Run).                            *)

Launch(p) ==
    /\ At(p, {"launch"})
    /\ \/ task' = [task EXCEPT ![p].pc = "engine", ![p].engine = "loading"] /\ UNCHANGED past
       \/ Upset /\ Fails(p)
    /\ UNCHANGED <<folder, strays>>

\* The widget, once loaded, opens its stream for writing: what stood there is cut to nothing.
WidgetLoads(p) ==
    /\ At(p, {"engine"}) /\ task[p].engine = "loading"
    /\ folder' = [folder EXCEPT !.stream[task[p].build] = [pid |-> task[p].pid, span |-> "stub"]]
    /\ task' = [task EXCEPT ![p].engine = "up", ![p].wrote = TRUE]
    /\ UNCHANGED <<strays, past>>

Longer == [none |-> "none", stub |-> "most", most |-> "whole", whole |-> "whole"]

\* What it writes from there on reaches its own file, if that is still the one in the folder.
Simulates(p) ==
    /\ At(p, {"engine"}) /\ task[p].engine = "up"
    /\ LET s == folder.stream[task[p].build] IN
       /\ s.pid = task[p].pid /\ s.span # "whole"
       /\ folder' = [folder EXCEPT !.stream[task[p].build].span = Longer[s.span]]
    /\ UNCHANGED <<task, strays, past>>

\* The engine ends by itself when the game does, or gives up before, or crashes.
EngineEnds(p) ==
    /\ At(p, {"engine"}) /\ task[p].engine \in {"loading", "up"}
    /\ \/ /\ folder.stream[task[p].build].span = "whole" \/ folder.stream[task[p].build].pid # task[p].pid
          /\ task[p].engine = "up"
          /\ task' = [task EXCEPT ![p].engine = "quit"] /\ UNCHANGED past
       \/ Upset /\ \E how \in {"quit", "killed"} : task' = [task EXCEPT ![p].engine = how]
    /\ UNCHANGED <<folder, strays>>

\* The memory guard watches until the run returns, also when the engine has ended by itself.
WatchMemory(p) ==
    /\ At(p, {"engine", "judge"}) /\ ~task[p].tripped
    /\ Upset /\ task' = [task EXCEPT ![p].tripped = TRUE]
    /\ UNCHANGED <<folder, strays>>

\* A person stops the run: what it is fetching fails, or the engine is killed.
Cancel(p) ==
    /\ At(p, {"engine"}) /\ ~task[p].stopped
    /\ Upset /\ task' = [task EXCEPT ![p].stopped = TRUE]
    /\ UNCHANGED <<folder, strays>>

killEngine(p) ==
    /\ At(p, {"engine"}) /\ (task[p].tripped \/ task[p].stopped) /\ task[p].engine \in {"loading", "up"}
    /\ task' = [task EXCEPT ![p].engine = "killed"]
    /\ UNCHANGED <<folder, strays, past>>

Consume(p) ==
    /\ At(p, {"engine"}) /\ task[p].engine \in {"quit", "killed"}
    /\ task' = [task EXCEPT ![p].pc = "judge", ![p].capture = folder.stream[task[p].build]]
    /\ UNCHANGED <<folder, strays, past>>

\* Mutant: an engine that was killed is a run that ended.
VerdictOnLength(t) ==
    IF t.tripped THEN {"oom"} ELSE IF t.capture = NoStream THEN {"error"}
    ELSE IF t.capture.span = "stub" THEN {"truncated"} ELSE {"published"}

\* The guard's reading first, then a stream that is missing or does not parse, the signal, the coverage.
Verdict(t) ==
    IF t.tripped THEN {"oom"} ELSE IF t.capture = NoStream THEN {"error"}
    ELSE (IF t.engine = "killed" \/ t.capture.span = "stub" THEN {"truncated"} ELSE {"published"})
         \cup (IF t.capture.span = "whole" THEN {} ELSE {"error"})

\* Only a run that is published takes its stream along.
Judge(p) ==
    /\ At(p, {"judge"})
    /\ \E said \in Verdict(task[p]) :
        /\ task' = [task EXCEPT ![p].said = said, ![p].pc = "restore"]
        /\ folder' = IF said = "published" THEN [folder EXCEPT !.stream[task[p].build] = NoStream] ELSE folder
    /\ UNCHANGED <<strays, past>>
-----------------------------------------------------------------------------
Children(p) ==
    IF At(p, {"package"}) \/ (At(p, {"engine"}) /\ task[p].engine \in {"loading", "up"})
    THEN {[engine |-> At(p, {"engine"}), build |-> task[p].build, pid |-> task[p].pid]} ELSE {}

\* The file whose write a kill may break off.
Writing(p) ==
    IF At(p, {"seed"}) \/ (At(p, {"heal", "restore"}) /\ folder.bak \notin {Absent, folder.cfg}) THEN {"cfg"}
    ELSE IF At(p, {"backup"}) /\ folder.cfg # Absent THEN {"bak"} ELSE {}

\* A kill -9, or the machine: nothing deferred runs, and a child may go on.
Dies(p) ==
    /\ ~At(p, {"idle"}) /\ past.upsets < MaxUpsets
    /\ task' = [task EXCEPT ![p] = AtRest(past.pids + 1)]
    /\ \E left \in SUBSET Children(p) : strays' = strays \cup left
    /\ \E broken \in SUBSET Writing(p) :
        /\ folder' = [f \in DOMAIN folder |-> IF f \in broken THEN Cut ELSE folder[f]]
        /\ past' = [past EXCEPT !.upsets = @ + 1, !.pids = @ + 1, !.cut = @ \/ "bak" \in broken,
                !.bare = @ \/ (~task[p].existed /\ (At(p, Running \cup {"restore"}) \/ (At(p, {"seed"}) /\ "cfg" \in broken)))]

DirInit ==
    /\ \E cfg \in {"user", Absent}, installed \in Builds :
        /\ folder = [lock |-> Unlocked, cfg |-> cfg, bak |-> Absent, stream |-> [b \in Builds |-> NoStream],
                     packages |-> <<installed>>, half |-> {}, pool |-> FilesOf[installed]]
        /\ past = [cfg |-> cfg, pids |-> Max(Workers), tasks |-> 0, upsets |-> 0,
                   raced |-> FALSE, cut |-> FALSE, bare |-> FALSE]
    /\ task = [p \in Workers |-> AtRest(p)]
    /\ strays = {}

LockStep(p) == Create(p) \/ Stamp(p) \/ Look(p) \/ Clear(p) \/ Unlock(p) \/ removeAbandonedStream(p)
ContentStep(p) == Provision(p) \/ Package(p) \/ PackageFails(p) \/ Leftovers(p) \/ Over(p)
ConfigStep(p) == Heal(p) \/ Backup(p) \/ Seed(p) \/ Restore(p)
EngineStep(p) == Launch(p) \/ WidgetLoads(p) \/ Simulates(p) \/ EngineEnds(p) \/ killEngine(p)

Step(p) == LockStep(p) \/ ContentStep(p) \/ ConfigStep(p) \/ EngineStep(p)

\* Once two hold the folder at once (README, observations) nothing is promised and a
\* behaviour is followed no further.
DirNext ==
    /\ ~past.raced
    /\ \/ \E p \in Workers, b \in Builds : Begin(p, "run", b)
       \/ \E p \in Workers : BeginPrune(p) \/ Step(p)
       \/ \E p \in Workers : WatchMemory(p) \/ Cancel(p) \/ Consume(p) \/ Judge(p) \/ Dies(p)
       \/ \E s \in strays : Stray(s)

DirSpec == DirInit /\ [][DirNext]_dirVars
-----------------------------------------------------------------------------
\* The user's config is in the folder at every moment, as itself or as the backup the next
\* run puts back, through kills at any step; where there was none, there is none but during
\* a run.  The exceptions are the code's: a write of one of the two files that broke off
\* where it was the last copy, and, without a config, a kill that leaves the seeded one.
ConfigKept ==
    IF past.cfg = "user"
    THEN past.cut \/ (IF folder.bak # Absent THEN folder.bak ELSE folder.cfg) = "user"
    ELSE past.bare \/ folder.cfg = Absent \/ \E p \in Workers : At(p, Running \cup {"restore"})

\* While the lock kept processes apart: the user's config survives (EnableWidget), an
\* installed package has all its pool files, so that a run that skips the download finds them
\* (gameInstalled, gcPool), no stream stays behind but a killed run's (removeAbandonedStream),
\* and no process that is not in the folder keeps others out (LockDataDir).
DirIsKept == ~past.raced =>
    /\ ConfigKept
    /\ Listed(folder.packages) \subseteq folder.pool
    /\ \A b \in Builds, p \in Workers : folder.stream[b].pid = task[p].pid =>
          task[p].build = b /\ At(p, Running \cup {"restore", "unlock", "abandon"})
    /\ \A p \in Workers : readLock = task[p].pid => Holds(p)

\* Whatever stops a run or an engine, and whenever: what is published as the game was left by
\* an engine that ended by itself, is no stub, and is what this run's widget wrote if it wrote;
\* a run the guard stopped says so and nothing else (Run, memGuard).
PublishedIsEarned == \A p \in Workers :
    /\ At(p, {"restore", "unlock", "abandon", "idle"}) => (task[p].said = "oom" <=> task[p].tripped)
    /\ task[p].said = "published" =>
          /\ task[p].engine = "quit" /\ task[p].capture.span # "stub"
          /\ ~past.raced /\ task[p].wrote => task[p].capture.pid = task[p].pid

\* A run whose widget wrote reads back what it wrote: no other process touches the stream of
\* a run that has the folder to itself (resim.go: "Runs share mutable state inside the data
\* dir, so only one at a time").
ReadsItsOwn == ~past.raced => \A p \in Workers :
    task[p].wrote /\ At(p, {"judge"}) => task[p].capture.pid = task[p].pid
=============================================================================
