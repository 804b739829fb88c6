----------------------------- MODULE IndexUpkeep ----------------------------
(***************************************************************************)
(* What the ReplayIndex object does to its own tables: the migration and   *)
(* the derived rebuild its constructor runs, either of which a spent SQL   *)
(* budget may stop at any statement, and the jobs' healthcheck series,     *)
(* recorded, thinned and pruned against counters that live in memory.      *)
(***************************************************************************)
EXTENDS Integers, Sequences, FiniteSets

CONSTANTS
    Runs,          \* jobs that report healthchecks
    Cap,           \* MAX_JOB_SAMPLES
    Retention,     \* JOB_SAMPLE_RETENTION_SEC
    MaxNow, MaxRows, MaxBeats   \* bounds: the clock, rows in the jobs table, healthchecks

ASSUME UpkeepAssumption ==
    /\ {Retention, MaxNow, MaxRows, MaxBeats} \subseteq Nat
    /\ Cap \in Nat \ {0, 1}

VARIABLES
    schema,     \* what the database has: the parts that landed and the stamp
    derived,    \* the derived data: its version and the jobs count (absent: -1)
    table,      \* the jobs table: rows the queue lists, rows shown inside another
    runs,       \* per job: its state, when it was last updated, its samples
    counts,     \* sampleCounts, in memory (absent: 0)
    pruned,     \* schema_meta's samples_pruned_before
    now,
    told        \* history: each job's beats, whether a parented row came before the
                \* seed, and the jobs a failed prune passed over

upkeepVars == <<schema, derived, table, runs, counts, pruned, now, told>>
ranVars == <<runs, counts, pruned, now, told>>
-----------------------------------------------------------------------------
(* The constructor.                                                        *)

Parts == {"tables", "columns", "ends", "indexes"}

\* Mutant: the stamp is written with the tables, before the rest has landed.
StampFirst == <<"unstamp", "stamp", "tables", "columns", "ends", "indexes">>

\* migrateSchema, statement by statement: "unstamp" deletes the stamp and "stamp" writes it.
migrateSchema == <<"tables", "columns", "ends", "indexes", "unstamp", "stamp">>

Ran(k) == {migrateSchema[i] : i \in 1 .. k}

schemaCurrent == schema.stamp

\* The statements up to the k-th ran; the next one, if any, threw and was logged.
ensureSchema(k) ==
    IF schemaCurrent THEN k = 0 /\ UNCHANGED schema
    ELSE schema' = [landed |-> schema.landed \cup (Ran(k) \cap Parts), stamp |-> "stamp" \in Ran(k)]

\* The maps, then the count, then the version that says both are there.
rebuild(k) ==
    derived' = [version |-> derived.version \/ k = 3,
                count |-> IF k >= 2 THEN table.listed + table.inside ELSE derived.count]

ensureDerived(k) ==
    IF derived.version \/ "tables" \notin schema'.landed THEN k = 0 /\ UNCHANGED derived
    ELSE rebuild(k)

\* The object is evicted or deployed over; the next request constructs it anew.
Constructed(k, l) ==
    /\ ensureSchema(k)
    /\ ensureDerived(l)
    /\ counts' = [j \in Runs |-> 0]
    /\ UNCHANGED <<table, runs, pruned, now, told>>

\* jobInsert's part in the count: a row with a parent is not counted.
Inserted(parented) ==
    /\ "tables" \in schema.landed /\ table.listed + table.inside < MaxRows
    /\ IF parented
       THEN /\ table' = [table EXCEPT !.inside = @ + 1]
            /\ told' = [told EXCEPT !.early = @ \/ ~derived.version]
            /\ UNCHANGED derived
       ELSE /\ table' = [table EXCEPT !.listed = @ + 1]
            /\ derived' = [derived EXCEPT !.count = IF @ = -1 THEN 1 ELSE @ + 1]
            /\ UNCHANGED told
    /\ UNCHANGED <<schema, runs, counts, pruned, now>>
-----------------------------------------------------------------------------
(* The healthcheck series.                                                 *)

\* Mutant: every second sample goes, the last one too.
ThinLastToo(s) == [i \in 1 .. (Len(s) + 1) \div 2 |-> s[2 * i - 1]]

\* Every second sample goes, but never the last.
jobSampleThin(s) ==
    LET kept == [i \in 1 .. (Len(s) + 1) \div 2 |-> s[2 * i - 1]]
    IN IF Len(s) % 2 = 0 THEN Append(kept, s[Len(s)]) ELSE kept

\* The cached count decides whether to count, the exact one whether to thin.
Capped(s, cached) ==
    LET n == IF cached = 0 THEN Len(s) ELSE cached + 1
        kept == IF Len(s) > Cap THEN jobSampleThin(s) ELSE s
    IN IF n <= Cap THEN [samples |-> s, count |-> n]
       ELSE [samples |-> kept, count |-> Len(kept)]

\* A beat inside the second of the one before overwrites it.
jobSampleRecord(j) ==
    LET s == runs[j].samples
        added == IF s # <<>> /\ s[Len(s)] = now THEN s ELSE Append(s, now)
        after == Capped(added, counts[j])
    IN /\ runs' = [runs EXCEPT ![j] = [state |-> "processing", updated |-> now, samples |-> after.samples]]
       /\ counts' = [counts EXCEPT ![j] = after.count]
       /\ told' = [told EXCEPT !.beats[j] = Append(@, now), !.missed = @ \ {j}]

\* A healthcheck; one that comes after the job's end brings it back to life.
Beats(j) ==
    /\ Len(told.beats[j]) < MaxBeats
    /\ jobSampleRecord(j)
    /\ UNCHANGED <<schema, derived, table, pruned, now>>

\* The job ends, or is failed because it went silent: its count is dropped.
Finishes(j) ==
    /\ runs[j].state = "processing"
    /\ runs' = [runs EXCEPT ![j].state = "done", ![j].updated = now]
    /\ counts' = [counts EXCEPT ![j] = 0]
    /\ UNCHANGED <<schema, derived, table, pruned, now, told>>

\* The band of finishing times this run is for.
Aged(j, before) ==
    runs[j].state = "done" /\ runs[j].updated >= pruned /\ runs[j].updated < before

\* The hourly sweep.  The watermark moves first, so a DELETE that throws leaves its band behind.
jobSamplePrune(throws) ==
    LET before == now - Retention
        going == {j \in Runs : Aged(j, before)}
    IN /\ before > pruned
       /\ pruned' = before
       /\ runs' = [j \in Runs |-> IF j \in going /\ ~throws
                                  THEN [runs[j] EXCEPT !.samples = <<>>] ELSE runs[j]]
       /\ told' = [told EXCEPT !.missed = IF throws THEN @ \cup going ELSE @,
                               !.beats = [j \in Runs |-> IF j \in going /\ ~throws THEN <<>> ELSE @[j]]]
       /\ UNCHANGED <<schema, derived, table, counts, now>>

Ticks == now < MaxNow /\ now' = now + 1 /\ UNCHANGED <<schema, derived, table, runs, counts, pruned, told>>

\* A fresh database, or one from before the columns, the stamp and the derived data.
UpkeepInit ==
    /\ \/ schema = [landed |-> {}, stamp |-> FALSE]
          /\ derived = [version |-> FALSE, count |-> -1] /\ table = [listed |-> 0, inside |-> 0]
       \/ schema = [landed |-> {"tables"}, stamp |-> FALSE]
          /\ derived = [version |-> FALSE, count |-> -1] /\ table = [listed |-> 1, inside |-> 0]
    /\ runs = [j \in Runs |-> [state |-> "pending", updated |-> 0, samples |-> <<>>]]
    /\ counts = [j \in Runs |-> 0]
    /\ pruned = 0 /\ now = 1
    /\ told = [beats |-> [j \in Runs |-> <<>>], early |-> FALSE, missed |-> {}]

UpkeepNext ==
    \/ \E k \in 0 .. Len(migrateSchema), l \in 0 .. 3 : Constructed(k, l)
    \/ \E parented \in BOOLEAN : Inserted(parented)
    \/ \E j \in Runs : Beats(j) \/ Finishes(j)
    \/ \E throws \in BOOLEAN : jobSamplePrune(throws)
    \/ Ticks

UpkeepSpec == UpkeepInit /\ [][UpkeepNext]_upkeepVars
-----------------------------------------------------------------------------
(* Properties.                                                             *)

\* Whatever statement a migration or a rebuild died at, its version is only believed once
\* everything it vouches for is there: every table, column and filled end time, and a
\* count of the rows the queue lists.  (A row inserted inside another before the seed is
\* counted by it; `early` says so.)
StampedIsWhole ==
    /\ schema.stamp => schema.landed = Parts
    /\ derived.version /\ ~told.early => derived.count = table.listed

\* A job's series spans its whole run however often the object was evicted, the beats
\* crossed or the job came back: never over the cap, from its first beat to its last; and
\* once the sweep has passed a finished job, nothing of it is left unless the sweep threw.
SeriesSpansRun ==
    \A j \in Runs :
        LET s == runs[j].samples
            b == told.beats[j]
        IN /\ Len(s) <= Cap
           /\ b = <<>> <=> s = <<>>
           /\ s # <<>> => s[1] = b[1] /\ s[Len(s)] = b[Len(b)]
           /\ (runs[j].state = "done" /\ runs[j].updated < pruned /\ j \notin told.missed) => s = <<>>
=============================================================================
