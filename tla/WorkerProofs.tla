---------------------------- MODULE WorkerProofs -----------------------------
(***************************************************************************)
(* Proofs about parts of the worker that share nothing, each for any value *)
(* of its constants: the index's upkeep, the sign-in through Access, and   *)
(* the doors to the bucket.                                                *)
(***************************************************************************)
EXTENDS IndexUpkeep, SignIn, Archive, SequenceTheorems, TLAPS

-----------------------------------------------------------------------------
(* PART ONE: THE INDEX'S UPKEEP.                                           *)

States == {"pending", "processing", "done"}

TypeOK ==
    /\ schema \in [landed : SUBSET Parts, stamp : BOOLEAN]
    /\ derived \in [version : BOOLEAN, count : Int]
    /\ table \in [listed : Nat, inside : Nat]
    /\ runs \in [Runs -> [state : States, updated : Nat, samples : Seq(Nat)]]
    /\ counts \in [Runs -> Nat]
    /\ pruned \in Nat /\ now \in Nat
    /\ told \in [beats : [Runs -> Seq(Nat)], early : BOOLEAN, missed : SUBSET Runs]

\* The tables: what a stamp vouches for, and that no parented row is there unseen before the seed.
TablesInv ==
    /\ schema.stamp => schema.landed = Parts
    /\ derived.version /\ ~told.early => derived.count = table.listed
    /\ ~derived.version /\ ~told.early => table.inside = 0

\* One job's series, with its count in memory never behind it.
RunInv(j) ==
    LET s == runs[j].samples
        b == told.beats[j]
    IN /\ counts[j] = 0 \/ counts[j] >= Len(s)
       /\ Len(s) <= Cap
       /\ b = <<>> <=> s = <<>>
       /\ s # <<>> => s[1] = b[1] /\ s[Len(s)] = b[Len(b)]
       /\ (runs[j].state = "done" /\ runs[j].updated < pruned /\ j \notin told.missed) => s = <<>>

SeriesInv == pruned <= now /\ \A j \in Runs : RunInv(j)

LEMMA IsSequence ==
    ASSUME NEW S, NEW n \in Nat, NEW f \in [1 .. n -> S]
    PROVE  f \in Seq(S) /\ Len(f) = n
  <1>1. f \in Seq(S)
    BY SeqDef
  <1>2. DOMAIN f = 1 .. n /\ DOMAIN f = 1 .. Len(f) /\ Len(f) \in Nat
    BY <1>1, LenProperties
  <1> QED
    BY <1>1, <1>2

\* A series with one more beat begins as it did and ends with that beat.
LEMMA Longer ==
    ASSUME NEW b \in Seq(Nat), NEW n \in Nat
    PROVE  /\ Append(b, n) \in Seq(Nat) /\ Append(b, n) # <<>>
           /\ Append(b, n)[Len(Append(b, n))] = n
           /\ Append(b, n)[1] = IF b = <<>> THEN n ELSE b[1]
  <1> DEFINE c == Append(b, n)
  <1>1. c \in Seq(Nat) /\ c # <<>> /\ Len(c) = Len(b) + 1
    BY AppendProperties
  <1>2. c[Len(b) + 1] = n
    BY AppendProperties
  <1>3. \A x \in 1 .. Len(b) : c[x] = b[x]
    BY AppendProperties
  <1> HIDE DEF c
  <1>4. CASE b = <<>>
    BY <1>1, <1>2, <1>4
  <1>5. CASE b # <<>>
    <2>1. Len(b) \in Nat /\ Len(b) >= 1
      BY <1>5, EmptySeq, LenProperties
    <2> QED
      BY <1>1, <1>2, <1>3, <1>5, <2>1
  <1> QED
    BY <1>1, <1>4, <1>5 DEF c

\* The thinned series is a series, not longer than the cap, with the same two ends.
LEMMA Thinned ==
    ASSUME NEW s \in Seq(Nat), Len(s) = Cap + 1
    PROVE  /\ jobSampleThin(s) \in Seq(Nat)
           /\ jobSampleThin(s) # <<>>
           /\ Len(jobSampleThin(s)) <= Cap
           /\ jobSampleThin(s)[1] = s[1]
           /\ jobSampleThin(s)[Len(jobSampleThin(s))] = s[Len(s)]
  <1> DEFINE n == (Len(s) + 1) \div 2
             kept == [i \in 1 .. n |-> s[2 * i - 1]]
  <1>1. Cap \in Nat /\ Cap >= 2
    BY UpkeepAssumption
  <1>2. n \in Nat /\ n >= 2 /\ 2 * n <= Len(s) + 1 /\ Len(s) <= 2 * n
    BY <1>1
  <1>3. \A i \in 1 .. n : s[2 * i - 1] \in Nat
    BY <1>1, <1>2
  <1>4. kept \in Seq(Nat) /\ Len(kept) = n /\ \A i \in 1 .. n : kept[i] = s[2 * i - 1]
    <2>1. kept \in [1 .. n -> Nat]
      BY <1>3
    <2> HIDE DEF n
    <2>2. kept \in Seq(Nat) /\ Len(kept) = n
      BY <1>2, <2>1, IsSequence
    <2> QED
      BY <2>2
  <1> HIDE DEF n, kept
  <1>5. CASE Len(s) % 2 = 0
    <2>1. Len(s) = 2 * n
      BY <1>1, <1>2, <1>5
    <2>2. jobSampleThin(s) = Append(kept, s[Len(s)])
      BY <1>5 DEF jobSampleThin, kept, n
    <2>3. s[Len(s)] \in Nat
      BY <1>1
    <2>4. n + 1 <= Cap
      BY <1>1, <1>2, <2>1
    <2>5. /\ jobSampleThin(s) \in Seq(Nat) /\ Len(jobSampleThin(s)) = n + 1
          /\ jobSampleThin(s)[n + 1] = s[Len(s)]
          /\ \A i \in 1 .. n : jobSampleThin(s)[i] = kept[i]
      BY <1>2, <1>4, <2>2, <2>3, AppendProperties
    <2>6. jobSampleThin(s)[1] = s[1]
      BY <1>2, <1>4, <2>5
    <2> QED
      BY <1>1, <1>2, <2>4, <2>5, <2>6
  <1>6. CASE Len(s) % 2 # 0
    <2>1. Len(s) = 2 * n - 1
      BY <1>1, <1>2, <1>6
    <2>2. jobSampleThin(s) = kept
      BY <1>6 DEF jobSampleThin, kept, n
    <2>3. kept[1] = s[1] /\ kept[n] = s[Len(s)]
      <3>1. 1 \in 1 .. n /\ n \in 1 .. n /\ 2 * 1 - 1 = 1 /\ 2 * n - 1 = Len(s)
        BY <1>2, <2>1
      <3>2. kept[1] = s[2 * 1 - 1] /\ kept[n] = s[2 * n - 1]
        BY <1>4, <3>1
      <3> QED
        BY <3>1, <3>2
    <2>4. n <= Cap
      BY <1>1, <1>2, <2>1
    <2> QED
      BY <1>1, <1>2, <1>4, <2>2, <2>3, <2>4
  <1> QED
    BY <1>5, <1>6

\* A sample recorded over a sound series leaves a sound one.
LEMMA Recorded ==
    ASSUME NEW s \in Seq(Nat), NEW c \in Nat, c = 0 \/ c >= Len(s), Len(s) <= Cap, NEW t \in Nat
    PROVE  LET added == IF s # <<>> /\ s[Len(s)] = t THEN s ELSE Append(s, t)
               after == Capped(added, c)
           IN /\ after.samples \in Seq(Nat) /\ after.samples # <<>> /\ Len(after.samples) <= Cap
              /\ after.count \in Nat /\ after.count >= Len(after.samples)
              /\ after.samples[1] = IF s = <<>> THEN t ELSE s[1]
              /\ after.samples[Len(after.samples)] = t
  <1> DEFINE added == IF s # <<>> /\ s[Len(s)] = t THEN s ELSE Append(s, t)
             after == Capped(added, c)
             n == IF c = 0 THEN Len(added) ELSE c + 1
  <1>1. Cap \in Nat /\ Cap >= 2
    BY UpkeepAssumption
  <1>2. /\ added \in Seq(Nat) /\ added # <<>> /\ Len(added) \in Nat
        /\ Len(added) <= Cap + 1 /\ Len(added) <= Len(s) + 1
        /\ added[1] = IF s = <<>> THEN t ELSE s[1]
        /\ added[Len(added)] = t
    <2>1. Len(s) \in Nat /\ (s # <<>> => Len(s) >= 1)
      BY EmptySeq, LenProperties
    <2>2. CASE s # <<>> /\ s[Len(s)] = t
      <3>1. added = s
        BY <2>2
      <3> HIDE DEF added
      <3> QED
        BY <1>1, <2>1, <2>2, <3>1
    <2>3. CASE ~(s # <<>> /\ s[Len(s)] = t)
      <3>1. added = Append(s, t)
        BY <2>3
      <3> HIDE DEF added
      <3>2. /\ added \in Seq(Nat) /\ added # <<>> /\ Len(added) = Len(s) + 1
            /\ added[Len(s) + 1] = t
            /\ \A i \in 1 .. Len(s) : added[i] = s[i]
        BY <2>1, <3>1, AppendProperties
      <3>3. added[1] = IF s = <<>> THEN t ELSE s[1]
        <4>1. CASE s = <<>>
          BY <3>2, <4>1, EmptySeq
        <4>2. CASE s # <<>>
          BY <2>1, <3>2, <4>2
        <4> QED
          BY <4>1, <4>2
      <3> QED
        BY <1>1, <2>1, <3>2, <3>3
    <2> QED
      BY <2>2, <2>3
  <1>3. n \in Nat /\ n >= Len(added)
    BY <1>2
  <1> SUFFICES /\ after.samples \in Seq(Nat) /\ after.samples # <<>> /\ Len(after.samples) <= Cap
               /\ after.count \in Nat /\ after.count >= Len(after.samples)
               /\ after.samples[1] = added[1]
               /\ after.samples[Len(after.samples)] = t
    BY <1>2
  <1> HIDE DEF added
  <1>4. CASE n <= Cap
    <2>1. after = [samples |-> added, count |-> n]
      BY <1>4 DEF Capped
    <2> QED
      BY <1>1, <1>2, <1>3, <1>4, <2>1
  <1>5. CASE ~(n <= Cap) /\ Len(added) > Cap
    <2>1. after = [samples |-> jobSampleThin(added), count |-> Len(jobSampleThin(added))]
      BY <1>5 DEF Capped
    <2>2. Len(added) = Cap + 1
      BY <1>1, <1>2, <1>5
    <2>3. Len(jobSampleThin(added)) \in Nat
      BY <1>2, <2>2, Thinned, LenProperties
    <2> QED
      BY <1>2, <2>1, <2>2, <2>3, Thinned
  <1>6. CASE ~(n <= Cap) /\ ~(Len(added) > Cap)
    <2>1. after = [samples |-> added, count |-> Len(added)]
      BY <1>6 DEF Capped
    <2> QED
      BY <1>1, <1>2, <1>6, <2>1
  <1> QED
    BY <1>4, <1>5, <1>6
-----------------------------------------------------------------------------
(* The tables and their versions.                                          *)

\* The stamp is the last statement: whoever wrote it ran all the others.
LEMMA StampIsLast ==
    ASSUME NEW k \in 0 .. Len(migrateSchema), "stamp" \in Ran(k)
    PROVE  Parts \subseteq Ran(k)
  <1>1. k = 6
    BY DEF Ran, migrateSchema
  <1>2. /\ "tables" \in Ran(6) /\ "columns" \in Ran(6)
        /\ "ends" \in Ran(6) /\ "indexes" \in Ran(6)
    BY DEF Ran, migrateSchema
  <1> QED
    BY <1>1, <1>2 DEF Parts

LEMMA Schemas ==
    ASSUME NEW L \in SUBSET Parts, NEW v \in BOOLEAN
    PROVE  [landed |-> L, stamp |-> v] \in [landed : SUBSET Parts, stamp : BOOLEAN]
  OBVIOUS

LEMMA Deriveds ==
    ASSUME NEW v \in BOOLEAN, NEW n \in Int
    PROVE  [version |-> v, count |-> n] \in [version : BOOLEAN, count : Int]
  OBVIOUS

LEMMA InitTables == UpkeepInit => TypeOK /\ TablesInv
  <1> SUFFICES ASSUME UpkeepInit PROVE TypeOK /\ TablesInv
    OBVIOUS
  <1>1. schema \in [landed : SUBSET Parts, stamp : BOOLEAN] /\ ~schema.stamp
    <2>1. PICK L \in SUBSET Parts : schema = [landed |-> L, stamp |-> FALSE]
      BY DEF UpkeepInit, Parts
    <2>2. schema.stamp = FALSE
      BY <2>1
    <2> QED
      BY <2>1, <2>2, Schemas
  <1>2. derived \in [version : BOOLEAN, count : Int] /\ ~derived.version
    <2>1. derived = [version |-> FALSE, count |-> -1]
      BY DEF UpkeepInit
    <2>2. derived.version = FALSE
      BY <2>1
    <2> QED
      BY <2>1, <2>2, Deriveds
  <1>3. table \in [listed : Nat, inside : Nat] /\ table.inside = 0
    BY DEF UpkeepInit
  <1>4. runs \in [Runs -> [state : States, updated : Nat, samples : Seq(Nat)]]
    BY DEF UpkeepInit, States
  <1>5. counts \in [Runs -> Nat] /\ pruned \in Nat /\ now \in Nat
    BY DEF UpkeepInit
  <1>6. told \in [beats : [Runs -> Seq(Nat)], early : BOOLEAN, missed : SUBSET Runs]
    BY DEF UpkeepInit
  <1> QED
    BY <1>1, <1>2, <1>3, <1>4, <1>5, <1>6 DEF TypeOK, TablesInv

\* What the constructor leaves of the tables.
LEMMA ConstructedTables ==
    ASSUME TypeOK, TablesInv, NEW k \in 0 .. Len(migrateSchema), NEW l \in 0 .. 3,
           ensureSchema(k), ensureDerived(l), UNCHANGED <<table, told>>
    PROVE  /\ schema' \in [landed : SUBSET Parts, stamp : BOOLEAN]
           /\ derived' \in [version : BOOLEAN, count : Int]
           /\ TablesInv'
  <1>1. /\ schema' \in [landed : SUBSET Parts, stamp : BOOLEAN]
        /\ schema'.stamp => schema'.landed = Parts
    <2>1. CASE schema.stamp
      BY <2>1 DEF ensureSchema, schemaCurrent, TypeOK, TablesInv
    <2>2. CASE ~schema.stamp
      <3>1. schema' = [landed |-> schema.landed \cup (Ran(k) \cap Parts), stamp |-> "stamp" \in Ran(k)]
        BY <2>2 DEF ensureSchema, schemaCurrent
      <3>2. schema.landed \cup (Ran(k) \cap Parts) \in SUBSET Parts
        BY DEF TypeOK
      <3>3. ("stamp" \in Ran(k)) => Parts \subseteq Ran(k)
        BY StampIsLast
      <3>4. ("stamp" \in Ran(k)) \in BOOLEAN
        BY DEF Ran
      <3>5. schema' \in [landed : SUBSET Parts, stamp : BOOLEAN]
        BY <3>1, <3>2, <3>4, Schemas
      <3>6. schema'.stamp = ("stamp" \in Ran(k)) /\ schema'.landed = schema.landed \cup (Ran(k) \cap Parts)
        BY <3>1
      <3> QED
        BY <3>2, <3>3, <3>5, <3>6
    <2> QED
      BY <2>1, <2>2
  <1>2. /\ derived' \in [version : BOOLEAN, count : Int]
        /\ derived'.version /\ ~told.early => derived'.count = table.listed
        /\ ~derived'.version => ~derived.version
    <2>1. CASE UNCHANGED derived
      BY <2>1 DEF TypeOK, TablesInv
    <2>2. CASE ~derived.version /\ rebuild(l)
      <3>1. derived' = [version |-> l = 3,
                        count |-> IF l >= 2 THEN table.listed + table.inside ELSE derived.count]
        BY <2>2 DEF rebuild, TypeOK
      <3>2. table.listed \in Nat /\ table.inside \in Nat /\ derived.count \in Int
        BY DEF TypeOK
      <3>3. ~told.early => table.inside = 0
        BY <2>2 DEF TablesInv
      <3>4. derived'.version = (l = 3)
        BY <3>1
      <3>5. derived'.count = IF l >= 2 THEN table.listed + table.inside ELSE derived.count
        BY <3>1
      <3>6. derived' \in [version : BOOLEAN, count : Int]
        <4>1. (IF l >= 2 THEN table.listed + table.inside ELSE derived.count) \in Int
          BY <3>2
        <4>2. (l = 3) \in BOOLEAN
          OBVIOUS
        <4> QED
          BY <3>1, <4>1, <4>2, Deriveds
      <3>7. derived'.version /\ ~told.early => derived'.count = table.listed
        <4>1. CASE l = 3
          BY <3>2, <3>3, <3>5, <4>1
        <4>2. CASE l # 3
          BY <3>4, <4>2
        <4> QED
          BY <4>1, <4>2
      <3> QED
        BY <2>2, <3>6, <3>7
    <2> QED
      BY <2>1, <2>2 DEF ensureDerived
  <1> QED
    BY <1>1, <1>2 DEF TablesInv

\* What an upload's row leaves of the tables.
LEMMA InsertedTables ==
    ASSUME TypeOK, TablesInv, NEW parented \in BOOLEAN, Inserted(parented)
    PROVE  TypeOK' /\ TablesInv'
  <1>1. /\ table.listed \in Nat /\ table.inside \in Nat /\ derived.count \in Int
        /\ derived.version \in BOOLEAN /\ told.early \in BOOLEAN
    BY DEF TypeOK
  <1>4. \A a, b \in Nat : [listed |-> a, inside |-> b] \in [listed : Nat, inside : Nat]
    OBVIOUS
  <1>5. table = [listed |-> table.listed, inside |-> table.inside]
    BY DEF TypeOK
  <1>2. CASE parented
    <2>1. /\ table' = [table EXCEPT !.inside = table.inside + 1]
          /\ told' = [told EXCEPT !.early = told.early \/ ~derived.version]
          /\ UNCHANGED <<derived, schema, runs, counts, pruned, now>>
      BY <1>2 DEF Inserted
    <2>2. table' \in [listed : Nat, inside : Nat] /\ table'.listed = table.listed
      <3>1. table' = [listed |-> table.listed, inside |-> table.inside + 1]
        BY <1>5, <2>1
      <3>2. table.inside + 1 \in Nat
        BY <1>1
      <3> QED
        BY <1>1, <1>4, <3>1, <3>2
    <2>3. /\ told' \in [beats : [Runs -> Seq(Nat)], early : BOOLEAN, missed : SUBSET Runs]
          /\ ~told'.early => ~told.early /\ derived.version
      BY <1>1, <2>1 DEF TypeOK
    <2> QED
      BY <2>1, <2>2, <2>3 DEF TypeOK, TablesInv
  <1>3. CASE ~parented
    <2>1. /\ table' = [table EXCEPT !.listed = table.listed + 1]
          /\ derived' = [derived EXCEPT !.count = IF derived.count = -1 THEN 1 ELSE derived.count + 1]
          /\ UNCHANGED <<told, schema, runs, counts, pruned, now>>
      BY <1>3 DEF Inserted
    <2>2. /\ table' \in [listed : Nat, inside : Nat]
          /\ table'.listed = table.listed + 1 /\ table'.inside = table.inside
      <3>1. table' = [listed |-> table.listed + 1, inside |-> table.inside]
        BY <1>5, <2>1
      <3>2. table.listed + 1 \in Nat
        BY <1>1
      <3> QED
        BY <1>1, <1>4, <3>1, <3>2
    <2>3. /\ derived'.version = derived.version
          /\ derived'.count = IF derived.count = -1 THEN 1 ELSE derived.count + 1
      BY <2>1 DEF TypeOK
    <2>4. derived' \in [version : BOOLEAN, count : Int]
      <3>1. (IF derived.count = -1 THEN 1 ELSE derived.count + 1) \in Int
        BY <1>1
      <3> QED
        BY <2>1, <3>1 DEF TypeOK
    <2>5. derived'.version /\ ~told'.early => derived'.count = table'.listed
      BY <1>1, <2>1, <2>2, <2>3 DEF TablesInv
    <2> QED
      BY <2>1, <2>2, <2>3, <2>4, <2>5 DEF TypeOK, TablesInv
  <1> QED
    BY <1>2, <1>3
-----------------------------------------------------------------------------
(* The series.                                                             *)

LEMMA InitSeries == UpkeepInit => SeriesInv
  <1> SUFFICES ASSUME UpkeepInit PROVE SeriesInv
    OBVIOUS
  <1>1. pruned = 0 /\ now = 1
    BY DEF UpkeepInit
  <1>2. ASSUME NEW j \in Runs PROVE RunInv(j)
    <2>1. /\ runs[j] = [state |-> "pending", updated |-> 0, samples |-> <<>>]
          /\ counts[j] = 0 /\ told.beats[j] = <<>>
      BY DEF UpkeepInit
    <2>2. runs[j].samples = <<>> /\ runs[j].state = "pending"
      BY <2>1
    <2>3. Len(<<>>) = 0 /\ 0 <= Cap
      BY UpkeepAssumption
    <2> QED
      BY <2>1, <2>2, <2>3 DEF RunInv
  <1> QED
    BY <1>1, <1>2 DEF SeriesInv

\* A healthcheck extends its own job's series and no other's.
LEMMA BeatsSeries ==
    ASSUME TypeOK, SeriesInv, NEW j \in Runs, Beats(j)
    PROVE  TypeOK' /\ SeriesInv'
  <1> DEFINE s == runs[j].samples
             b == told.beats[j]
             added == IF s # <<>> /\ s[Len(s)] = now THEN s ELSE Append(s, now)
             after == Capped(added, counts[j])
  <1>1. /\ s \in Seq(Nat) /\ b \in Seq(Nat) /\ counts[j] \in Nat /\ now \in Nat /\ pruned \in Nat
        /\ counts[j] = 0 \/ counts[j] >= Len(s)
        /\ Len(s) <= Cap /\ pruned <= now
        /\ b = <<>> <=> s = <<>>
        /\ s # <<>> => s[1] = b[1] /\ s[Len(s)] = b[Len(b)]
    BY DEF TypeOK, SeriesInv, RunInv
  <1>2. /\ after.samples \in Seq(Nat) /\ after.samples # <<>> /\ Len(after.samples) <= Cap
        /\ after.count \in Nat /\ after.count >= Len(after.samples)
        /\ after.samples[1] = IF s = <<>> THEN now ELSE s[1]
        /\ after.samples[Len(after.samples)] = now
    <2> HIDE DEF s, b
    <2> QED
      BY <1>1, Recorded, ZenonT(30)
  <1>3. /\ runs' = [runs EXCEPT ![j] = [state |-> "processing", updated |-> now, samples |-> after.samples]]
        /\ counts' = [counts EXCEPT ![j] = after.count]
        /\ told' = [told EXCEPT !.beats[j] = Append(b, now), !.missed = told.missed \ {j}]
        /\ UNCHANGED <<schema, derived, table, pruned, now>>
    BY DEF Beats, jobSampleRecord
  <1> HIDE DEF after
  <1>4. TypeOK'
    <2>1. runs' \in [Runs -> [state : States, updated : Nat, samples : Seq(Nat)]]
      <3>1. [state |-> "processing", updated |-> now, samples |-> after.samples]
                \in [state : States, updated : Nat, samples : Seq(Nat)]
        BY <1>1, <1>2 DEF States
      <3> QED
        BY <1>3, <3>1 DEF TypeOK
    <2>2. counts' \in [Runs -> Nat]
      BY <1>2, <1>3 DEF TypeOK
    <2>3. told' \in [beats : [Runs -> Seq(Nat)], early : BOOLEAN, missed : SUBSET Runs]
      <3>1. Append(b, now) \in Seq(Nat)
        BY <1>1, AppendProperties
      <3> HIDE DEF b
      <3> QED
        BY <1>3, <3>1 DEF TypeOK
    <2> QED
      BY <1>3, <2>1, <2>2, <2>3 DEF TypeOK
  <1>5. ASSUME NEW i \in Runs PROVE RunInv(i)'
    <2>1. CASE i = j
      <3>1. runs'[j] = [state |-> "processing", updated |-> now, samples |-> after.samples]
        BY <1>3 DEF TypeOK
      <3>2. counts'[j] = after.count /\ told'.beats[j] = Append(b, now)
        BY <1>3 DEF TypeOK
      <3> DEFINE c == Append(b, now)
      <3>3. c # <<>> /\ c[Len(c)] = now /\ c[1] = IF b = <<>> THEN now ELSE b[1]
        <4> HIDE DEF b
        <4> QED
          BY <1>1, Longer
      <3>4. /\ runs'[j].samples = after.samples /\ runs'[j].state # "done"
            /\ told'.beats[j] = c
        BY <3>1, <3>2
      <3> HIDE DEF c, s, b
      <3>5. after.samples[1] = c[1]
        BY <1>1, <1>2, <3>3
      <3> QED
        BY <1>2, <2>1, <3>2, <3>3, <3>4, <3>5 DEF RunInv
    <2>2. CASE i # j
      <3>1. runs'[i] = runs[i] /\ counts'[i] = counts[i] /\ told'.beats[i] = told.beats[i]
        BY <1>3, <2>2 DEF TypeOK
      <3>2. i \in told'.missed <=> i \in told.missed
        BY <1>3, <2>2 DEF TypeOK
      <3>3. RunInv(i) /\ pruned' = pruned
        BY <1>3 DEF SeriesInv
      <3> QED
        BY <3>1, <3>2, <3>3 DEF RunInv
    <2> QED
      BY <2>1, <2>2
  <1> QED
    BY <1>1, <1>3, <1>4, <1>5 DEF SeriesInv

\* A job that ends is stamped now, past anything pruned so far.
LEMMA FinishesSeries ==
    ASSUME TypeOK, SeriesInv, NEW j \in Runs, Finishes(j)
    PROVE  TypeOK' /\ SeriesInv'
  <1>1. now \in Nat /\ pruned \in Nat /\ pruned <= now /\ RunInv(j)
    BY DEF TypeOK, SeriesInv
  <1>2. /\ runs' = [runs EXCEPT ![j] = [runs[j] EXCEPT !.state = "done", !.updated = now]]
        /\ counts' = [counts EXCEPT ![j] = 0]
        /\ UNCHANGED <<schema, derived, table, pruned, now, told>>
    BY DEF Finishes
  <1> DEFINE r == [runs[j] EXCEPT !.state = "done", !.updated = now]
  <1>3. /\ r \in [state : States, updated : Nat, samples : Seq(Nat)]
        /\ r.samples = runs[j].samples /\ r.updated = now
    BY <1>1, ZenonT(30) DEF TypeOK, States
  <1> HIDE DEF r
  <1>4. runs' = [runs EXCEPT ![j] = r]
    BY <1>2 DEF r
  <1>5. TypeOK'
    BY <1>2, <1>3, <1>4 DEF TypeOK
  <1>6. ASSUME NEW i \in Runs PROVE RunInv(i)'
    <2>1. CASE i = j
      <3>1. runs'[j] = r /\ counts'[j] = 0
        BY <1>2, <1>4 DEF TypeOK
      <3>2. ~(r.updated < pruned)
        BY <1>1, <1>3
      <3> QED
        BY <1>1, <1>2, <1>3, <2>1, <3>1, <3>2 DEF RunInv
    <2>2. CASE i # j
      <3>1. runs'[i] = runs[i] /\ counts'[i] = counts[i]
        BY <1>2, <1>4, <2>2 DEF TypeOK
      <3>2. RunInv(i)
        BY DEF SeriesInv
      <3> QED
        BY <1>2, <3>1, <3>2 DEF RunInv
    <2> QED
      BY <2>1, <2>2
  <1> QED
    BY <1>1, <1>2, <1>5, <1>6 DEF SeriesInv

\* The sweep takes whole series of jobs that ended between its two marks.
LEMMA PruneSeries ==
    ASSUME TypeOK, SeriesInv, NEW throws \in BOOLEAN, jobSamplePrune(throws)
    PROVE  TypeOK' /\ SeriesInv'
  <1> DEFINE before == now - Retention
             going == {j \in Runs : Aged(j, before)}
             beats == [j \in Runs |-> IF j \in going /\ ~throws THEN <<>> ELSE told.beats[j]]
             missed == IF throws THEN told.missed \cup going ELSE told.missed
  <1>1. now \in Nat /\ pruned \in Nat /\ Retention \in Nat
    BY UpkeepAssumption DEF TypeOK
  <1>2. /\ before > pruned /\ pruned' = before
        /\ runs' = [j \in Runs |-> IF j \in going /\ ~throws
                                   THEN [runs[j] EXCEPT !.samples = <<>>] ELSE runs[j]]
        /\ told' = [told EXCEPT !.missed = missed, !.beats = beats]
        /\ UNCHANGED <<schema, derived, table, counts, now>>
    BY DEF jobSamplePrune
  <1>3. before \in Nat /\ before <= now
    BY <1>1, <1>2
  <1> HIDE DEF before
  <1>4. \A j \in Runs : [runs[j] EXCEPT !.samples = <<>>] \in [state : States, updated : Nat, samples : Seq(Nat)]
    BY EmptySeq DEF TypeOK
  <1>5. beats \in [Runs -> Seq(Nat)]
    BY EmptySeq DEF TypeOK
  <1>6. missed \in SUBSET Runs
    BY DEF TypeOK
  <1>7. told'.beats = beats /\ told'.missed = missed
    BY <1>2 DEF TypeOK
  <1>8. told' \in [beats : [Runs -> Seq(Nat)], early : BOOLEAN, missed : SUBSET Runs]
    <2> HIDE DEF beats, missed
    <2> QED
      BY <1>2, <1>5, <1>6 DEF TypeOK
  <1>9. TypeOK'
    <2>1. runs' \in [Runs -> [state : States, updated : Nat, samples : Seq(Nat)]]
      BY <1>2, <1>4 DEF TypeOK
    <2> QED
      BY <1>2, <1>3, <1>8, <2>1 DEF TypeOK
  <1>10. ASSUME NEW j \in Runs PROVE RunInv(j)'
    <2>1. RunInv(j) /\ counts[j] \in Nat /\ counts'[j] = counts[j] /\ runs[j].updated \in Nat
      BY <1>2 DEF SeriesInv, TypeOK
    <2>2. CASE j \in going /\ ~throws
      <3>1. runs'[j].samples = <<>> /\ told'.beats[j] = <<>>
        BY <1>2, <1>7, <2>2 DEF TypeOK
      <3>2. Len(<<>>) = 0 /\ 0 <= Cap
        BY UpkeepAssumption
      <3> QED
        BY <2>1, <3>1, <3>2 DEF RunInv
    <2>3. CASE ~(j \in going /\ ~throws)
      <3>1. runs'[j] = runs[j] /\ told'.beats[j] = told.beats[j]
        BY <1>2, <1>7, <2>3
      <3>2. ASSUME runs[j].state = "done", runs[j].updated < before, j \notin missed
            PROVE  runs[j].samples = <<>>
        <4>1. j \notin going
          BY <2>3, <3>2
        <4>2. j \notin told.missed
          BY <3>2
        <4>3. runs[j].updated < pruned
          BY <1>1, <2>1, <3>2, <4>1 DEF Aged
        <4> QED
          BY <2>1, <3>2, <4>2, <4>3 DEF RunInv
      <3> HIDE DEF missed, beats, going
      <3> QED
        BY <1>2, <1>7, <2>1, <3>1, <3>2 DEF RunInv
    <2> QED
      BY <2>2, <2>3
  <1> QED
    BY <1>2, <1>3, <1>9, <1>10 DEF SeriesInv
-----------------------------------------------------------------------------
UpkeepInv == TypeOK /\ TablesInv /\ SeriesInv

\* The three, the other variables' conjuncts left alone, are kept by every step.
LEMMA UpkeepStep == UpkeepInv /\ [UpkeepNext]_upkeepVars => UpkeepInv'
  <1> SUFFICES ASSUME UpkeepInv, [UpkeepNext]_upkeepVars PROVE UpkeepInv'
    OBVIOUS
  <1> USE DEF UpkeepInv
  <1>1. ASSUME NEW k \in 0 .. Len(migrateSchema), NEW l \in 0 .. 3, Constructed(k, l)
        PROVE  UpkeepInv'
    <2>1. /\ counts' = [j \in Runs |-> 0] /\ ensureSchema(k) /\ ensureDerived(l)
          /\ UNCHANGED <<table, runs, pruned, now, told>>
      BY <1>1 DEF Constructed
    <2>2. /\ schema' \in [landed : SUBSET Parts, stamp : BOOLEAN]
          /\ derived' \in [version : BOOLEAN, count : Int]
          /\ TablesInv'
      BY <1>1, <2>1, ConstructedTables
    <2>3. TypeOK'
      BY <2>1, <2>2 DEF TypeOK
    <2>4. ASSUME NEW j \in Runs PROVE RunInv(j)'
      BY <2>1 DEF SeriesInv, RunInv
    <2> QED
      BY <2>1, <2>2, <2>3, <2>4 DEF SeriesInv
  <1>2. ASSUME NEW parented \in BOOLEAN, Inserted(parented) PROVE UpkeepInv'
    <2>1. UNCHANGED <<runs, counts, pruned, now>> /\ told'.beats = told.beats /\ told'.missed = told.missed
      BY <1>2 DEF Inserted, TypeOK
    <2>2. SeriesInv'
      BY <2>1 DEF SeriesInv, RunInv
    <2> QED
      BY <1>2, <2>2, InsertedTables
  <1>3. ASSUME NEW j \in Runs, Beats(j) PROVE UpkeepInv'
    <2>1. UNCHANGED <<schema, derived, table>> /\ told'.early = told.early
      BY <1>3 DEF Beats, jobSampleRecord, TypeOK
    <2> QED
      BY <1>3, <2>1, BeatsSeries DEF TablesInv
  <1>4. ASSUME NEW j \in Runs, Finishes(j) PROVE UpkeepInv'
    <2>1. UNCHANGED <<schema, derived, table, told>>
      BY <1>4 DEF Finishes
    <2> QED
      BY <1>4, <2>1, FinishesSeries DEF TablesInv
  <1>5. ASSUME NEW throws \in BOOLEAN, jobSamplePrune(throws) PROVE UpkeepInv'
    <2>1. UNCHANGED <<schema, derived, table>> /\ told'.early = told.early
      BY <1>5 DEF jobSamplePrune, TypeOK
    <2> QED
      BY <1>5, <2>1, PruneSeries DEF TablesInv
  <1>6. CASE Ticks
    <2>1. now' = now + 1 /\ UNCHANGED <<schema, derived, table, runs, counts, pruned, told>>
      BY <1>6 DEF Ticks
    <2>2. TypeOK' /\ pruned' <= now'
      BY <2>1 DEF TypeOK, SeriesInv
    <2> QED
      BY <2>1, <2>2 DEF TablesInv, SeriesInv, RunInv
  <1>7. CASE UNCHANGED upkeepVars
    BY <1>7 DEF upkeepVars, TypeOK, TablesInv, SeriesInv, RunInv
  <1> QED
    BY <1>1, <1>2, <1>3, <1>4, <1>5, <1>6, <1>7 DEF UpkeepNext

\* Whatever statement a migration, a rebuild, a beat or a sweep stops at, the tables and the series
\* are in order (replayindex.ts).
THEOREM UpkeepAlways == UpkeepSpec => []UpkeepInv
  <1>1. UpkeepInit => UpkeepInv
    BY InitTables, InitSeries DEF UpkeepInv
  <1> QED
    BY <1>1, UpkeepStep, PTL DEF UpkeepSpec

\* Whatever statement a migration or a rebuild died at, for any number of jobs and
\* constructions: a version is believed only when all it vouches for is there
\* (the constructor of replayindex.ts).
THEOREM StampIsWhole == UpkeepSpec => []StampedIsWhole
  <1>1. UpkeepInv => StampedIsWhole
    BY DEF UpkeepInv, TablesInv, StampedIsWhole
  <1> QED
    BY <1>1, UpkeepAlways, PTL

\* Under any cap of at least two and any retention: a job's series runs from its first beat
\* to its last, within the cap, through thinnings, evictions and sweeps (jobSampleRecord,
\* jobSampleThin and jobSamplePrune of replayindex.ts).
THEOREM SeriesAlwaysSpans == UpkeepSpec => []SeriesSpansRun
  <1>1. UpkeepInv => SeriesSpansRun
    BY DEF UpkeepInv, SeriesInv, RunInv, SeriesSpansRun
  <1> QED
    BY <1>1, UpkeepAlways, PTL

-----------------------------------------------------------------------------
(* PART TWO: THE SIGN-IN.                                                  *)

Token == [key : {1, 2}, exp : Nat]
KeySet == [keys : SUBSET Nat, at : Nat \cup {-1}, reads : Seq(Nat)]
Cookie == [token : Token, until : Nat]
Browser ==
    [at : [origin : Origins, path : {"page", "stopped", "/admin/login", "/admin/callback"},
           next : [page : Pages, of : Origins \cup {"none"}], token : SUBSET Token],
     assertion : SUBSET Token, admin : BOOLEAN, probed : BOOLEAN,
     from : [origin : Origins \cup {"none"}, page : Pages \cup {"none"}], hops : Nat]

SignInTyped ==
    /\ clock \in Nat /\ keys \in {{1}, {1, 2}}
    /\ verifier \in [Origins -> KeySet]
    /\ setup \in [Origins -> {"configured", "unconfigured", "open"}]
    /\ setup["site"] = "configured" /\ setup["alias"] = "configured"
    /\ cookies \in [Origins -> SUBSET Cookie]
    /\ \A o \in Origins : \A c \in cookies[o] : c.until = c.token.exp
    /\ browser \in Browser

\* A key set was read last when it says, and never sooner than a cooldown after the time before.
Paced(v, moment) ==
    /\ v.at <= moment
    /\ v.reads = << >> => v.at = -1
    /\ v.reads # << >> => v.at = v.reads[Len(v.reads)]
    /\ \A i \in 1 .. Len(v.reads) - 1 : v.reads[i + 1] - v.reads[i] >= Cooldown
VerifiersOk == \A o \in Origins : Paced(verifier[o], clock)

\* The page a sign-in is for, once it is in an address.
Door(page) == IF page = "long" THEN "/queue" ELSE page

\* At a login: of the server that offered it, or of the site on behalf of the dev server; what
\* Access handed over is one token, kept as the site's cookie.
Asking ==
    /\ browser.from.origin \in Origins /\ browser.from.page \in Pages
    /\ setup[browser.from.origin] # "unconfigured"
    /\ browser.assertion # {} => /\ browser.at.origin = "site" /\ cookies["site"] # {}
                           /\ \E t \in Token : browser.assertion = {t}
    /\ \/ /\ browser.hops = 1 /\ browser.at.origin = browser.from.origin
          /\ browser.at.next = [page |-> browser.from.page, of |-> "none"]
       \/ /\ browser.hops = 2 /\ browser.at.origin = "site" /\ browser.from.origin = "dev"
          /\ browser.at.next = [page |-> Door(browser.from.page), of |-> "dev"]

\* At the dev server's callback: with a token, and for a page whose address was short enough.
Calling ==
    /\ browser.from.origin = "dev" /\ browser.from.page \in Pages \ {"wide"}
    /\ setup["dev"] # "unconfigured" /\ browser.hops = 3 /\ browser.at.origin = "dev"
    /\ browser.at.next = [page |-> Door(browser.from.page), of |-> "none"]
    /\ \E t \in Token : browser.at.token = {t}

\* At the end: on the page, with a cookie where Access stands in front; and a probe that was refused
\* found it run out, or signed with a key the server's set lacks.
Landed ==
    /\ browser.from.page \notin {"wide", "long"} => browser.at = Url(browser.from.origin, "page", [page |-> browser.from.page, of |-> "none"])
    /\ browser.from.page = "long" => browser.at.next.page = "/queue"
    /\ setup[browser.at.origin] # "unconfigured"
    /\ browser.at.origin # "alias" => cookies[browser.at.origin] # {}
    /\ browser.probed /\ ~browser.admin /\ browser.at.origin # "alias" =>
           \E c \in cookies[browser.at.origin] : c.until <= clock \/ (c.token.key \notin verifier[browser.at.origin].keys /\ verifier[browser.at.origin].at >= 0)

Journey ==
    /\ browser.hops \in 0 .. 4
    /\ browser.assertion # {} => browser.at.path = "/admin/login"
    /\ browser.at.path = "/admin/login" => Asking
    /\ browser.at.path = "/admin/callback" => Calling
    /\ browser.at.path = "page" /\ browser.hops > 0 => Landed

SignInInv == SignInTyped /\ VerifiersOk /\ Journey

\* After a look at its keys for a token that has not run out, a server has read a set, and not too soon.
LEMMA KeySetPaced ==
    ASSUME SignInTyped, VerifiersOk, NEW o \in Origins, NEW t \in Token
    PROVE  /\ KeySetFor(o, t) \in KeySet /\ Paced(KeySetFor(o, t), clock)
           /\ KeySetFor(o, t).at >= 0
<1> DEFINE v == verifier[o]
           w == [keys |-> keys, at |-> clock, reads |-> Append(v.reads, clock)]
<1>1. v \in KeySet /\ Paced(v, clock) /\ clock \in Nat /\ keys \in SUBSET Nat
  BY DEF SignInTyped, VerifiersOk
<1>2. v.reads \in Seq(Nat) /\ v.at \in Nat \cup {-1} /\ v.keys \in SUBSET Nat
  BY <1>1 DEF KeySet
<1>3. {TokenLife, Cooldown, KeySetLife} \subseteq Nat /\ Cooldown <= KeySetLife
  BY SignInAssumption
<1>4. w \in KeySet /\ w.at = clock /\ w.reads = Append(v.reads, clock) /\ w.keys = keys
  BY <1>1, <1>2 DEF KeySet
<1>5. v.at = -1 => v.reads = << >>
  <2>1. v.reads # << >> => v.reads[Len(v.reads)] \in Nat
    BY <1>2
  <2> QED
    BY <1>1, <2>1 DEF Paced
<1>6. Len(w.reads) = Len(v.reads) + 1 /\ w.reads[Len(w.reads)] = clock /\ w.reads # << >>
      /\ \A i \in 1 .. Len(v.reads) : w.reads[i] = v.reads[i]
  BY <1>1, <1>2, <1>4
<1>7. CASE v.at = -1 \/ clock - v.at >= Cooldown
  <2>1. ASSUME NEW i \in 1 .. Len(w.reads) - 1 PROVE w.reads[i + 1] - w.reads[i] >= Cooldown
    <3>1. i \in 1 .. Len(v.reads) /\ v.reads # << >> /\ w.reads[i] = v.reads[i]
      BY <1>2, <1>6, <2>1
    <3>2. CASE i = Len(v.reads)
      BY <1>1, <1>5, <1>6, <1>7, <3>1, <3>2 DEF Paced
    <3>3. CASE i < Len(v.reads)
      <4>1. i + 1 \in 1 .. Len(v.reads) /\ i \in 1 .. Len(v.reads) - 1
        BY <1>2, <3>1, <3>3
      <4> QED
        BY <1>1, <1>6, <3>1, <4>1 DEF Paced
    <3> QED
      BY <1>2, <3>1, <3>2, <3>3
  <2> HIDE DEF w
  <2>2. Paced(w, clock)
    <3>1. w.at <= clock /\ w.reads # << >> /\ w.at = w.reads[Len(w.reads)]
      BY <1>1, <1>4, <1>6
    <3> QED
      BY <2>1, <3>1 DEF Paced
  <2>3. v.at # -1 => v.at >= 0
    BY <1>2
  <2>4. KeySetFor(o, t) = w \/ (KeySetFor(o, t) = v /\ v.at # -1)
    BY DEF KeySetFor, w
  <2> QED
    BY <1>1, <1>4, <2>2, <2>3, <2>4
<1>8. CASE ~(v.at = -1 \/ clock - v.at >= Cooldown)
  <2>1. KeySetFor(o, t) = v
    BY <1>1, <1>2, <1>3, <1>8 DEF KeySetFor
  <2> QED
    BY <1>1, <1>2, <1>8, <2>1
<1> QED
  BY <1>7, <1>8

\* So whatever token is looked at, the servers' key sets stay as they should.
LEMMA VerifyKeeps ==
    ASSUME SignInTyped, VerifiersOk, NEW o \in Origins, NEW t \in Token
    PROVE  LET v == AfterVerify(o, t)
           IN  /\ v \in [Origins -> KeySet] /\ \A p \in Origins : Paced(v[p], clock)
               /\ clock < t.exp => v[o].at >= 0
<1>1. verifier \in [Origins -> KeySet] /\ \A p \in Origins : Paced(verifier[p], clock)
  BY DEF SignInTyped, VerifiersOk
<1>2. CASE clock < t.exp
  <2>1. AfterVerify(o, t) = [verifier EXCEPT ![o] = KeySetFor(o, t)]
    BY <1>2 DEF AfterVerify
  <2> QED
    BY <1>1, <2>1, KeySetPaced
<1>3. CASE ~(clock < t.exp)
  BY <1>1, <1>3 DEF AfterVerify
<1> QED
  BY <1>2, <1>3

LEMMA SignInStarts == SignInInit => SignInInv
<1> SUFFICES ASSUME SignInInit PROVE SignInInv
  OBVIOUS
<1>1. << >> \in Seq(Nat) /\ Len(<< >>) = 0
  OBVIOUS
<1>2. SignInTyped
  BY <1>1 DEF SignInInit, SignInTyped, Origins, Url, Browser, KeySet, Pages
<1>3. VerifiersOk
  BY <1>1 DEF SignInInit, VerifiersOk, Paced
<1>4. Journey
  BY DEF SignInInit, Journey, Url
<1> QED
  BY <1>2, <1>3, <1>4 DEF SignInInv

\* The page's probe.
LEMMA ProbeKeeps == ASSUME SignInInv, probeAdmin PROVE SignInInv'
<1> DEFINE o == browser.at.origin
           t == CHOOSE t \in CookieOf(o) : TRUE
<1>1. o \in Origins /\ browser \in Browser /\ browser.at.path = "page"
  BY DEF SignInInv, SignInTyped, Browser, probeAdmin
<1>2. ByToken(o) => t \in Token /\ clock < t.exp
  <2>1. \A x \in CookieOf(o) : x \in Token /\ clock < x.exp
    BY <1>1 DEF CookieOf, SignInInv, SignInTyped, Cookie
  <2> QED
    BY <2>1 DEF ByToken
<1> HIDE DEF t
<1>3. verifier' = (IF ByToken(o) THEN AfterVerify(o, t) ELSE verifier) /\ UNCHANGED <<clock, keys, setup, cookies>>
  BY DEF probeAdmin, t
<1>4. verifier' \in [Origins -> KeySet] /\ (\A p \in Origins : Paced(verifier'[p], clock))
      /\ (ByToken(o) => verifier'[o].at >= 0)
  BY <1>1, <1>2, <1>3, VerifyKeeps DEF SignInInv, SignInTyped, VerifiersOk
<1>5. browser' = [browser EXCEPT !.admin = adminIdentity(o, verifier'), !.probed = TRUE]
  BY DEF probeAdmin
<1>6. browser' \in Browser /\ browser'.at = browser.at /\ browser'.from = browser.from /\ browser'.hops = browser.hops
      /\ browser'.assertion = browser.assertion /\ (browser'.admin <=> adminIdentity(o, verifier'))
  <2>1. adminIdentity(o, verifier') \in BOOLEAN
    BY DEF adminIdentity
  <2> HIDE DEF o
  <2> QED
    BY <1>1, <1>5, <2>1 DEF Browser
<1>7. SignInTyped' /\ VerifiersOk'
  BY <1>3, <1>4, <1>6 DEF SignInInv, SignInTyped, VerifiersOk
<1>8. browser.hops > 0 => Landed'
  <2> SUFFICES ASSUME browser.hops > 0 PROVE Landed'
    OBVIOUS
  <2>1. Landed
    BY <1>1 DEF SignInInv, Journey
  <2>2. ASSUME ~adminIdentity(o, verifier'), o # "alias"
        PROVE  \E c \in cookies[o] : c.until <= clock \/ (c.token.key \notin verifier'[o].keys /\ verifier'[o].at >= 0)
    <3>1. setup[o] = "configured"
      BY <1>1, <2>1, <2>2 DEF Landed, adminIdentity, SignInInv, SignInTyped
    <3>2. PICK c \in cookies[o] : c \in Cookie /\ c.until = c.token.exp
      BY <1>1, <2>1, <2>2 DEF Landed, SignInInv, SignInTyped
    <3>3. CASE c.until <= clock
      BY <3>2, <3>3
    <3>4. CASE ~(c.until <= clock)
      <4>1. clock < c.until /\ c.token \in CookieOf(o)
        BY <3>2, <3>4 DEF CookieOf, Cookie, SignInInv, SignInTyped
      <4>2. ByToken(o)
        BY <3>1, <4>1 DEF ByToken
      <4>3. ~verify(o, c.token, verifier'[o])
        BY <2>2, <4>1, <4>2 DEF adminIdentity
      <4> QED
        BY <1>4, <3>2, <4>1, <4>2, <4>3 DEF verify
    <3> QED
      BY <3>3, <3>4
  <2> QED
    BY <1>3, <1>6, <2>1, <2>2 DEF Landed
<1>9. Journey'
  BY <1>1, <1>6, <1>8 DEF SignInInv, Journey
<1> QED
  BY <1>7, <1>9 DEF SignInInv

\* What only the browser does.
LEMMA BrowserKeeps ==
    ASSUME SignInInv, UNCHANGED <<clock, keys, verifier, setup, cookies>>, browser' \in Browser, Journey'
    PROVE  SignInInv'
BY DEF SignInInv, SignInTyped, VerifiersOk

\* The person offers a sign-in to the server the page is of.
LEMMA ClickKeeps == ASSUME SignInInv, SignInClicked PROVE SignInInv'
<1>1. browser \in Browser /\ UNCHANGED <<clock, keys, verifier, setup, cookies>> /\ browser.at.path = "page"
      /\ setup[browser.at.origin] # "unconfigured"
  BY DEF SignInInv, SignInTyped, SignInClicked
<1> DEFINE o == browser.at.origin
           p == browser.at.next.page
<1>2. o \in Origins /\ p \in Pages
  BY <1>1 DEF Browser
<1>3. browser' = [browser EXCEPT !.at = Url(o, "/admin/login", [page |-> p, of |-> "none"]), !.from = [origin |-> o, page |-> p], !.hops = 1]
  BY DEF SignInClicked
<1> HIDE DEF o, p
<1>4. /\ browser' \in Browser /\ browser'.hops = 1 /\ browser'.at = Url(o, "/admin/login", [page |-> p, of |-> "none"])
      /\ browser'.from = [origin |-> o, page |-> p] /\ browser'.assertion = browser.assertion
  BY <1>1, <1>2, <1>3 DEF Browser, Url
<1>5. browser.assertion = {}
  BY <1>1 DEF SignInInv, Journey
<1> QED
  BY <1>1, <1>2, <1>4, <1>5, BrowserKeeps DEF Journey, Asking, Url, o

\* Another page, or another origin.
LEMMA VisitKeeps == ASSUME SignInInv, NEW o \in Origins, NEW page \in Pages, Visits(o, page) PROVE SignInInv'
<1>1. UNCHANGED <<clock, keys, verifier, setup, cookies>>
      /\ browser' = [at |-> Url(o, "page", [page |-> page, of |-> "none"]), assertion |-> {}, admin |-> FALSE,
                     probed |-> FALSE, from |-> [origin |-> "none", page |-> "none"], hops |-> 0]
  BY DEF Visits
<1>2. browser' \in Browser
  BY <1>1 DEF Browser, Url
<1> QED
  BY <1>1, <1>2, BrowserKeeps DEF Journey, Url

\* Access lets the person through, with the site's cookie, or not.
LEMMA AccessKeeps == ASSUME SignInInv, AccessAsks PROVE SignInInv'
<1>1. /\ browser \in Browser /\ UNCHANGED <<clock, keys, verifier, setup>> /\ clock \in Nat
      /\ browser.at.origin = "site" /\ browser.at.path = "/admin/login" /\ Asking /\ browser.hops \in 0 .. 4
      /\ cookies \in [Origins -> SUBSET Cookie] /\ "site" \in Origins /\ browser.assertion = {}
  BY DEF SignInInv, SignInTyped, Journey, AccessAsks, Origins
<1> DEFINE k == CHOOSE k \in keys : \A l \in keys : l <= k
           t == [key |-> k, exp |-> clock + TokenLife]
<1>2. k \in {1, 2}
  <2>1. \E x \in keys : \A l \in keys : l <= x
    BY DEF SignInInv, SignInTyped
  <2> QED
    BY <2>1 DEF SignInInv, SignInTyped
<1> HIDE DEF k
<1>3. t \in Token /\ t.exp = clock + TokenLife /\ t.exp \in Nat
  BY <1>1, <1>2, SignInAssumption DEF Token
<1> HIDE DEF t
<1>4. CASE browser' = [browser EXCEPT !.assertion = {t}] /\ cookies' = [cookies EXCEPT !["site"] = accessCookie(t)]
  <2>1. accessCookie(t) = {[token |-> t, until |-> t.exp]} /\ accessCookie(t) \in SUBSET Cookie
    BY <1>3 DEF accessCookie, Cookie
  <2>2. /\ browser' \in Browser /\ browser'.assertion = {t} /\ browser'.at = browser.at
        /\ browser'.from = browser.from /\ browser'.hops = browser.hops
    BY <1>1, <1>3, <1>4 DEF Browser
  <2>3. cookies' \in [Origins -> SUBSET Cookie] /\ cookies'["site"] # {}
        /\ \A o \in Origins : \A c \in cookies'[o] : c.until = c.token.exp
    BY <1>1, <1>4, <2>1 DEF SignInInv, SignInTyped
  <2>4. SignInTyped' /\ VerifiersOk'
    BY <1>1, <2>2, <2>3 DEF SignInInv, SignInTyped, VerifiersOk
  <2>5. Asking'
    BY <1>1, <1>3, <2>2, <2>3 DEF Asking
  <2> QED
    BY <1>1, <2>2, <2>4, <2>5 DEF SignInInv, Journey
<1>5. CASE browser' = [browser EXCEPT !.at.path = "stopped"] /\ UNCHANGED cookies
  <2>1. browser' \in Browser /\ browser'.at.path = "stopped" /\ browser'.hops = browser.hops /\ browser'.assertion = {}
    BY <1>1, <1>5 DEF Browser
  <2>2. Journey'
    BY <1>1, <2>1 DEF Journey
  <2> QED
    BY <1>1, <1>5, <2>1, <2>2, BrowserKeeps
<1> QED
  BY <1>4, <1>5 DEF AccessAsks, t, k

\* A hop puts the browser at an address, new there.
LEMMA Hops ==
    ASSUME browser \in Browser, NEW url, url \in [origin : Origins, path : {"page", "stopped", "/admin/login", "/admin/callback"},
               next : [page : Pages, of : Origins \cup {"none"}], token : SUBSET Token],
           GoTo(url)
    PROVE  /\ browser' \in Browser /\ browser'.at = url /\ browser'.assertion = {} /\ ~browser'.admin /\ ~browser'.probed
           /\ browser'.from = browser.from /\ browser'.hops = browser.hops + 1
<1> DEFINE new == [at |-> url, assertion |-> {}, admin |-> FALSE, probed |-> FALSE, from |-> browser.from, hops |-> browser.hops + 1]
<1>1. browser' = new
  BY DEF GoTo, Browser
<1>2. browser.from \in [origin : Origins \cup {"none"}, page : Pages \cup {"none"}] /\ browser.hops + 1 \in Nat
  BY DEF Browser
<1>3. new \in Browser
  BY <1>2 DEF Browser
<1> QED
  BY <1>1, <1>3

\* A login answers with the next hop.
LEMMA LoginKeeps == ASSUME SignInInv, Login PROVE SignInInv'
<1> DEFINE b == browser
           o == b.at.origin
           next == b.at.next
<1>1. /\ b \in Browser /\ UNCHANGED <<clock, keys, verifier, setup, cookies>> /\ Asking /\ b.hops \in 0 .. 4
      /\ b.at.path = "/admin/login" /\ setup["site"] = "configured" /\ setup["alias"] = "configured"
  BY DEF SignInInv, SignInTyped, Journey, Login
<1>2. /\ o \in Origins /\ next \in [page : Pages, of : Origins \cup {"none"}] /\ next.page \in Pages /\ b.assertion \in SUBSET Token
  BY <1>1 DEF Browser
<1>3. \A p \in Pages : Door(p) \in Pages \ {"long"} /\ (p # "long" => Door(p) = p) /\ (p = "long" => Door(p) = "/queue")
      /\ (Door(p) = "wide" => p = "wide")
  BY DEF Door, Pages
<1>4. loginNext(next) = (IF next.of = "none" THEN Door(next.page) ELSE "/queue") /\ loginNext(next) \in Pages \ {"long"}
  BY <1>2 DEF loginNext, Door, Pages
<1>5. CASE b.assertion = {} /\ isLoopbackHost(o)
  <2> DEFINE url == Url("site", "/admin/login", [page |-> loginNext(next), of |-> o])
  <2>1. GoTo(url) /\ o = "dev"
    BY <1>5 DEF Login, isLoopbackHost
  <2>2. url \in [origin : Origins, path : {"page", "stopped", "/admin/login", "/admin/callback"},
               next : [page : Pages, of : Origins \cup {"none"}], token : SUBSET Token]
        /\ url.origin = "site" /\ url.path = "/admin/login" /\ url.next = [page |-> loginNext(next), of |-> o]
    BY <1>2, <1>4 DEF Url, Origins
  <2> HIDE DEF url
  <2>3. browser' \in Browser /\ browser'.at = url /\ browser'.assertion = {} /\ browser'.from = b.from /\ browser'.hops = b.hops + 1
    BY <1>1, <2>1, <2>2, Hops
  <2>4. b.hops = 1 /\ b.from.origin = "dev" /\ next = [page |-> b.from.page, of |-> "none"]
    BY <1>1, <2>1 DEF Asking
  <2>5. Asking'
    BY <1>1, <1>4, <2>1, <2>2, <2>3, <2>4 DEF Asking
  <2>6. Journey'
    BY <1>1, <2>2, <2>3, <2>4, <2>5 DEF Journey
  <2> QED
    BY <1>1, <2>3, <2>6, BrowserKeeps
<1>6. CASE b.assertion # {} /\ devCallbackNext(next)
  <2> DEFINE url == [Url(next.of, "/admin/callback", [page |-> next.page, of |-> "none"]) EXCEPT !.token = b.assertion]
  <2>1. GoTo(url) /\ next.of = "dev" /\ next.page # "wide"
    BY <1>6 DEF Login, isLoopbackHost, devCallbackNext
  <2>2. url \in [origin : Origins, path : {"page", "stopped", "/admin/login", "/admin/callback"},
               next : [page : Pages, of : Origins \cup {"none"}], token : SUBSET Token]
        /\ url.origin = "dev" /\ url.path = "/admin/callback" /\ url.next = [page |-> next.page, of |-> "none"] /\ url.token = b.assertion
    BY <1>2, <2>1 DEF Url, Origins
  <2> HIDE DEF url
  <2>3. browser' \in Browser /\ browser'.at = url /\ browser'.assertion = {} /\ browser'.from = b.from /\ browser'.hops = b.hops + 1
    BY <1>1, <2>1, <2>2, Hops
  <2>4. b.hops = 2 /\ b.from.origin = "dev" /\ next = [page |-> Door(b.from.page), of |-> "dev"]
    BY <1>1, <2>1 DEF Asking
  <2>5. b.from.page \in Pages \ {"wide"} /\ next.page = Door(b.from.page)
    BY <1>1, <1>3, <2>1, <2>4 DEF Asking
  <2>6. \E t \in Token : b.assertion = {t}
    BY <1>1, <1>6 DEF Asking
  <2>7. setup["dev"] # "unconfigured"
    BY <1>1, <2>4 DEF Asking
  <2>8. Calling'
    BY <1>1, <2>2, <2>3, <2>4, <2>5, <2>6, <2>7 DEF Calling
  <2>9. Journey'
    BY <1>1, <2>2, <2>3, <2>4, <2>8 DEF Journey
  <2> QED
    BY <1>1, <2>3, <2>9, BrowserKeeps
<1>7. CASE ~(b.assertion = {} /\ isLoopbackHost(o)) /\ ~(b.assertion # {} /\ devCallbackNext(next))
  <2> DEFINE url == Url(o, "page", [page |-> loginNext(next), of |-> "none"])
  <2>1. GoTo(url) /\ (o = "site" => b.assertion # {})
    BY <1>7 DEF Login, Land
  <2>2. url \in [origin : Origins, path : {"page", "stopped", "/admin/login", "/admin/callback"},
               next : [page : Pages, of : Origins \cup {"none"}], token : SUBSET Token]
        /\ url.origin = o /\ url.path = "page" /\ url.next.page = loginNext(next)
    BY <1>2, <1>4 DEF Url
  <2>3. browser' \in Browser /\ browser'.at = url /\ browser'.assertion = {} /\ ~browser'.probed /\ browser'.from = b.from /\ browser'.hops = b.hops + 1
    BY <1>1, <2>1, <2>2, Hops
  <2>4. o = "site" \/ o = "alias"
    BY <1>1, <1>2, <1>7 DEF isLoopbackHost, Origins, Asking
  <2>5. o = "site" => cookies["site"] # {}
    BY <1>1, <2>1 DEF Asking
  <2>6. CASE b.hops = 1
    <3>1. b.from.origin = o /\ next = [page |-> b.from.page, of |-> "none"] /\ b.from.page \in Pages
      BY <1>1, <2>6 DEF Asking
    <3>2. loginNext(next) = Door(b.from.page)
      BY <1>4, <3>1, SMTT(20)
    <3>3. Landed'
      BY <1>1, <1>3, <2>2, <2>3, <2>4, <2>5, <3>1, <3>2 DEF Landed
    <3>4. Journey'
      BY <1>1, <2>2, <2>3, <2>6, <3>3 DEF Journey
    <3> QED
      BY <1>1, <2>3, <3>4, BrowserKeeps
  <2>7. CASE b.hops = 2
    <3>1. o = "site" /\ next = [page |-> Door(b.from.page), of |-> "dev"] /\ b.from.page \in Pages /\ b.assertion # {}
      BY <1>1, <2>1, <2>7 DEF Asking
    <3>2. b.from.page = "wide"
      BY <1>3, <1>7, <3>1 DEF devCallbackNext
    <3>3. Landed'
      BY <1>1, <2>2, <2>3, <2>5, <3>1, <3>2 DEF Landed
    <3>4. Journey'
      BY <1>1, <2>2, <2>3, <2>7, <3>3 DEF Journey
    <3> QED
      BY <1>1, <2>3, <3>4, BrowserKeeps
  <2> QED
    BY <1>1, <2>6, <2>7 DEF Asking
<1> QED
  BY <1>5, <1>6, <1>7

\* A callback lands where the sign-in began, with this origin's own cookie.
LEMMA CallbackKeeps == ASSUME SignInInv, Callback PROVE SignInInv'
<1> DEFINE b == browser
           o == b.at.origin
           t == CHOOSE t \in b.at.token : TRUE
           next == b.at.next
<1>1. /\ b \in Browser /\ UNCHANGED <<clock, keys, setup>> /\ Calling /\ b.hops = 3 /\ o = "dev" /\ o \in Origins
      /\ b.at.path = "/admin/callback" /\ setup[o] # "unconfigured" /\ clock \in Nat /\ cookies \in [Origins -> SUBSET Cookie]
  BY DEF SignInInv, SignInTyped, Journey, Callback, Calling, Browser
<1>2. t \in Token
  BY <1>1 DEF Calling
<1>3. b.assertion = {}
  BY <1>1 DEF SignInInv, Journey
<1> HIDE DEF t
<1>4. verifier' = AfterVerify(o, t) /\ verifier' \in [Origins -> KeySet] /\ VerifiersOk'
  <2>1. verifier' = AfterVerify(o, t)
    BY <1>1 DEF Callback, t
  <2> QED
    BY <1>1, <1>2, <2>1, VerifyKeeps DEF SignInInv, VerifiersOk
<1>5. CASE ~verify(o, t, verifier'[o])
  <2>1. browser' = [browser EXCEPT !.at.path = "stopped"] /\ UNCHANGED cookies
    BY <1>1, <1>4, <1>5 DEF Callback, t
  <2>2. browser' \in Browser /\ browser'.at.path = "stopped" /\ browser'.hops = 3 /\ browser'.assertion = {}
    BY <1>1, <1>3, <2>1 DEF Browser
  <2>3. Journey'
    BY <2>2 DEF Journey
  <2> QED
    BY <1>1, <1>4, <2>1, <2>2, <2>3 DEF SignInInv, SignInTyped
<1>6. CASE verify(o, t, verifier'[o])
  <2> DEFINE url == Url(o, "page", [page |-> loginNext(next), of |-> "none"])
  <2>1. cookies' = [cookies EXCEPT ![o] = accessCookie(t)] /\ GoTo(url)
    BY <1>1, <1>4, <1>6 DEF Callback, t, Land
  <2>2. next = [page |-> Door(b.from.page), of |-> "none"] /\ b.from.page \in Pages \ {"wide"} /\ b.from.origin = "dev"
    BY <1>1 DEF Calling
  <2>3. loginNext(next) = Door(b.from.page) /\ Door(b.from.page) \in Pages
    BY <2>2 DEF loginNext, Door, Pages
  <2>4. url \in [origin : Origins, path : {"page", "stopped", "/admin/login", "/admin/callback"},
               next : [page : Pages, of : Origins \cup {"none"}], token : SUBSET Token]
        /\ url.origin = o /\ url.path = "page" /\ url.next.page = loginNext(next)
    BY <1>1, <2>3 DEF Url
  <2>5. browser' \in Browser /\ browser'.at = url /\ browser'.assertion = {} /\ ~browser'.probed /\ browser'.from = b.from /\ browser'.hops = b.hops + 1
    BY <1>1, <2>1, <2>4, Hops
  <2>6. accessCookie(t) = {[token |-> t, until |-> t.exp]} /\ accessCookie(t) \in SUBSET Cookie
    BY <1>2 DEF accessCookie, Cookie, Token
  <2>7. cookies' \in [Origins -> SUBSET Cookie] /\ cookies'[o] # {}
        /\ \A p \in Origins : \A c \in cookies'[p] : c.until = c.token.exp
    BY <1>1, <2>1, <2>6 DEF SignInInv, SignInTyped
  <2>8. SignInTyped'
    BY <1>1, <1>4, <2>5, <2>7, SMTT(20) DEF SignInInv, SignInTyped
  <2>9. Landed'
    BY <1>1, <2>2, <2>3, <2>4, <2>5, <2>7 DEF Landed, Door
  <2>10. Journey'
    BY <1>1, <2>4, <2>5, <2>9 DEF Journey
  <2> QED
    BY <1>4, <2>8, <2>10 DEF SignInInv
<1> QED
  BY <1>5, <1>6

LEMMA LogoutKeeps == ASSUME SignInInv, Logout PROVE SignInInv'
<1> DEFINE o == browser.at.origin
<1>1. /\ browser \in Browser /\ UNCHANGED <<clock, keys, verifier, setup>> /\ browser.at.path = "page" /\ o \in Origins
      /\ cookies \in [Origins -> SUBSET Cookie] /\ cookies' = [cookies EXCEPT ![o] = {}]
      /\ browser' = [browser EXCEPT !.at.next.page = "/", !.admin = FALSE, !.probed = FALSE, !.hops = 0]
  BY DEF SignInInv, SignInTyped, Logout, Browser
<1>2. browser.assertion = {}
  BY <1>1 DEF SignInInv, Journey
<1> HIDE DEF o
<1>3. browser' \in Browser /\ browser'.at.path = "page" /\ browser'.hops = 0 /\ browser'.assertion = {}
  BY <1>1, <1>2 DEF Browser, Pages
<1>4. cookies' \in [Origins -> SUBSET Cookie] /\ \A p \in Origins : \A c \in cookies'[p] : c.until = c.token.exp
  BY <1>1 DEF SignInInv, SignInTyped
<1>5. SignInTyped' /\ VerifiersOk'
  BY <1>1, <1>3, <1>4 DEF SignInInv, SignInTyped, VerifiersOk
<1> QED
  BY <1>3, <1>5 DEF SignInInv, Journey

\* The keys rotate and the clock goes on.
LEMMA TimeKeeps == ASSUME SignInInv, KeysRotate \/ ClockTicks PROVE SignInInv'
<1>1. UNCHANGED <<verifier, setup, cookies, browser>> /\ clock \in Nat /\ clock' \in Nat /\ clock' >= clock /\ keys' \in {{1}, {1, 2}}
  BY SignInAssumption DEF SignInInv, SignInTyped, KeysRotate, ClockTicks
<1>2. SignInTyped'
  BY <1>1 DEF SignInInv, SignInTyped
<1>3. VerifiersOk'
  BY <1>1 DEF SignInInv, SignInTyped, VerifiersOk, Paced, KeySet
<1>4. Landed => Landed'
  <2> SUFFICES ASSUME Landed PROVE Landed'
    OBVIOUS
  <2>1. browser.at.origin \in Origins /\ \A c \in cookies[browser.at.origin] : c.until \in Nat
    BY DEF SignInInv, SignInTyped, Browser, Cookie
  <2>2. \A c \in cookies[browser.at.origin] : c.until <= clock => c.until <= clock'
    BY <1>1, <2>1
  <2> QED
    BY <1>1, <2>2 DEF Landed
<1>5. Journey'
  BY <1>1, <1>4 DEF SignInInv, Journey, Asking, Calling
<1> QED
  BY <1>2, <1>3, <1>5 DEF SignInInv

LEMMA SignInStep == SignInInv /\ [SignInNext]_signInVars => SignInInv'
<1> SUFFICES ASSUME SignInInv, [SignInNext]_signInVars PROVE SignInInv'
  OBVIOUS
<1>1. CASE UNCHANGED signInVars
  BY <1>1 DEF signInVars, SignInInv, SignInTyped, VerifiersOk, Journey, Asking, Calling, Landed
<1>2. CASE SignInNext
  BY <1>2, ProbeKeeps, ClickKeeps, AccessKeeps, LoginKeeps, CallbackKeeps, LogoutKeeps, VisitKeeps, TimeKeeps DEF SignInNext
<1> QED
  BY <1>1, <1>2

\* Wherever a sign-in stands, between app.js and the routes of access.ts, it still knows its way back.
THEOREM SignInAlways == SignInSpec => []SignInInv
BY SignInStarts, SignInStep, PTL DEF SignInSpec

\* For any life of a token, cooldown and life of a key set: a sign-in lands on the page it was
\* offered on, within four hops, in admin mode until its token runs out, and unknown keys do not
\* make a server read its set again too soon (access.ts, app.js probeAdmin and adminLoginHref).
THEOREM SignInAlwaysLands == SignInSpec => []SignInLands
<1>1. SignInInv => SignInLands
  <2> SUFFICES ASSUME SignInInv PROVE SignInLands
    OBVIOUS
  <2> DEFINE b == browser
             o == b.at.origin
  <2>1. b.at.path = "page" /\ b.hops > 0 => Landed
    BY DEF SignInInv, Journey
  <2>2. o \in Origins /\ \A c \in cookies[o] : c.until \in Nat /\ clock \in Nat
    BY DEF SignInInv, SignInTyped, Browser, Cookie
  <2>3. \A c \in cookies[o] : ~(c.until <= clock) => c.token \in CookieOf(o)
    BY <2>2 DEF CookieOf
  <2>4. Landed /\ b.probed /\ ~b.admin /\ o # "alias" =>
            \/ \E c \in cookies[o] : c.until <= clock
            \/ \E t \in CookieOf(o) : t.key \notin verifier[o].keys /\ verifier[o].at >= 0
    BY <2>3 DEF Landed
  <2>5. b.hops <= 4
    BY DEF SignInInv, Journey
  <2> QED
    BY <2>1, <2>4, <2>5 DEF SignInInv, VerifiersOk, Paced, Landed, SignInLands
<1> QED
  BY <1>1, SignInAlways, PTL

-----------------------------------------------------------------------------
(* PART THREE: THE DOORS TO THE BUCKET.                                    *)

Months == {"2026-09", "2026-10"}

\* The names a capture can be archived under.
StreamKeys(c) ==
    {<<Seg("streams", "none"), Seg(m, "none"), Seg(p.gameId, "none"),
       [name |-> <<i, c.id, archiveSuffix(p)>>, ext |-> IF c.brp THEN "brp" ELSE "brepstream"]>>
     : p \in scanned(c), m \in Months, i \in 0 .. MaxInstant}
ArchiveKeys == {<< >>} \cup UNION {StreamKeys(c) : c \in Captures}
Ways == {"gameStartUnix", "put", "jobInsert", "answered"}
UploadWay == [capture : Captures, at : Ways, key : ArchiveKeys]
Write == [key : Published, ifAbsent : BOOLEAN, id : Nat]
Job == [key : ArchiveKeys, capture : Captures]

Stored(key, id) == [key |-> key, bytes |-> Bytes(id)] \in store

ArchiveTyped ==
    /\ \A o, q \in store : o.key = q.key => o = q
    /\ instant \in 0 .. MaxInstant
    /\ \A s \in started : s.month \in Months
    /\ ups \in Seq(UploadWay)
    /\ queued \subseteq Job
    /\ writes \in [out : SUBSET Write, last : SUBSET Write, claims : SUBSET Write, spent : Nat]

\* An upload that was put is there under a name of its own, while its job is made and after.
UploadsKept ==
    /\ \A u \in DOMAIN ups : ups[u].at \in {"put", "jobInsert"} => ups[u].key \in StreamKeys(ups[u].capture)
    /\ \A u \in DOMAIN ups : ups[u].at = "jobInsert" => Stored(ups[u].key, ups[u].capture.id)
    /\ \A j \in queued : j.key \in StreamKeys(j.capture) /\ Stored(j.key, j.capture.id)

\* The last write granted to a key is what the key holds; what was claimed is held, by one.
WritesKept ==
    /\ \A w \in writes.last : Stored(w.key, w.id)
    /\ \A w \in writes.claims : Holds(w.key)
    /\ \A v, w \in writes.claims : v.key = w.key => v = w

ArchiveInv == ArchiveTyped /\ UploadsKept /\ WritesKept

\* A capture's names are its own, and no publisher's.
LEMMA NamesApart ==
    ASSUME NEW c \in Captures, NEW k \in StreamKeys(c)
    PROVE  k \notin Published /\ \A d \in Captures : k \in StreamKeys(d) => c = d
<1>1. PICK p \in scanned(c), m \in Months, i \in 0 .. MaxInstant :
        k = <<Seg("streams", "none"), Seg(m, "none"), Seg(p.gameId, "none"),
              [name |-> <<i, c.id, archiveSuffix(p)>>, ext |-> IF c.brp THEN "brp" ELSE "brepstream"]>>
  BY DEF StreamKeys
<1>2. k[1] = Seg("streams", "none") /\ k[4].name[2] = c.id
  BY <1>1
<1>3. Seg("streams", "none") # Seg("replays", "none")
  BY DEF Seg
<1>4. k \notin Published
  BY <1>2, <1>3, ArchiveAssumption
<1>5. ASSUME NEW d \in Captures, k \in StreamKeys(d) PROVE c = d
  <2>1. PICK q \in scanned(d), n \in Months, j \in 0 .. MaxInstant :
          k = <<Seg("streams", "none"), Seg(n, "none"), Seg(q.gameId, "none"),
                [name |-> <<j, d.id, archiveSuffix(q)>>, ext |-> IF d.brp THEN "brp" ELSE "brepstream"]>>
    BY <1>5 DEF StreamKeys
  <2>2. k[4].name[2] = d.id
    BY <2>1
  <2> QED
    BY <1>2, <2>2, ArchiveAssumption
<1> QED
  BY <1>4, <1>5

LEMMA ArchiveKey == ASSUME NEW c \in Captures, NEW k \in StreamKeys(c) PROVE k \in ArchiveKeys
BY DEF ArchiveKeys

\* A put leaves its own object, and every other as it was.
LEMMA PutIs ==
    ASSUME ArchiveTyped, NEW key, NEW bytes, store' = Put(key, bytes)
    PROVE  /\ \A o, q \in store' : o.key = q.key => o = q
           /\ [key |-> key, bytes |-> bytes] \in store'
           /\ \A o \in store : o.key # key => o \in store'
           /\ \A k : Holds(k) => \E o \in store' : o.key = k
<1> DEFINE new == [key |-> key, bytes |-> bytes]
<1>1. store' = {o \in store : o.key # key} \cup {new} /\ new.key = key
  BY DEF Put
<1>2. \A o, q \in store : o.key = q.key => o = q
  BY DEF ArchiveTyped
<1> HIDE DEF new
<1>3. \A o, q \in store' : o.key = q.key => o = q
  BY <1>1, <1>2
<1>4. new \in store' /\ \A o \in store : o.key # key => o \in store'
  BY <1>1
<1>5. \A k : Holds(k) => \E o \in store' : o.key = k
  BY <1>1, <1>4 DEF Holds
<1> QED
  BY <1>3, <1>4, <1>5 DEF new

\* So what was stored under another name still is.
LEMMA StillStored ==
    ASSUME NEW key, \A o \in store : o.key # key => o \in store', NEW k, k # key, NEW i, Stored(k, i)
    PROVE  [key |-> k, bytes |-> Bytes(i)] \in store'
BY DEF Stored

LEMMA ArchiveStarts == ArchiveInit => ArchiveInv
<1> SUFFICES ASSUME ArchiveInit PROVE ArchiveInv
  OBVIOUS
<1>1. ArchiveTyped
  BY ArchiveAssumption DEF ArchiveInit, ArchiveTyped
<1>2. UploadsKept /\ WritesKept
  BY DEF ArchiveInit, UploadsKept, WritesKept
<1> QED
  BY <1>1, <1>2 DEF ArchiveInv

\* What leaves the bucket and the writes alone: the uploads have to say only what is theirs.
LEMMA StoreAlone ==
    ASSUME ArchiveInv, UNCHANGED <<store, writes>>
    PROVE  WritesKept' /\ (\A k, i : Stored(k, i)' <=> Stored(k, i))
BY DEF ArchiveInv, WritesKept, Stored, Bytes, Holds

LEMMA UploadStarts == ASSUME ArchiveInv, NEW c \in Captures, UploadArrives(c) PROVE ArchiveInv'
<1> DEFINE new == [capture |-> c, at |-> "gameStartUnix", key |-> << >>]
<1>1. ups \in Seq(UploadWay) /\ ups' = Append(ups, new) /\ UNCHANGED <<store, started, queued, writes, instant>>
  BY DEF ArchiveInv, ArchiveTyped, UploadArrives
<1>2. new \in UploadWay /\ new.at = "gameStartUnix"
  BY DEF UploadWay, Ways, ArchiveKeys
<1> HIDE DEF new
<1>3. ups' \in Seq(UploadWay) /\ \A u \in DOMAIN ups' : ups'[u] = new \/ (u \in DOMAIN ups /\ ups'[u] = ups[u])
  BY <1>1, <1>2
<1>4. ArchiveTyped'
  BY <1>1, <1>3 DEF ArchiveInv, ArchiveTyped
<1>5. UploadsKept'
  BY <1>1, <1>2, <1>3, StoreAlone DEF ArchiveInv, UploadsKept
<1> QED
  BY <1>1, <1>4, <1>5, StoreAlone DEF ArchiveInv

\* An upload's next step, its capture the same, keeps the uploads if it is kept itself.
LEMMA UploadGoesOn ==
    ASSUME ups \in Seq(UploadWay), NEW u \in DOMAIN ups, NEW w \in UploadWay, ups' = [ups EXCEPT ![u] = w]
    PROVE  /\ ups' \in Seq(UploadWay) /\ DOMAIN ups' = DOMAIN ups /\ ups'[u] = w
           /\ \A v \in DOMAIN ups : v # u => ups'[v] = ups[v]
OBVIOUS

LEMMA MonthKnown == ASSUME ArchiveInv, NEW p PROVE
    LET known == {s.month : s \in {s \in started : s.gameId = p.gameId}}
    IN (IF known = {} THEN monthFolder(instant) ELSE CHOOSE m \in known : TRUE) \in Months
<1> DEFINE known == {s.month : s \in {s \in started : s.gameId = p.gameId}}
<1>1. \A m \in known : m \in Months
  BY DEF ArchiveInv, ArchiveTyped
<1>2. monthFolder(instant) \in Months
  BY DEF monthFolder, Months
<1> QED
  BY <1>1, <1>2

LEMMA SetTwice ==
    ASSUME NEW A, NEW B, NEW C, NEW r \in [capture : A, at : B, key : C], NEW a, NEW k,
           NEW q, q = [r EXCEPT !.key = k, !.at = a]
    PROVE  q = [capture |-> r.capture, at |-> a, key |-> k]
OBVIOUS

\* What one of the uploads on their way is.
LEMMA WayIs ==
    ASSUME ArchiveInv, NEW u \in DOMAIN ups
    PROVE  /\ ups \in Seq(UploadWay) /\ ups[u] \in UploadWay /\ ups[u].capture \in Captures /\ ups[u].key \in ArchiveKeys
           /\ \A a \in Ways : [ups EXCEPT ![u].at = a] = [ups EXCEPT ![u] = [capture |-> ups[u].capture, at |-> a, key |-> ups[u].key]]
           /\ \A a \in Ways, k \in ArchiveKeys :
                 [ups EXCEPT ![u].key = k, ![u].at = a] = [ups EXCEPT ![u] = [capture |-> ups[u].capture, at |-> a, key |-> k]]
<1>1. ups \in Seq(UploadWay)
  BY DEF ArchiveInv, ArchiveTyped
<1>2. ups[u] \in UploadWay
  BY <1>1, ElementOfSeq
<1>3. ups[u] = [capture |-> ups[u].capture, at |-> ups[u].at, key |-> ups[u].key]
      /\ ups[u].capture \in Captures /\ ups[u].key \in ArchiveKeys
  BY <1>2 DEF UploadWay
<1>4. \A a : [ups[u] EXCEPT !.at = a] = [capture |-> ups[u].capture, at |-> a, key |-> ups[u].key]
  BY <1>3
<1>5. ASSUME NEW a, NEW k
      PROVE  [ups[u] EXCEPT !.key = k, !.at = a] = [capture |-> ups[u].capture, at |-> a, key |-> k]
  <2> DEFINE r == ups[u]
             q == [r EXCEPT !.key = k, !.at = a]
  <2>1. r \in [capture : Captures, at : Ways, key : ArchiveKeys]
    BY <1>2 DEF UploadWay
  <2> HIDE DEF r
  <2>2. q = [r EXCEPT !.key = k, !.at = a]
    OBVIOUS
  <2> HIDE DEF q
  <2>3. q = [capture |-> r.capture, at |-> a, key |-> k]
    BY <2>1, <2>2, SetTwice
  <2> QED
    BY <2>3 DEF q, r
<1>6. \A a, k : [ups EXCEPT ![u].key = k, ![u].at = a] = [ups EXCEPT ![u] = [ups[u] EXCEPT !.key = k, !.at = a]]
  BY <1>1
<1> QED
  BY <1>1, <1>2, <1>3, <1>4, <1>5, <1>6

LEMMA OwnKey ==
    ASSUME NEW c, NEW p \in scanned(c), NEW month \in Months, instant \in 0 .. MaxInstant
    PROVE  streamKey(c, p, month) \in StreamKeys(c)
BY DEF streamKey, StreamKeys

\* The month is known: the put is next, under a name of the capture's own.
LEMMA StartKeeps == ASSUME ArchiveInv, NEW u \in DOMAIN ups, StartAnswers(u) PROVE ArchiveInv'
<1> DEFINE c == ups[u].capture
<1>1. c \in Captures /\ UNCHANGED <<store, started, queued, writes, instant>> /\ instant \in 0 .. MaxInstant /\ ups \in Seq(UploadWay)
  BY WayIs DEF ArchiveInv, ArchiveTyped, StartAnswers
<1>2. \E p \in scanned(c), month \in Months :
          ups' = [ups EXCEPT ![u].key = streamKey(c, p, month), ![u].at = "put"]
  <2>1. PICK p \in scanned(c) :
          LET known == {s.month : s \in {s \in started : s.gameId = p.gameId}}
              month == IF known = {} THEN monthFolder(instant) ELSE CHOOSE m \in known : TRUE
          IN ups' = [ups EXCEPT ![u].key = streamKey(c, p, month), ![u].at = "put"]
    BY Zenon DEF StartAnswers
  <2> DEFINE month == IF {s.month : s \in {s \in started : s.gameId = p.gameId}} = {} THEN monthFolder(instant)
                      ELSE CHOOSE m \in {s.month : s \in {s \in started : s.gameId = p.gameId}} : TRUE
  <2>2. month \in Months
    BY MonthKnown
  <2>3. ups' = [ups EXCEPT ![u].key = streamKey(c, p, month), ![u].at = "put"]
    BY <2>1
  <2> HIDE DEF month
  <2> QED
    BY <2>2, <2>3, ZenonT(40)
<1>3. PICK p \in scanned(c), month \in Months :
          ups' = [ups EXCEPT ![u].key = streamKey(c, p, month), ![u].at = "put"]
  BY <1>2
<1> DEFINE key == streamKey(c, p, month)
           w == [capture |-> c, at |-> "put", key |-> key]
<1>4. key \in StreamKeys(c)
  <2> HIDE DEF c
  <2> QED
    BY <1>1, <1>3, OwnKey
<1> HIDE DEF key
<1>5. w \in UploadWay /\ w.at = "put" /\ w.key = key /\ w.capture = c
  BY <1>1, <1>4, ArchiveKey DEF UploadWay, Ways
<1>6. ups' = [ups EXCEPT ![u] = w]
  BY <1>1, <1>3, <1>4, WayIs, ArchiveKey DEF Ways, key
<1> HIDE DEF w
<1>7. /\ ups' \in Seq(UploadWay) /\ DOMAIN ups' = DOMAIN ups /\ ups'[u] = w
      /\ \A v \in DOMAIN ups : v # u => ups'[v] = ups[v]
  BY <1>1, <1>5, <1>6, UploadGoesOn
<1>8. UploadsKept'
  BY <1>1, <1>4, <1>5, <1>7, StoreAlone DEF ArchiveInv, UploadsKept
<1> QED
  BY <1>1, <1>7, <1>8, StoreAlone DEF ArchiveInv, ArchiveTyped

\* The bytes are in, over nobody else's.
LEMMA PutKeeps == ASSUME ArchiveInv, NEW u \in DOMAIN ups, PutLands(u) PROVE ArchiveInv'
<1> DEFINE c == ups[u].capture
           key == ups[u].key
           w == [capture |-> c, at |-> "jobInsert", key |-> key]
<1>1. /\ ups \in Seq(UploadWay) /\ c \in Captures /\ key \in ArchiveKeys /\ key \in StreamKeys(c)
      /\ UNCHANGED <<started, queued, writes, instant>> /\ store' = Put(key, Bytes(c.id))
  BY WayIs DEF ArchiveInv, UploadsKept, PutLands
<1>2. w \in UploadWay /\ w.at = "jobInsert" /\ w.key = key /\ w.capture = c
  BY <1>1 DEF UploadWay, Ways
<1>3. ups' = [ups EXCEPT ![u] = w]
  BY WayIs DEF PutLands, Ways
<1> HIDE DEF w
<1>4. /\ ups' \in Seq(UploadWay) /\ DOMAIN ups' = DOMAIN ups /\ ups'[u] = w
      /\ \A v \in DOMAIN ups : v # u => ups'[v] = ups[v]
  BY <1>1, <1>2, <1>3, UploadGoesOn
<1> HIDE DEF c, key
<1>5. /\ \A o, q \in store' : o.key = q.key => o = q
      /\ [key |-> key, bytes |-> Bytes(c.id)] \in store'
      /\ \A o \in store : o.key # key => o \in store'
      /\ \A k : Holds(k) => \E o \in store' : o.key = k
  BY <1>1, PutIs DEF ArchiveInv
<1>6. ASSUME NEW d \in Captures, NEW k \in StreamKeys(d), Stored(k, d.id)
      PROVE  [key |-> k, bytes |-> Bytes(d.id)] \in store'
  <2>1. CASE k = key
    <3>1. c = d
      BY <1>1, <1>6, <2>1, NamesApart
    <3> QED
      BY <1>5, <2>1, <3>1
  <2>2. CASE k # key
    BY <1>5, <1>6, <2>2, StillStored
  <2> QED
    BY <2>1, <2>2
<1>7. UploadsKept'
  <2>1. \A v \in DOMAIN ups' : ups'[v].at \in {"put", "jobInsert"} => ups'[v].key \in StreamKeys(ups'[v].capture)
    BY <1>1, <1>2, <1>4 DEF ArchiveInv, UploadsKept
  <2>2. ASSUME NEW v \in DOMAIN ups, ups'[v].at = "jobInsert"
        PROVE  [key |-> ups'[v].key, bytes |-> Bytes(ups'[v].capture.id)] \in store'
    <3>1. CASE v = u
      BY <1>2, <1>4, <1>5, <3>1
    <3>2. CASE v # u
      <4>1. ups'[v] = ups[v] /\ ups[v].capture \in Captures /\ ups[v].at = "jobInsert"
        BY <1>4, <2>2, <3>2, WayIs
      <4>2. ups[v].key \in StreamKeys(ups[v].capture) /\ Stored(ups[v].key, ups[v].capture.id)
        BY <4>1 DEF ArchiveInv, UploadsKept
      <4> QED
        BY <1>6, <4>1, <4>2
    <3> QED
      BY <3>1, <3>2
  <2>3. ASSUME NEW j \in queued
        PROVE  j.key \in StreamKeys(j.capture) /\ [key |-> j.key, bytes |-> Bytes(j.capture.id)] \in store'
    <3>1. j.capture \in Captures
      BY DEF ArchiveInv, ArchiveTyped, Job
    <3> QED
      BY <1>6, <3>1 DEF ArchiveInv, UploadsKept
  <2> QED
    BY <1>1, <1>4, <2>1, <2>2, <2>3 DEF UploadsKept, Stored, Bytes
<1>8. WritesKept'
  <2>1. \A x \in Write : x.key # key
    BY <1>1, NamesApart DEF Write
  <2>2. \A x \in writes.last : [key |-> x.key, bytes |-> Bytes(x.id)] \in store'
    BY <1>5, <2>1, StillStored DEF ArchiveInv, ArchiveTyped, WritesKept
  <2>3. \A x \in writes.claims : \E o \in store' : o.key = x.key
    BY <1>5 DEF ArchiveInv, WritesKept
  <2> QED
    BY <1>1, <2>2, <2>3 DEF ArchiveInv, WritesKept, Stored, Bytes, Holds
<1> QED
  BY <1>1, <1>4, <1>5, <1>7, <1>8 DEF ArchiveInv, ArchiveTyped

\* A job is made of what was put, or never.
LEMMA JobKeeps == ASSUME ArchiveInv, NEW u \in DOMAIN ups, JobMade(u) \/ UploadDies(u) PROVE ArchiveInv'
<1> DEFINE c == ups[u].capture
           key == ups[u].key
           w == [capture |-> c, at |-> "answered", key |-> key]
           j == [key |-> key, capture |-> c]
<1>1. /\ ups \in Seq(UploadWay) /\ c \in Captures /\ key \in ArchiveKeys
      /\ UNCHANGED <<store, started, writes, instant>>
  BY WayIs DEF JobMade, UploadDies
<1>2. w \in UploadWay /\ w.at = "answered"
  BY <1>1 DEF UploadWay, Ways
<1>3. ups' = [ups EXCEPT ![u] = w]
  BY WayIs DEF JobMade, UploadDies, Ways
<1> HIDE DEF w
<1>4. /\ ups' \in Seq(UploadWay) /\ DOMAIN ups' = DOMAIN ups /\ ups'[u] = w
      /\ \A v \in DOMAIN ups : v # u => ups'[v] = ups[v]
  BY <1>1, <1>2, <1>3, UploadGoesOn
<1>5. queued' = queued \/ (queued' = queued \cup {j} /\ key \in StreamKeys(c) /\ Stored(key, c.id))
  BY DEF JobMade, UploadDies, ArchiveInv, UploadsKept
<1>6. j \in Job /\ j.key = key /\ j.capture = c
  BY <1>1 DEF Job
<1> HIDE DEF j, c, key
<1>7. UploadsKept'
  <2>1. \A v \in DOMAIN ups' : /\ ups'[v].at \in {"put", "jobInsert"} => ups'[v].key \in StreamKeys(ups'[v].capture)
                               /\ ups'[v].at = "jobInsert" => Stored(ups'[v].key, ups'[v].capture.id)
    BY <1>2, <1>4 DEF ArchiveInv, UploadsKept
  <2>2. \A i \in queued' : i.key \in StreamKeys(i.capture) /\ Stored(i.key, i.capture.id)
    BY <1>5, <1>6 DEF ArchiveInv, UploadsKept
  <2> QED
    BY <1>1, <2>1, <2>2, StoreAlone DEF UploadsKept
<1>8. queued' \subseteq Job
  BY <1>5, <1>6 DEF ArchiveInv, ArchiveTyped
<1> QED
  BY <1>1, <1>4, <1>7, <1>8, StoreAlone DEF ArchiveInv, ArchiveTyped

\* The mirror learns a start; an instant passes; a write arrives: nothing is in the bucket yet.
LEMMA OutsideKeeps ==
    ASSUME ArchiveInv, (\E g : MirrorLearns(g)) \/ InstantPasses
    PROVE  ArchiveInv'
<1>1. UNCHANGED <<store, ups, queued, writes>> /\ (\A s \in started' : s.month \in Months) /\ instant' \in 0 .. MaxInstant
  <2>1. CASE \E g : MirrorLearns(g)
    <3>1. PICK g : MirrorLearns(g)
      BY <2>1
    <3>2. monthFolder(0) \in Months
      BY DEF monthFolder, Months
    <3> QED
      BY <3>1, <3>2 DEF MirrorLearns, ArchiveInv, ArchiveTyped
  <2>2. CASE InstantPasses
    BY <2>2, ArchiveAssumption DEF InstantPasses, ArchiveInv, ArchiveTyped
  <2> QED
    BY <2>1, <2>2
<1>2. UploadsKept'
  BY <1>1, StoreAlone DEF ArchiveInv, UploadsKept
<1> QED
  BY <1>1, <1>2, StoreAlone DEF ArchiveInv, ArchiveTyped

LEMMA WriteStarts ==
    ASSUME ArchiveInv, NEW key \in Published, NEW ifAbsent \in BOOLEAN, WriteArrives(key, ifAbsent)
    PROVE  ArchiveInv'
<1> DEFINE w == [key |-> key, ifAbsent |-> ifAbsent, id |-> writes.spent + 1]
<1>1. UNCHANGED <<store, started, ups, queued, instant>>
      /\ writes \in [out : SUBSET Write, last : SUBSET Write, claims : SUBSET Write, spent : Nat]
  BY DEF WriteArrives, ArchiveInv, ArchiveTyped
<1>2. w \in Write
  BY <1>1 DEF Write
<1> HIDE DEF w
<1>3. PICK out \in SUBSET Write : writes' = [writes EXCEPT !.spent = @ + 1, !.out = out]
  <2>1. writes' = [writes EXCEPT !.spent = @ + 1, !.out = IF ifAbsent /\ Holds(key) THEN @ ELSE @ \cup {w}]
    BY DEF WriteArrives, w
  <2> QED
    BY <1>1, <1>2, <2>1
<1>4. writes' \in [out : SUBSET Write, last : SUBSET Write, claims : SUBSET Write, spent : Nat]
      /\ writes'.last = writes.last /\ writes'.claims = writes.claims
  <2>1. writes' = [out |-> out, last |-> writes.last, claims |-> writes.claims, spent |-> writes.spent + 1]
    BY <1>1, <1>3
  <2>2. writes.last \in SUBSET Write /\ writes.claims \in SUBSET Write /\ writes.spent + 1 \in Nat
    BY <1>1
  <2> QED
    BY <2>1, <2>2
<1>5. UploadsKept'
  BY <1>1 DEF ArchiveInv, UploadsKept, Stored, Bytes
<1>6. WritesKept'
  BY <1>1, <1>4 DEF ArchiveInv, WritesKept, Stored, Bytes, Holds
<1> QED
  BY <1>1, <1>4, <1>5, <1>6 DEF ArchiveInv, ArchiveTyped

\* R2 grants a write, or refuses a claim of what is there.
LEMMA WriteKeeps == ASSUME ArchiveInv, NEW w \in writes.out, WriteLands(w) PROVE ArchiveInv'
<1> DEFINE granted == ~(w.ifAbsent /\ Holds(w.key))
<1>1. UNCHANGED <<started, ups, queued, instant>> /\ w \in Write /\ w.key \in Published
      /\ writes \in [out : SUBSET Write, last : SUBSET Write, claims : SUBSET Write, spent : Nat]
  BY DEF WriteLands, ArchiveInv, ArchiveTyped, Write
<1>2. CASE ~granted
  <2>1. store' = store /\ writes' = [writes EXCEPT !.out = @ \ {w}, !.last = @, !.claims = @]
    BY <1>2 DEF WriteLands
  <2>2. writes' \in [out : SUBSET Write, last : SUBSET Write, claims : SUBSET Write, spent : Nat]
        /\ writes'.last = writes.last /\ writes'.claims = writes.claims
    BY <1>1, <2>1
  <2>3. UploadsKept'
    BY <1>1, <2>1 DEF ArchiveInv, UploadsKept, Stored, Bytes
  <2>4. WritesKept'
    BY <2>1, <2>2 DEF ArchiveInv, WritesKept, Stored, Bytes, Holds
  <2> QED
    BY <1>1, <2>1, <2>2, <2>3, <2>4 DEF ArchiveInv, ArchiveTyped
<1>3. CASE granted
  <2>1. store' = Put(w.key, Bytes(w.id))
    BY <1>3 DEF WriteLands
  <2>2. writes' = [writes EXCEPT !.out = @ \ {w}, !.last = {l \in @ : l.key # w.key} \cup {w},
                                 !.claims = IF w.ifAbsent THEN @ \cup {w} ELSE @]
    BY <1>3 DEF WriteLands
  <2>3. writes' \in [out : SUBSET Write, last : SUBSET Write, claims : SUBSET Write, spent : Nat]
        /\ writes'.last = {l \in writes.last : l.key # w.key} \cup {w}
        /\ writes'.claims = (IF w.ifAbsent THEN writes.claims \cup {w} ELSE writes.claims)
    BY <1>1, <2>2
  <2>4. /\ \A o, q \in store' : o.key = q.key => o = q
        /\ [key |-> w.key, bytes |-> Bytes(w.id)] \in store'
        /\ \A o \in store : o.key # w.key => o \in store'
        /\ \A k : Holds(k) => \E o \in store' : o.key = k
    BY <2>1, PutIs DEF ArchiveInv
  <2>5. ASSUME NEW d \in Captures, NEW k \in StreamKeys(d), Stored(k, d.id)
        PROVE  [key |-> k, bytes |-> Bytes(d.id)] \in store'
    <3>1. k # w.key
      BY <1>1, NamesApart
    <3> QED
      BY <2>4, <2>5, <3>1, StillStored
  <2>6. UploadsKept'
    <3>1. ASSUME NEW v \in DOMAIN ups, ups[v].at = "jobInsert"
          PROVE  [key |-> ups[v].key, bytes |-> Bytes(ups[v].capture.id)] \in store'
      <4>1. ups[v].capture \in Captures
        BY WayIs
      <4>2. ups[v].key \in StreamKeys(ups[v].capture) /\ Stored(ups[v].key, ups[v].capture.id)
        BY <3>1 DEF ArchiveInv, UploadsKept
      <4> QED
        BY <2>5, <4>1, <4>2
    <3>2. ASSUME NEW j \in queued
          PROVE  j.key \in StreamKeys(j.capture) /\ [key |-> j.key, bytes |-> Bytes(j.capture.id)] \in store'
      <4>1. j.capture \in Captures
        BY DEF ArchiveInv, ArchiveTyped, Job
      <4> QED
        BY <2>5, <4>1 DEF ArchiveInv, UploadsKept
    <3> QED
      BY <1>1, <3>1, <3>2 DEF ArchiveInv, UploadsKept, Stored, Bytes
  <2>7. WritesKept'
    <3>1. ASSUME NEW l \in writes'.last PROVE [key |-> l.key, bytes |-> Bytes(l.id)] \in store'
      <4>1. CASE l = w
        BY <2>4, <4>1
      <4>2. CASE l # w
        <5>1. l \in writes.last /\ l.key # w.key /\ Stored(l.key, l.id)
          BY <2>3, <4>2 DEF ArchiveInv, WritesKept
        <5> QED
          BY <2>4, <5>1, StillStored
      <4> QED
        BY <4>1, <4>2
    <3>2. \A v \in writes'.claims : \E o \in store' : o.key = v.key
      <4>1. [key |-> w.key, bytes |-> Bytes(w.id)].key = w.key
        OBVIOUS
      <4>2. \E o \in store' : o.key = w.key
        BY <2>4, <4>1
      <4> QED
        BY <2>3, <2>4, <4>2 DEF ArchiveInv, WritesKept
    <3>3. \A v, x \in writes'.claims : v.key = x.key => v = x
      BY <1>3, <2>3 DEF ArchiveInv, WritesKept
    <3> QED
      BY <3>1, <3>2, <3>3 DEF WritesKept, Stored, Bytes, Holds
  <2> QED
    BY <1>1, <2>3, <2>4, <2>6, <2>7 DEF ArchiveInv, ArchiveTyped
<1> QED
  BY <1>2, <1>3

LEMMA ArchiveStep == ArchiveInv /\ [ArchiveNext]_archiveVars => ArchiveInv'
<1> SUFFICES ASSUME ArchiveInv, [ArchiveNext]_archiveVars PROVE ArchiveInv'
  OBVIOUS
<1>1. CASE UNCHANGED archiveVars
  BY <1>1 DEF archiveVars, ArchiveInv, ArchiveTyped, UploadsKept, WritesKept, Stored, Bytes, Holds
<1>2. CASE ArchiveNext
  BY <1>2, UploadStarts, StartKeeps, PutKeeps, JobKeeps, OutsideKeeps, WriteStarts, WriteKeeps DEF ArchiveNext
<1> QED
  BY <1>1, <1>2

\* Whatever order uploads, their months, puts and jobs, and publishers' writes come in (POST
\* /api/upload, PUT /replays/...), the bucket holds what it is said to hold.
THEOREM ArchiveAlways == ArchiveSpec => []ArchiveInv
BY ArchiveStarts, ArchiveStep, PTL DEF ArchiveSpec

-----------------------------------------------------------------------------
(* What is read. *)

\* A stored object as R2 finds it: the one under its key.
LEMMA FoundIs ==
    ASSUME ArchiveTyped, NEW key, NEW id, Stored(key, id)
    PROVE  {o \in store : o.key = key} = {[key |-> key, bytes |-> Bytes(id)]}
<1> DEFINE new == [key |-> key, bytes |-> Bytes(id)]
<1>1. new \in store /\ new.key = key
  BY DEF Stored
<1> HIDE DEF new
<1>2. {o \in store : o.key = key} = {new}
  BY <1>1 DEF ArchiveTyped
<1> QED
  BY <1>2 DEF new

\* Whole.
LEMMA GetWhole ==
    ASSUME ArchiveTyped, NEW key, NEW id, Stored(key, id)
    PROVE  R2Get(key, {}) = [kind |-> "object", size |-> 3, range |-> {}, body |-> Bytes(id)]
<1> DEFINE o == [key |-> key, bytes |-> Bytes(id)]
           found == {x \in store : x.key = key}
<1>1. found = {o} /\ o.bytes = Bytes(id)
  BY FoundIs
<1>2. Len(Bytes(id)) = 3
  BY DEF Bytes
<1>3. (CHOOSE x \in found : TRUE) = o
  BY <1>1
<1> HIDE DEF o, found
<1>4. {[offset |-> r.offset, length |-> 0] : r \in {}} = {}
  OBVIOUS
<1> QED
  BY <1>1, <1>2, <1>3 DEF R2Get, found

\* From a first byte on, some or the rest; or the request starts past the end.
Got(key, range, first, len, id) ==
    R2Get(key, range) =
        IF first >= 3 THEN [kind |-> "threw"]
        ELSE [kind |-> "object", size |-> 3, range |-> {[offset |-> first, length |-> len]},
              body |-> SubSeq(Bytes(id), first + 1, first + len)]

LEMMA GetRange ==
    ASSUME ArchiveTyped, NEW key, NEW id, Stored(key, id), NEW first \in Nat, NEW len,
           NEW r, r = [offset |-> first] \/ \E n \in Nat \ {0} : r = [offset |-> first, length |-> n],
           len = IF "length" \in DOMAIN r /\ first + r.length < 3 THEN r.length ELSE 3 - first
    PROVE  Got(key, {r}, first, len, id)
<1> DEFINE o == [key |-> key, bytes |-> Bytes(id)]
           found == {x \in store : x.key = key}
<1>1. found = {o} /\ o.bytes = Bytes(id)
  BY FoundIs
<1>2. Len(Bytes(id)) = 3
  BY DEF Bytes
<1>3. (CHOOSE x \in found : TRUE) = o /\ (CHOOSE x \in {r} : TRUE) = r
  BY <1>1
<1>4. r.offset = first
  OBVIOUS
<1> HIDE DEF o, found
<1>5. {[offset |-> x.offset, length |-> IF "length" \in DOMAIN x /\ x.offset + x.length < Len(o.bytes) THEN x.length ELSE Len(o.bytes) - x.offset] : x \in {r}}
      = {[offset |-> first, length |-> len]}
  BY <1>1, <1>2, <1>4
<1>6. CASE first >= 3
  BY <1>1, <1>2, <1>3, <1>4, <1>6 DEF R2Get, found, Got
<1>7. CASE ~(first >= 3)
  <2>1. found # {} /\ ~(\E x \in found, y \in {r} : y.offset >= Len(x.bytes)) /\ {r} # {}
    BY <1>1, <1>2, <1>4, <1>7
  <2> DEFINE Rest(x, y) == IF "length" \in DOMAIN y /\ y.offset + y.length < Len(x.bytes) THEN y.length ELSE Len(x.bytes) - y.offset
  <2>2. R2Get(key, {r}) =
          [kind |-> "object", size |-> Len(o.bytes), range |-> {[offset |-> x.offset, length |-> Rest(o, x)] : x \in {r}},
           body |-> SubSeq(o.bytes, r.offset + 1, r.offset + Rest(o, r))]
    BY <1>3, <2>1 DEF R2Get, found
  <2>3. Rest(o, r) = len
    BY <1>1, <1>2, <1>4
  <2> QED
    BY <1>1, <1>2, <1>4, <1>5, <1>7, <2>2, <2>3 DEF Got
<1> QED
  BY <1>6, <1>7

\* The range asked for, if one of the forms that count; the proxy passes it on as it is.
LEMMA ParseIs ==
    ASSUME NEW h \in Ranges
    PROVE  \/ parseRange(h) = {}
           \/ /\ h.form = "from" /\ h.first \in {0, 1, 3}
              /\ parseRange(h) = {[offset |-> h.first]}
           \/ /\ h.form = "fromTo" /\ h.first \in {0, 2, 3} /\ h.last \in {1, 2, 9} /\ h.last >= h.first
              /\ parseRange(h) = {[offset |-> h.first, length |-> h.last - h.first + 1]}
<1>1. CASE h \in {[form |-> "none"], [form |-> "suffix"]}
  <2>1. h.form # "from" /\ h.form # "fromTo"
    BY <1>1
  <2> QED
    BY <2>1 DEF parseRange
<1>2. CASE h \in [form : {"from"}, first : {0, 1, 3}]
  BY <1>2 DEF parseRange
<1>3. CASE h \in [form : {"fromTo"}, first : {0, 2, 3}, last : {1, 2, 9}]
  <2>1. h.form = "fromTo" /\ h.first \in {0, 2, 3} /\ h.last \in {1, 2, 9}
    BY <1>3
  <2> QED
    BY <2>1 DEF parseRange
<1> QED
  BY <1>1, <1>2, <1>3 DEF Ranges

LEMMA RangeKept == ASSUME NEW h \in Ranges PROVE rangeOf(parseRange(h)) = parseRange(h)
<1>1. CASE parseRange(h) = {}
  BY <1>1 DEF rangeOf
<1>2. CASE parseRange(h) = {[offset |-> h.first]}
  <2> DEFINE r == [offset |-> h.first]
  <2>1. "length" \notin DOMAIN r /\ r.offset = h.first
    OBVIOUS
  <2> QED
    BY <1>2, <2>1 DEF rangeOf
<1>3. CASE parseRange(h) = {[offset |-> h.first, length |-> h.last - h.first + 1]}
  <2> DEFINE r == [offset |-> h.first, length |-> h.last - h.first + 1]
  <2>1. "length" \in DOMAIN r /\ r.offset = h.first /\ r.length = h.last - h.first + 1
    OBVIOUS
  <2> QED
    BY <1>3, <2>1 DEF rangeOf
<1> QED
  BY <1>1, <1>2, <1>3, ParseIs

\* serveR2's answer to a request of this range, once the bucket has given it an object.
Served(obj, parsed, req) ==
    CASE obj.kind = "null" -> [status |-> 404]
      [] obj.kind = "threw" -> [status |-> 500]
      [] obj.kind = "object" /\ req.method = "HEAD" -> [status |-> 200, length |-> obj.size, body |-> <<>>]
      [] obj.kind = "object" /\ req.method = "GET" /\ parsed # {} ->
             LET r == CHOOSE r \in obj.range : TRUE
             IN [status |-> 206, length |-> r.length, start |-> r.offset, of |-> obj.size, body |-> obj.body]
      [] OTHER -> [status |-> 200, length |-> obj.size, body |-> obj.body]

\* So a development server answers what production does.
LEMMA ProxyAgrees ==
    ASSUME NEW key, NEW h \in Ranges, NEW method
    PROVE  LET req == [method |-> method, range |-> h]
           IN  serveR2("prod", key, req) = serveR2("deployed", key, req)
<1> DEFINE req == [method |-> method, range |-> h]
<1>1. req.range = h
  OBVIOUS
<1>2. BucketGet("prod", key, parseRange(h)) = BucketGet("deployed", key, parseRange(h))
  BY RangeKept DEF BucketGet
<1> HIDE DEF req
<1>3. /\ serveR2("prod", key, req) = Served(BucketGet("prod", key, parseRange(req.range)), parseRange(req.range), req)
      /\ serveR2("deployed", key, req) = Served(BucketGet("deployed", key, parseRange(req.range)), parseRange(req.range), req)
  BY Zenon DEF serveR2, Served
<1> QED
  BY <1>1, <1>2, <1>3 DEF req

LEMMA ServedWhole ==
    ASSUME ArchiveTyped, NEW key, NEW id, Stored(key, id), NEW h, parseRange(h) = {}
    PROVE  /\ serveR2("deployed", key, [method |-> "GET", range |-> h]) = [status |-> 200, length |-> 3, body |-> Bytes(id)]
           /\ serveR2("deployed", key, [method |-> "HEAD", range |-> h]) = [status |-> 200, length |-> 3, body |-> << >>]
<1> DEFINE get == [method |-> "GET", range |-> h]
           head == [method |-> "HEAD", range |-> h]
           obj == [kind |-> "object", size |-> 3, range |-> {}, body |-> Bytes(id)]
<1>1. get.range = h /\ get.method = "GET" /\ head.range = h /\ head.method = "HEAD"
  OBVIOUS
<1>2. BucketGet("deployed", key, parseRange(h)) = obj
  BY GetWhole DEF BucketGet
<1>3. obj.kind = "object" /\ obj.size = 3 /\ obj.body = Bytes(id)
  OBVIOUS
<1> HIDE DEF get, head, obj
<1>4. serveR2("deployed", key, get) = [status |-> 200, length |-> 3, body |-> Bytes(id)]
  BY <1>1, <1>2, <1>3 DEF serveR2
<1>5. serveR2("deployed", key, head) = [status |-> 200, length |-> 3, body |-> << >>]
  BY <1>1, <1>2, <1>3 DEF serveR2
<1> QED
  BY <1>4, <1>5 DEF get, head

\* A range of the form that counts: its first byte, and how many bytes of the three it reaches.
Asks(h, first, len) ==
    /\ first \in 0 .. 3 /\ h.first = first
    /\ first < 3 => len \in 1 .. 3 - first
    /\ h.form = "fromTo" /\ h.last < 3 /\ first < 3 => len = h.last - first + 1
    /\ \/ parseRange(h) = {[offset |-> first]} /\ len = 3 - first
       \/ \E n \in Nat \ {0} : /\ parseRange(h) = {[offset |-> first, length |-> n]}
                               /\ len = IF first + n < 3 THEN n ELSE 3 - first

LEMMA AsksAlways ==
    ASSUME NEW h \in Ranges, parseRange(h) # {}
    PROVE  \E first, len : Asks(h, first, len)
<1> DEFINE first == h.first
           last == h.last
<1>1. CASE h.form = "from" /\ first \in {0, 1, 3} /\ parseRange(h) = {[offset |-> first]}
  <2>1. h.form # "fromTo" /\ h.first = first
    BY <1>1
  <2> HIDE DEF first
  <2>2. Asks(h, first, 3 - first)
    BY <1>1, <2>1 DEF Asks
  <2> QED
    BY <2>2
<1>2. CASE /\ h.form = "fromTo" /\ first \in {0, 2, 3} /\ last \in {1, 2, 9} /\ last >= first
           /\ parseRange(h) = {[offset |-> first, length |-> last - first + 1]}
  <2> DEFINE n == last - first + 1
             len == IF first + n < 3 THEN n ELSE 3 - first
  <2>1. h.first = first /\ h.last = last
    OBVIOUS
  <2> HIDE DEF first, last
  <2>2. /\ n \in Nat \ {0} /\ first \in 0 .. 3 /\ (first < 3 => len \in 1 .. 3 - first)
        /\ last < 3 /\ first < 3 => len = last - first + 1
    BY <1>2
  <2>3. parseRange(h) = {[offset |-> first, length |-> n]} /\ len = IF first + n < 3 THEN n ELSE 3 - first
    BY <1>2
  <2> HIDE DEF n, len
  <2>4. Asks(h, first, len)
    BY <2>1, <2>2, <2>3 DEF Asks
  <2> QED
    BY <2>4
<1> QED
  BY <1>1, <1>2, ParseIs

LEMMA GetAsked ==
    ASSUME ArchiveTyped, NEW key, NEW id, Stored(key, id), NEW h, NEW first, NEW len, Asks(h, first, len)
    PROVE  Got(key, parseRange(h), first, len, id)
<1>1. first \in Nat
  BY DEF Asks
<1>2. CASE parseRange(h) = {[offset |-> first]} /\ len = 3 - first
  <2> DEFINE r == [offset |-> first]
  <2>1. "length" \notin DOMAIN r /\ r = [offset |-> first] /\ parseRange(h) = {r}
    BY <1>2
  <2> HIDE DEF r
  <2>2. len = IF "length" \in DOMAIN r /\ first + r.length < 3 THEN r.length ELSE 3 - first
    BY <1>2, <2>1
  <2> QED
    <3>1. Got(key, {r}, first, len, id)
      BY <1>1, <2>1, <2>2, GetRange
    <3> QED
      BY <2>1, <3>1
<1>3. ASSUME NEW n \in Nat \ {0}, parseRange(h) = {[offset |-> first, length |-> n]}, len = IF first + n < 3 THEN n ELSE 3 - first
      PROVE  Got(key, parseRange(h), first, len, id)
  <2> DEFINE r == [offset |-> first, length |-> n]
  <2>1. "length" \in DOMAIN r /\ r.length = n /\ r = [offset |-> first, length |-> n] /\ parseRange(h) = {r}
    BY <1>3
  <2> HIDE DEF r
  <2>2. len = IF "length" \in DOMAIN r /\ first + r.length < 3 THEN r.length ELSE 3 - first
    BY <1>3, <2>1
  <2> QED
    BY <1>1, <2>1, <2>2, GetRange
<1> QED
  BY <1>2, <1>3 DEF Asks

\* The answer to it.
Answered(a, method, first, len, id) ==
    /\ first >= 3 => a.status = 500
    /\ first < 3 /\ method = "HEAD" => a.status = 200
    /\ first < 3 /\ method = "GET" => /\ a.status = 206 /\ a.length = len /\ a.start = first
                                     /\ a.body = SubSeq(Bytes(id), first + 1, first + len)

LEMMA ServedRange ==
    ASSUME ArchiveTyped, NEW key, NEW id, Stored(key, id), NEW h, NEW first, NEW len, Asks(h, first, len),
           NEW method \in {"GET", "HEAD"}
    PROVE  Answered(serveR2("deployed", key, [method |-> method, range |-> h]), method, first, len, id)
<1> DEFINE req == [method |-> method, range |-> h]
           part == [offset |-> first, length |-> len]
           obj == [kind |-> "object", size |-> 3, range |-> {part}, body |-> SubSeq(Bytes(id), first + 1, first + len)]
           threw == [kind |-> "threw"]
<1>1. req.range = h /\ req.method = method
  OBVIOUS
<1>2. BucketGet("deployed", key, parseRange(h)) = (IF first >= 3 THEN threw ELSE obj) /\ parseRange(h) # {}
  <2>1. R2Get(key, parseRange(h)) = IF first >= 3 THEN threw ELSE obj
    BY GetAsked DEF Got
  <2> QED
    BY <2>1 DEF BucketGet, Asks
<1>3. /\ obj.kind = "object" /\ obj.size = 3 /\ obj.range = {part} /\ obj.body = SubSeq(Bytes(id), first + 1, first + len)
      /\ threw.kind = "threw" /\ part.offset = first /\ part.length = len
      /\ (CHOOSE x \in obj.range : TRUE) = part
  OBVIOUS
<1> HIDE DEF req, obj, part, threw
<1> DEFINE g == BucketGet("deployed", key, parseRange(req.range))
           parsed == parseRange(req.range)
<1>4. serveR2("deployed", key, req) = Served(g, parsed, req)
  BY Zenon DEF serveR2, Served
<1>5. g = (IF first >= 3 THEN threw ELSE obj) /\ parsed # {}
  BY <1>1, <1>2
<1> HIDE DEF g, parsed
<1>6. Served(g, parsed, req) =
        IF first >= 3 THEN [status |-> 500]
        ELSE IF method = "HEAD" THEN [status |-> 200, length |-> 3, body |-> << >>]
        ELSE [status |-> 206, length |-> len, start |-> first, of |-> 3, body |-> SubSeq(Bytes(id), first + 1, first + len)]
  <2>1. CASE first >= 3
    BY <1>1, <1>3, <1>5, <2>1 DEF Served
  <2>2. CASE ~(first >= 3) /\ method = "HEAD"
    BY <1>1, <1>3, <1>5, <2>2 DEF Served
  <2>3. CASE ~(first >= 3) /\ method = "GET"
    <3>1. g = obj
      BY <1>5, <2>3
    <3>2. (CHOOSE x \in g.range : TRUE) = part /\ g.kind = "object" /\ g.size = 3
          /\ g.body = SubSeq(Bytes(id), first + 1, first + len)
      BY <1>3, <3>1, Zenon
    <3> DEFINE x == CHOOSE x \in g.range : TRUE
    <3>3. Served(g, parsed, req) = [status |-> 206, length |-> x.length, start |-> x.offset, of |-> g.size, body |-> g.body]
      BY <1>1, <1>5, <2>3, <3>2 DEF Served
    <3> QED
      BY <1>3, <2>3, <3>2, <3>3
  <2> QED
    BY <2>1, <2>2, <2>3
<1> DEFINE a == Served(g, parsed, req)
<1>7. Answered(a, method, first, len, id)
  <2>0. first \in Nat
    BY DEF Asks
  <2>1. CASE first >= 3
    <3>1. a.status = 500
      BY <1>6, <2>1
    <3> QED
      BY <2>0, <2>1, <3>1 DEF Answered
  <2>2. CASE first < 3 /\ method = "HEAD"
    <3>1. a.status = 200
      BY <1>6, <2>0, <2>2
    <3> QED
      BY <2>0, <2>2, <3>1 DEF Answered
  <2>3. CASE first < 3 /\ method = "GET"
    <3> DEFINE body == SubSeq(Bytes(id), first + 1, first + len)
    <3>0. a = [status |-> 206, length |-> len, start |-> first, of |-> 3, body |-> body]
      BY <1>6, <2>0, <2>3
    <3> HIDE DEF a, body
    <3>1. a.status = 206 /\ a.length = len /\ a.start = first /\ a.body = body
      BY <3>0
    <3> USE DEF body
    <3> QED
      BY <2>0, <2>3, <3>1 DEF Answered
  <2> QED
    BY <2>0, <2>1, <2>2, <2>3
<1> QED
  BY <1>4, <1>7 DEF req

\* A published key is never taken for a page.
LEMMA NotAPage ==
    ASSUME NEW key \in Published, NEW where, NEW req
    PROVE  Replays(where, key, req) = serveR2(where, key, req)
BY ArchiveAssumption DEF Replays, isReplayFolder

\* An answer that keeps its word: all the bytes, or exactly those it names.
Fits(a, h, method, all) ==
    /\ a.status \in {200, 206} /\ method = "GET" => Len(a.body) = a.length
    /\ a.status = 200 /\ method = "GET" => a.body = all
    /\ a.status = 206 => /\ a.start = h.first /\ a.body = SubSeq(all, a.start + 1, a.start + a.length)
                         /\ h.form = "fromTo" /\ h.last < 3 => a.length = h.last - h.first + 1
    /\ a.status = 500 => h.first >= Len(all)

\* It follows from the answer's status and what came with it.
LEMMA FitsAll ==
    ASSUME NEW a, NEW h, NEW method, NEW all, a.status = 200, method = "GET" => a.body = all /\ a.length = Len(all)
    PROVE  Fits(a, h, method, all)
<1>1. a.status # 206 /\ a.status # 500
  OBVIOUS
<1> QED
  BY <1>1 DEF Fits

LEMMA FitsNone ==
    ASSUME NEW a, NEW h, NEW method, NEW all, a.status = 500, h.first >= Len(all)
    PROVE  Fits(a, h, method, all)
<1>1. a.status \notin {200, 206}
  OBVIOUS
<1> QED
  BY <1>1 DEF Fits

LEMMA FitsPart ==
    ASSUME NEW a, NEW h, NEW method \in {"GET", "HEAD"}, NEW first, NEW len, NEW id, Asks(h, first, len), Answered(a, method, first, len, id)
    PROVE  Fits(a, h, method, Bytes(id))
<1> DEFINE bytes == Bytes(id)
           part == SubSeq(bytes, first + 1, first + len)
<1>1. first \in 0 .. 3 /\ h.first = first /\ (first < 3 => len \in 1 .. 3 - first)
  BY DEF Asks
<1>2. Len(bytes) = 3 /\ bytes \in Seq({<<id, 1>>, <<id, 2>>, <<id, 3>>})
  BY DEF Bytes
<1>3. /\ first >= 3 => a.status = 500
      /\ first < 3 /\ method = "HEAD" => a.status = 200
      /\ first < 3 /\ method = "GET" => a.status = 206 /\ a.length = len /\ a.start = first /\ a.body = part
  BY DEF Answered
<1>4. h.form = "fromTo" /\ h.last < 3 /\ first < 3 => len = h.last - first + 1
  BY DEF Asks
<1> HIDE DEF bytes
<1>5. first < 3 => Len(part) = len
  BY <1>1, <1>2
<1>6. CASE first >= 3
  <2>1. a.status = 500 /\ h.first >= Len(bytes)
    BY <1>1, <1>2, <1>3, <1>6
  <2> QED
    BY <2>1, FitsNone DEF bytes
<1>7. CASE first < 3 /\ method = "HEAD"
  <2>1. a.status = 200 /\ method # "GET"
    BY <1>3, <1>7
  <2> QED
    BY <2>1, FitsAll
<1>8. CASE first < 3 /\ method = "GET"
  <2>1. a.status = 206 /\ a.length = len /\ a.start = first /\ a.body = part
    BY <1>3, <1>8
  <2> HIDE DEF part
  <2>2. Len(a.body) = a.length /\ (h.form = "fromTo" /\ h.last < 3 => a.length = h.last - h.first + 1)
    BY <1>1, <1>4, <1>5, <1>8, <2>1
  <2>3. a.body = SubSeq(bytes, a.start + 1, a.start + a.length) /\ a.start = h.first
    BY <1>1, <2>1 DEF part
  <2>4. a.status # 200 /\ a.status # 500
    BY <2>1
  <2> QED
    BY <2>2, <2>3, <2>4, Zenon DEF Fits, bytes
<1> QED
  BY <1>1, <1>6, <1>7, <1>8

LEMMA FitsWhole ==
    ASSUME ArchiveTyped, NEW key, NEW id, Stored(key, id), NEW h, parseRange(h) = {}, NEW method \in {"GET", "HEAD"}
    PROVE  Fits(serveR2("deployed", key, [method |-> method, range |-> h]), h, method, Bytes(id))
<1> DEFINE a == serveR2("deployed", key, [method |-> method, range |-> h])
           bytes == Bytes(id)
<1>1. Len(bytes) = 3
  BY DEF Bytes
<1>2. a = [status |-> 200, length |-> 3, body |-> bytes] \/ (method # "GET" /\ a = [status |-> 200, length |-> 3, body |-> << >>])
  <2>1. CASE method = "GET"
    <3>1. a = serveR2("deployed", key, [method |-> "GET", range |-> h])
      BY <2>1
    <3> HIDE DEF a
    <3>2. a = [status |-> 200, length |-> 3, body |-> bytes]
      BY <3>1, ServedWhole, ZenonT(40)
    <3> HIDE DEF bytes
    <3> QED
      BY <3>2, Zenon
  <2>2. CASE method = "HEAD"
    <3>1. a = serveR2("deployed", key, [method |-> "HEAD", range |-> h]) /\ method # "GET"
      BY <2>2
    <3> HIDE DEF a, bytes
    <3>2. a = [status |-> 200, length |-> 3, body |-> << >>]
      BY <3>1, ServedWhole, ZenonT(40)
    <3> QED
      BY <3>1, <3>2, Zenon
  <2> QED
    BY <2>1, <2>2
<1> HIDE DEF a, bytes
<1>3. a.status = 200 /\ (method = "GET" => a.body = bytes /\ a.length = Len(bytes))
  BY <1>1, <1>2
<1>4. Fits(a, h, method, bytes)
  BY <1>3, FitsAll
<1> QED
  BY <1>4 DEF a, bytes

LEMMA FitsAlways ==
    ASSUME ArchiveTyped, NEW key, NEW id, Stored(key, id), NEW h \in Ranges, NEW method \in {"GET", "HEAD"}
    PROVE  Fits(serveR2("deployed", key, [method |-> method, range |-> h]), h, method, Bytes(id))
<1>1. CASE parseRange(h) = {}
  BY <1>1, FitsWhole, Zenon
<1>2. CASE parseRange(h) # {}
  <2>1. PICK first, len : Asks(h, first, len)
    BY <1>2, AsksAlways
  <2>2. Answered(serveR2("deployed", key, [method |-> method, range |-> h]), method, first, len, id)
    BY <2>1, ServedRange, Zenon
  <2> QED
    BY <2>1, <2>2, FitsPart, Zenon
<1> QED
  BY <1>1, <1>2

\* The last granted write's bytes, all of them or exactly those the answer names.
LEMMA ReadsBack ==
    ASSUME ArchiveInv, NEW w \in writes.last, NEW h \in Ranges, NEW method \in {"GET", "HEAD"}
    PROVE  LET req == [method |-> method, range |-> h]
               a == Replays("deployed", w.key, req)
           IN  Replays("prod", w.key, req) = a /\ Fits(a, h, method, Bytes(w.id))
<1> DEFINE req == [method |-> method, range |-> h]
           a == Replays("deployed", w.key, req)
<1>1. w.key \in Published /\ ArchiveTyped /\ Stored(w.key, w.id)
  BY DEF ArchiveInv, ArchiveTyped, WritesKept, Write
<1>2. a = serveR2("deployed", w.key, req) /\ Replays("prod", w.key, req) = serveR2("prod", w.key, req)
  BY <1>1, NotAPage, Zenon
<1>3. serveR2("prod", w.key, req) = serveR2("deployed", w.key, req)
  BY ProxyAgrees, Zenon
<1>4. Fits(serveR2("deployed", w.key, [method |-> method, range |-> h]), h, method, Bytes(w.id))
  BY <1>1, FitsAlways, Zenon
<1> HIDE DEF a, req
<1>5. Fits(a, h, method, Bytes(w.id))
  BY <1>2, <1>4 DEF req
<1> QED
  BY <1>2, <1>3, <1>5 DEF a, req

\* The name of a job's archive leads to it, and says what it is.
LEMMA ArchivedOwn == ArchiveInv => ArchivedIsOwn
<1> SUFFICES ASSUME ArchiveInv, NEW j \in queued
    PROVE  /\ Streams("deployed", j.key, Whole) = [status |-> 200, length |-> 3, body |-> Bytes(j.capture.id)]
           /\ \E p \in scanned(j.capture) : j.key[3] = Seg(p.gameId, "none") /\ j.key[4].name[3] = archiveSuffix(p)
           /\ j.key[4].ext = "brp" <=> j.capture.brp
  BY DEF ArchivedIsOwn
<1>1. ArchiveTyped /\ j.capture \in Captures /\ j.key \in StreamKeys(j.capture) /\ Stored(j.key, j.capture.id)
  BY DEF ArchiveInv, ArchiveTyped, UploadsKept, Job
<1>2. PICK p \in scanned(j.capture), m \in Months, i \in 0 .. MaxInstant :
        j.key = <<Seg("streams", "none"), Seg(m, "none"), Seg(p.gameId, "none"),
                  [name |-> <<i, j.capture.id, archiveSuffix(p)>>, ext |-> IF j.capture.brp THEN "brp" ELSE "brepstream"]>>
  BY <1>1 DEF StreamKeys
<1>3. Len(j.key) = 4 /\ j.key[2] = Seg(m, "none") /\ j.key[3] = Seg(p.gameId, "none")
      /\ j.key[4].name[3] = archiveSuffix(p) /\ j.key[4].ext = IF j.capture.brp THEN "brp" ELSE "brepstream"
  BY <1>2
<1>4. isReplayFolder(j.key[2])
  BY <1>3 DEF isReplayFolder, Seg, Months
<1>5. Streams("deployed", j.key, Whole) = serveR2("deployed", j.key, Whole)
  BY <1>4 DEF Streams
<1>6. parseRange([form |-> "none"]) = {}
  BY DEF parseRange
<1>7. serveR2("deployed", j.key, Whole) = [status |-> 200, length |-> 3, body |-> Bytes(j.capture.id)]
  BY <1>1, <1>6, ServedWhole, ZenonT(40) DEF Whole
<1>8. j.key[4].ext = "brp" <=> j.capture.brp
  BY <1>1, <1>3, ArchiveAssumption
<1> QED
  BY <1>3, <1>5, <1>7, <1>8

\* The proxy refuses what writes, and an install's queue.
LEMMA RefusesWrites ==
    \A route \in DOMAIN Routes :
        Refused("prod", route) <=>
            route = "installQueue" \/ Routes[route] \cap {"gamesInsert", "jobsOffer", "jobClaim", "jobUpdate", "setView",
                "upsert", "jobSetDisabled", "put", "jobInsert", "resimRequest", "jobRetry"} # {}
BY DEF Refused, Routes, READ_METHODS

LEMMA ReadsHold == ArchiveInv => ReadAsWritten
BY ArchivedOwn, ReadsBack, RefusesWrites DEF ReadAsWritten, ArchiveInv, WritesKept, Fits

\* An upload is archived as its own and a published key is read back as it was written.
THEOREM ArchiveReadsAsWritten == ArchiveSpec => []ReadAsWritten
BY ArchiveAlways, ReadsHold, PTL
=============================================================================
