------------------------------ MODULE Playback ------------------------------
(***************************************************************************)
(* What the map shows while a replay plays: the capture's samples as the   *)
(* writer codes them, chunk by chunk, and as the viewer decodes them from  *)
(* pieces that arrive in any order; the economy filed under its frames,    *)
(* the army read off each sample for the timeline, the remembered          *)
(* structures and the damage flashes that follow the playhead.             *)
(* One axis stands for the two of the map, "build" for the columns that    *)
(* older streams lack, and a column's value is a number.                   *)
(***************************************************************************)
EXTENDS Integers, Sequences, FiniteSets, SequencesExt

CONSTANTS
    Games,          \* captures: [ver, samples (sequences of [f, units, res]), deaths ({[f, id]})]
    ChunkFrames,    \* samples per chunk
    SampleEvery,    \* frames between two samples of a capture that skips none
    Structures,     \* the defs with a footprint
    ArmyDefs,       \* the defs that are armed, mobile and no commander
    BUILD_DONE,
    Window,         \* INCOME_WINDOW_SEC in samples
    DESPIKE_SAMPLES

VARIABLES
    game,           \* the capture that is open
    keysIn,           \* how many keyframes the stream has delivered
    fetched,        \* chunks whose deltas have arrived, and those still waiting for their key
    frames,         \* sample index -> {decoded sample}, {} until it streamed in
    resByFrame,     \* {frame -> economy}; {} until the economy has landed
    stripLead,      \* sample index -> {the two armies}, {} while unread
    ghostIndex,     \* the keyframe sightings of structures, in arrival order
    head            \* the playhead: idx, dispIdx (0: nothing), flashSeenIdx, playing, ghosts, flashes,
                    \* and the sample nextU and nextPosMap were taken from (0: none)

playVars == <<game, keysIn, fetched, frames, resByFrame, stripLead, ghostIndex, head>>

Samples == 1..Len(game.samples)
Chunks == 1..((Len(game.samples) + ChunkFrames - 1) \div ChunkFrames)
Start(i) == (i - 1) * ChunkFrames + 1
EndOf(i) == IF i * ChunkFrames <= Len(game.samples) THEN i * ChunkFrames ELSE Len(game.samples)
chunkOf(k) == (k - 1) \div ChunkFrames + 1
-----------------------------------------------------------------------------
(* The frame codec, both sides.                                            *)

Columns == {"def", "team", "x", "hp", "dv", "build"}
Coded(ver) == IF ver >= 5 THEN Columns ELSE Columns \ {"build"}

\* What an unchanged unit is one sample later, and the predictor of every column.
advance(u) == [u EXCEPT !["x"] = @ + u["dv"]]

\* One frame of the writer: the dead, and the columns of the units the prediction misses.
encodeFrame(prev, was, s, ver) ==
    LET Predicted(id, c) == IF id \in DOMAIN prev THEN advance(prev[id])[c] ELSE 0
        changed == {id \in DOMAIN s.units : id \notin DOMAIN prev \/ advance(prev[id]) # s.units[id]}
    IN [df |-> s.f - was, dead |-> DOMAIN prev \ DOMAIN s.units,
        changed |-> [id \in changed |-> [c \in Coded(ver) |-> s.units[id][c] - Predicted(id, c)]]]

\* flushChunk: a chunk starts from nothing, so its first frame is a keyframe.
Keyframe(g, i) == encodeFrame(<<>>, 0, g.samples[Start(i)], g.ver)
Delta(g, k) == encodeFrame(g.samples[k - 1].units, g.samples[k - 1].f, g.samples[k], g.ver)
Deltas(g, i) == [n \in 1..(EndOf(i) - Start(i)) |-> Delta(g, Start(i) + n)]

\* One frame of the viewer: survivors advance, the changed are rebuilt column by column.
decodeFrame(prev, r, ver) ==
    LET Column(id, c) ==
            IF c \notin Coded(ver) THEN IF id \in DOMAIN prev.units THEN prev.units[id][c] ELSE BUILD_DONE
            ELSE r.changed[id][c] + IF id \in DOMAIN prev.units THEN advance(prev.units[id])[c] ELSE 0
    IN [f |-> prev.f + r.df,
        units |-> [id \in (DOMAIN prev.units \ r.dead) \cup DOMAIN r.changed |->
            IF id \in DOMAIN r.changed THEN [c \in Columns |-> Column(id, c)]
            ELSE advance(prev.units[id])]]

\* A stream decoded from a seed: the frames after it, each the next one's state.
decodeFrames(recs, seed, ver) ==
    FoldLeft(LAMBDA out, r : Append(out, decodeFrame(IF out = <<>> THEN seed ELSE Last(out), r, ver)),
             <<>>, recs)

NoSeed == [f |-> 0, units |-> <<>>]
-----------------------------------------------------------------------------
(* The economy: coded per sample in tenths, filed under the sample's frame. *)

CodedRes(g, k) ==
    LET Earlier(t) == {n \in Start(chunkOf(k))..(k - 1) : t \in DOMAIN g.samples[n].res}
        Before(t) == IF Earlier(t) = {} THEN 0 ELSE g.samples[Max(Earlier(t))].res[t]
    IN [t \in DOMAIN g.samples[k].res |-> g.samples[k].res[t] - Before(t)]

Tenth(q) == (q + 5) \div 10

\* The records of chunk i; a sample that recorded none is {}.
decodeEconomy(g, i) ==
    LET Read(acc, r) ==
            LET q == [t \in DOMAIN r |-> r[t] + IF t \in DOMAIN acc.q THEN acc.q[t] ELSE 0] @@ acc.q
            IN [q |-> q, out |-> Append(acc.out, {[t \in DOMAIN x |-> Tenth(q[t])] : x \in {r} \ {<<>>}})]
    IN FoldLeft(Read, [q |-> <<>>, out |-> <<>>],
                [n \in 1..(EndOf(i) - Start(i) + 1) |-> CodedRes(g, Start(i) + n - 1)]).out

\* File chunk i's records under the frames of its samples decoded so far.
publishEconomy(res, frs, i) ==
    LET recs == decodeEconomy(game, i)
        filed == {n \in DOMAIN recs : recs[n] # {} /\ frs[Start(i) + n - 1] # {}}
        Frame(n) == (CHOOSE fr \in frs[Start(i) + n - 1] : TRUE).f
    IN {[f \in {Frame(n) : n \in filed} |->
            CHOOSE r \in recs[CHOOSE n \in filed : Frame(n) = f] : TRUE] @@ m : m \in res}

\* The largest income a team held over the window ending at frame f, one-sample bursts left out.
incomePeak(f, teams) ==
    LET At(k) == f - k * SampleEvery
        Read(t, k) == \E m \in resByFrame : At(k) \in DOMAIN m /\ t \in DOMAIN m[At(k)]
        Value(t, k) == (CHOOSE m \in resByFrame : TRUE)[At(k)][t]
        Oldest == Window - 1 + (DESPIKE_SAMPLES - 1)
        History(t, k) == {j \in k..Oldest : Read(t, j) /\ Cardinality({n \in k..j : Read(t, n)}) <= DESPIKE_SAMPLES}
    IN Max({0} \cup {Min({Value(t, j) : j \in History(t, k)}) :
                        <<t, k>> \in {<<t, k>> \in teams \X (0..(Window - 1)) : Read(t, k)}})
-----------------------------------------------------------------------------
(* What is drawn at the playhead.                                          *)

Only(opt) == CHOOSE x \in opt : TRUE

frameNumAt(k) == game.samples[Start(chunkOf(k))].f + (k - Start(chunkOf(k))) * SampleEvery

diedBetween(id, f0, f1) == \E d \in game.deaths : d.id = id /\ d.f > f0 /\ d.f <= f1

\* The structures last sighted before the displayed frame, absent from it, not seen to die.
recomputeGhosts(frs, sightings, dispIdx) ==
    LET curF == frameNumAt(dispIdx)
        Seen(id) == {n \in DOMAIN sightings : sightings[n].id = id /\ sightings[n].f <= curF}
        Latest(id) == sightings[Max(Seen(id))]
        absent == {s.id : s \in {s \in Range(sightings) : s.f <= curF}} \ DOMAIN Only(frs[dispIdx]).units
    IN IF dispIdx = 0 \/ frs[dispIdx] = {} THEN {}
       ELSE {Latest(id) : id \in {id \in absent : ~diedBetween(id, Latest(id).f, curF)}}

\* The sample after the one displayed, if it is in.
buildNextPosMap(S) ==
    LET k == S.head.dispIdx + 1 IN IF k \in Samples /\ S.frames[k] # {} THEN k ELSE 0

\* A unit that lost health between the two samples, unless it is a falling wreck.
Hurt(before, now) ==
    {id \in DOMAIN now \cap DOMAIN before : now[id]["hp"] > 0 /\ now[id]["hp"] < before[id]["hp"]}

\* The displayed frame has changed: ghosts anew, flashes for a single step while playing.
noteFrameAdvance(S) ==
    LET prev == S.head.flashSeenIdx
        disp == S.head.dispIdx
        step == S.head.playing /\ disp = prev + 1 /\ prev # 0
    IN IF disp = prev THEN S
       ELSE [S EXCEPT
            !.head.flashSeenIdx = disp, !.head.ghosts = recomputeGhosts(S.frames, S.sightings, disp),
            !.head.flashes = IF step /\ S.frames[prev] # {} /\ S.frames[disp] # {}
                             THEN Hurt(Only(S.frames[prev]).units, Only(S.frames[disp]).units) ELSE {}]

\* The exact frame, else its chunk's keyframe, else what was shown, else nothing.
resolveDisplay(S) ==
    LET key == Start(chunkOf(S.head.idx))
        prev == S.head.dispIdx
        disp == IF S.frames[S.head.idx] # {} THEN S.head.idx
                ELSE IF S.frames[key] # {} THEN key
                ELSE IF prev # 0 /\ S.frames[prev] # {} THEN prev ELSE 0
    IN noteFrameAdvance([S EXCEPT !.head.dispIdx = disp])

\* Mutant: the neighbour is looked up for a new sample only.
NeighbourOnce(S, k, force) ==
    LET T == resolveDisplay([S EXCEPT !.head.idx = k])
    IN IF k = S.head.idx THEN T ELSE [T EXCEPT !.head.next = buildNextPosMap(T)]

\* force: a full refresh, though the playhead is on the sample it was on.
setPlayhead(S, k, force) ==
    LET T == resolveDisplay([S EXCEPT !.head.idx = k])
    IN IF k = S.head.idx /\ ~force THEN T ELSE [T EXCEPT !.head.next = buildNextPosMap(T)]

\* A unit half way to the next sample, in eighths: on the curve between the two places with
\* their velocities as tangents, each cut to twice the way; on a straight line when it has none
\* in either; on by its velocity when the next sample is not there or lacks it.
interpPos(id) ==
    LET u == Only(frames[head.dispIdx]).units[id]
        next == IF head.next = 0 THEN <<>> ELSE Only(frames[head.next]).units
        v == next[id]
        way == IF v["x"] < u["x"] THEN u["x"] - v["x"] ELSE v["x"] - u["x"]
        Capped(dv) == Max({Min({dv, 2 * way}), -2 * way})
    IN CASE frames[head.idx] = {} -> 8 * u["x"]           \* a stand-in is not interpolated
         [] frames[head.idx] # {} /\ u["dv"] = 0 ->
              IF id \in DOMAIN next /\ v["dv"] = 0 THEN 4 * u["x"] + 4 * v["x"] ELSE 8 * u["x"]
         [] frames[head.idx] # {} /\ u["dv"] # 0 /\ id \notin DOMAIN next -> 8 * u["x"] + 4 * u["dv"]
         [] OTHER -> IF way = 0 THEN 8 * u["x"]
                     ELSE 4 * u["x"] + Capped(u["dv"]) + 4 * v["x"] - Capped(v["dv"])

\* Its build progress there, in halves; an id that has become something else keeps its own.
interpBuild(id) ==
    LET u == Only(frames[head.dispIdx]).units[id]
        next == IF head.next = 0 \/ frames[head.idx] = {} THEN <<>> ELSE Only(frames[head.next]).units
    IN IF id \in DOMAIN next /\ next[id]["def"] = u["def"] THEN u["build"] + next[id]["build"] ELSE 2 * u["build"]

tsArmyValue(units) ==
    [side \in {1, 2} |-> SumFunction([id \in {id \in DOMAIN units :
        units[id]["team"] = side /\ units[id]["def"] \in ArmyDefs} |-> units[id]["build"]])]

\* Read the lead off every sample of the chunk that is there and not read yet.
noteStripChunk(S, i) ==
    [S EXCEPT !.strip = [k \in Samples |->
        IF chunkOf(k) = i /\ S.strip[k] = {} THEN {tsArmyValue(fr.units) : fr \in S.frames[k]} ELSE S.strip[k]]]

onChunkArrived(S, i) ==
    LET read == noteStripChunk(S, i)
    IN IF i \in {chunkOf(S.head.idx), chunkOf(S.head.idx) + 1} THEN setPlayhead(read, S.head.idx, TRUE) ELSE read

\* The chunk's deltas, from its keyframe.
applyDeltas(S, i) ==
    LET got == decodeFrames(Deltas(game, i), Only(S.frames[Start(i)]), game.ver)
        frs == [k \in Samples |-> IF k \in (Start(i) + 1)..EndOf(i) THEN {got[k - Start(i)]} ELSE S.frames[k]]
    IN [S EXCEPT !.frames = frs, !.res = publishEconomy(S.res, frs, i), !.waiting = @ \ {i}]

indexGhostSightings(S, kf) ==
    LET structures == {id \in DOMAIN kf.units : kf.units[id]["def"] \in Structures}
        Sighting(id) == [id |-> id, f |-> kf.f, u |-> kf.units[id]]
        more == S.sightings \o SetToSeq({Sighting(id) : id \in structures})
    IN [S EXCEPT !.sightings = more, !.head.ghosts = recomputeGhosts(S.frames, more, S.head.dispIdx)]
-----------------------------------------------------------------------------
Now ==
    [frames |-> frames, res |-> resByFrame, waiting |-> fetched.waiting, strip |-> stripLead,
     sightings |-> ghostIndex, head |-> head]
PlayBecomes(S) ==
    /\ frames' = S.frames /\ resByFrame' = S.res /\ stripLead' = S.strip
    /\ ghostIndex' = S.sightings /\ head' = S.head /\ UNCHANGED game

\* The next keyframe of the stream is all there.
KeyArrives ==
    LET i == keysIn + 1
        kf == decodeFrames(<<Keyframe(game, i)>>, NoSeed, game.ver)[1]
        frs == [frames EXCEPT ![Start(i)] = {kf}]
        keyed == indexGhostSightings([Now EXCEPT !.frames = frs, !.res = publishEconomy(resByFrame, frs, i)], kf)
        S == onChunkArrived(IF i \in fetched.waiting THEN applyDeltas(keyed, i) ELSE keyed, i)
    IN /\ i \in Chunks
       /\ keysIn' = i /\ fetched' = [fetched EXCEPT !.waiting = S.waiting]
       /\ PlayBecomes(S)

\* fetchChunk's deltas: applied, or kept for the keyframe that is still on its way.
DeltaArrives(i) ==
    LET S == onChunkArrived(IF i <= keysIn THEN applyDeltas(Now, i) ELSE [Now EXCEPT !.waiting = @ \cup {i}], i)
    IN /\ i \notin fetched.here /\ EndOf(i) > Start(i)
       /\ fetched' = [here |-> fetched.here \cup {i}, waiting |-> S.waiting]
       /\ UNCHANGED keysIn /\ PlayBecomes(S)

\* loadResources: the economy of every chunk, for the frames there are.
EconomyLands ==
    /\ resByFrame = {}
    /\ resByFrame' = FoldLeft(LAMBDA m, i : publishEconomy(m, frames, i), {<<>>}, [i \in Chunks |-> i])
    /\ UNCHANGED <<game, keysIn, fetched, frames, stripLead, ghostIndex, head>>

Shown(S) == PlayBecomes(S) /\ UNCHANGED <<keysIn, fetched>>

\* The slider and the step buttons stop the play; the play button starts it over at the end.
go(k) == Shown(setPlayhead([Now EXCEPT !.head.playing = FALSE], k, TRUE))
startPlay ==
    /\ ~head.playing /\ Len(game.samples) > 1
    /\ LET S == IF head.idx = Len(game.samples) THEN setPlayhead(Now, 1, TRUE) ELSE Now
       IN Shown([S EXCEPT !.head.playing = TRUE])
stopPlay == head.playing /\ Shown([Now EXCEPT !.head.playing = FALSE])

\* The loop: on to the next samples, held where the next has not streamed in, over at the end.
tick(by) ==
    LET next == head.idx + by
    IN /\ head.playing
       /\ IF next >= Len(game.samples)
          THEN Shown([setPlayhead(Now, Len(game.samples), FALSE) EXCEPT !.head.playing = FALSE])
          ELSE Shown(setPlayhead(Now, IF frames[next] = {} THEN head.idx ELSE next, FALSE))

PlayInit ==
    /\ game \in Games
    /\ keysIn = 0 /\ fetched = [here |-> {}, waiting |-> {}]
    /\ frames = [k \in Samples |-> {}] /\ resByFrame = {} /\ stripLead = [k \in Samples |-> {}]
    /\ ghostIndex = <<>>
    /\ head = [idx |-> 1, dispIdx |-> 0, flashSeenIdx |-> 0, playing |-> FALSE, ghosts |-> {}, flashes |-> {},
            next |-> 0]

PlayNext ==
    \/ KeyArrives \/ EconomyLands \/ startPlay \/ stopPlay
    \/ \E i \in Chunks : DeltaArrives(i)
    \/ \E k \in Samples : go(k)
    \/ \E by \in {0, 1, 2} : tick(by)
-----------------------------------------------------------------------------
(* Properties.                                                             *)

\* What somebody who watched the keyframes from the start remembers at sample k: the
\* structures seen, each until it is seen again or seen to die.
Remembered(k) ==
    LET At(n) == game.samples[n]
        Forget(M, n) == {s \in M : ~diedBetween(s.id, IF n = 1 THEN -1 ELSE At(n - 1).f, At(n).f)}
        Look(M, n) ==
            LET here == {id \in DOMAIN At(n).units : At(n).units[id]["def"] \in Structures}
            IN IF n # Start(chunkOf(n)) THEN M
               ELSE {s \in M : s.id \notin here} \cup {[id |-> id, f |-> At(n).f, u |-> At(n).units[id]] : id \in here}
    IN FoldLeft(LAMBDA M, n : Look(Forget(M, n), n), {}, [n \in 1..k |-> n])

\* The scale of the income bars is an income somebody held, not a burst.
SustainedPeak(k) ==
    LET peak == incomePeak(game.samples[k].f, {1, 2})
        Income(t, f) == {m[f][t] : m \in {m \in resByFrame : f \in DOMAIN m /\ t \in DOMAIN m[f]}}
        Frames == {f \in UNION {DOMAIN m : m \in resByFrame} : f <= game.samples[k].f}
    IN peak = 0 \/ \E t \in {1, 2}, f \in Frames :
          /\ \E v \in Income(t, f) : v >= peak
          /\ \A e \in Frames : e \in (f - (DESPIKE_SAMPLES - 1) * SampleEvery)..f => \A v \in Income(t, e) : v >= peak

\* Between two samples that are in, a unit is drawn between its two places, and its build bar
\* between the two values it had as the same thing.
DrawnBetween ==
    head.dispIdx # 0 /\ head.dispIdx = head.idx /\ frames[head.idx] # {} =>
        LET now == game.samples[head.idx].units
            after == IF head.idx < Len(game.samples) /\ frames[head.idx + 1] # {}
                     THEN game.samples[head.idx + 1].units ELSE <<>>
        IN \A id \in DOMAIN now \cap DOMAIN after :
              /\ 8 * Min({now[id]["x"], after[id]["x"]}) <= interpPos(id)
              /\ interpPos(id) <= 8 * Max({now[id]["x"], after[id]["x"]})
              /\ interpBuild(id) = now[id]["build"] +
                    (IF now[id]["def"] = after[id]["def"] THEN after[id]["build"] ELSE now[id]["build"])

\* Whatever came first of keyframes, deltas and economy, and wherever the reader has been:
\* a decoded sample is the recorded one with every unit the stream left out, the economy and
\* the timeline's armies are those of its own frame, and the ghosts are what a watcher
\* remembers at the displayed sample, never a unit that is there; what moves is drawn on its
\* way to where the capture has it next as soon as that is in (decodeFrames, publishEconomy,
\* noteStripChunk, recomputeGhosts, buildNextPosMap, interpPos).  The ghosts' frame is reckoned from the
\* sample's number, so a capture that skipped a sample is excepted there.
PlayedIsRecorded ==
    /\ \A k \in Samples : frames[k] # {} =>
          /\ frames[k] = {[f |-> game.samples[k].f, units |-> game.samples[k].units]}
          /\ stripLead[k] = {tsArmyValue(game.samples[k].units)}
    /\ \A m \in resByFrame :
          m = [f \in {game.samples[k].f : k \in {k \in Samples : frames[k] # {} /\ game.samples[k].res # <<>>}} |->
                  LET res == game.samples[CHOOSE k \in Samples : game.samples[k].f = f].res
                  IN [t \in DOMAIN res |-> Tenth(res[t])]]
    /\ (\A k \in Samples : frameNumAt(k) = game.samples[k].f) =>
          head.ghosts = IF head.dispIdx = 0 THEN {}
                        ELSE {s \in Remembered(head.dispIdx) :
                                 s.id \notin DOMAIN game.samples[head.dispIdx].units}
    /\ \A id \in head.flashes :
          game.samples[head.dispIdx].units[id]["hp"] < game.samples[head.dispIdx - 1].units[id]["hp"]
    /\ \A k \in Samples : SustainedPeak(k)
    /\ DrawnBetween
=============================================================================
