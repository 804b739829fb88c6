----------------------------- MODULE ReplayPage -----------------------------
(***************************************************************************)
(* The viewer's replay page (worker/public/app.js): opening a replay,      *)
(* streaming its keyframes and delta chunks, and the playhead over what    *)
(* has arrived.  JavaScript runs one callback at a time, so an action runs *)
(* from one await (or event) to the next.  What a response of an earlier   *)
(* open may still do when it arrives is what the module is about.          *)
(*                                                                         *)
(* A frame is represented by the replay whose bytes it was decoded from.   *)
(* Every chunk but the last has a keyframe and one delta frame; the last   *)
(* has its keyframe only.                                                  *)
(***************************************************************************)
EXTENDS Integers, Sequences, FiniteSets

CONSTANTS
    Ids,              \* what a link can name: game ids
    Published,        \* ids with a replay: its file is named by Rid(id)
    Small,            \* of these, the ones whose file fits in the first read
    NoRanges,         \* of these, the ones served whole whatever is asked for
    NChunks,          \* chunks per replay
    MaxOpens,         \* bound: how many times a replay is opened
    Targets,          \* bound: the positions the reader moves to
    MaxFails,         \* bound: requests that fail
    TouchesWhileLoading \* does the reader play or scrub while a replay loads?

None == "none"
Garbage == "garbage"

ASSUME IdsAssumption ==
    /\ Published \subseteq Ids
    /\ Small \subseteq Published /\ NoRanges \subseteq Published
    /\ {None, Garbage} \cap Ids = {}
ASSUME BoundsAssumption ==
    /\ NChunks \in Nat \ {0, 1} /\ MaxOpens \in Nat /\ MaxFails \in Nat
    /\ TouchesWhileLoading \in BOOLEAN

Chunks == 1 .. NChunks
LastPos == 2 * NChunks - 2                  \* data.frameCount - 1
Pos == 0 .. LastPos
ASSUME TargetsAssumption == Targets \subseteq Pos
chunkStartIdx(i) == 2 * (i - 1)
chunkOf(p) == p \div 2 + 1
SingleFrame(i) == i = NChunks               \* data.chunks[i].len = 0
MaxInflight == 2

VARIABLES
    opened,     \* loadGen, currentRequest, currentFile, and the page on screen
    loads,      \* invocations of loadReplay still waiting for something
    notSim,     \* the "not simulated yet" page on screen, if any
    data,       \* the open replay's head, by its file, or None
    frames,     \* data.frames, per position the file it was decoded from
    net,        \* chunkState, pendingDelta, fetchQueue, inflight
    pieces,     \* requests for a keyframe stream (chunk 0) or a chunk's deltas
    brpWhole,   \* a file held whole, with the file its bytes really are
    play,       \* playing, playPos, dispIdx, and the scrub timer
    fails

vars == <<opened, loads, notSim, data, frames, net, pieces,
          brpWhole, play, fails>>

NoFrames == [p \in Pos |-> None]
NoFile == [file |-> None, bytes |-> None]
-----------------------------------------------------------------------------
(* The playhead.                                                           *)

keyFrame(fr, i) == fr[chunkStartIdx(i)]

\* The frame to draw at idx: it, its chunk's keyframe, or the last one drawn.
resolveDisplay(pl, fr) ==
    [pl EXCEPT !.disp =
        IF fr[pl.pos] # None THEN pl.pos
        ELSE IF keyFrame(fr, chunkOf(pl.pos)) # None THEN chunkStartIdx(chunkOf(pl.pos))
        ELSE IF pl.disp >= 0 /\ fr[pl.disp] # None THEN pl.disp
        ELSE -1]

setPlayhead(pl, fr, p) == resolveDisplay([pl EXCEPT !.pos = p], fr)

\* What was waiting for chunk i is drawn again.
onChunkArrived(pl, fr, i) ==
    IF i \in {chunkOf(pl.pos), chunkOf(pl.pos) + 1} THEN resolveDisplay(pl, fr) ELSE pl

stopPlay(pl) == [pl EXCEPT !.playing = FALSE]
-----------------------------------------------------------------------------
(* Fetching.  A step works on S, the queue's state and the requests under  *)
(* way, with the open replay they are for.                                 *)

\* A request as it is sent: the open replay's index says which bytes, of the
\* current file; a file held whole is sliced instead.
Piece(S, i) ==
    LET sliced == S.file # None /\ S.held.file = S.file
    IN [gen |-> S.gen, chunk |-> i, index |-> S.data, next |-> 1,
        bytes |-> IF sliced THEN S.held.bytes ELSE S.file,
        whole |-> ~sliced /\ S.file \in NoRanges]

\* The queue without what is complete by now.
Waiting(n) == SelectSeq(n.queue, LAMBDA i : n.chunk[i] < 4)

\* The fetches the free slots allow, in queue order.
pumpFetches(S) ==
    LET waiting == Waiting(S.net)
        room == MaxInflight - S.net.inflight
        n == IF room < Len(waiting) THEN room ELSE Len(waiting)
    IN IF n <= 0 THEN S
       ELSE [S EXCEPT !.net.queue = SubSeq(waiting, n + 1, Len(waiting)),
                      !.net.inflight = @ + n,
                      !.pieces = @ \cup {Piece(S, waiting[k]) : k \in 1 .. n}]

\* Queues chunk i's deltas unless they were asked for already.
ensureChunk(S, i, urgent) ==
    IF i \notin Chunks \/ S.net.chunk[i] >= 3 THEN S
    ELSE IF SingleFrame(i) THEN [S EXCEPT !.net.chunk[i] = 3]
    ELSE pumpFetches([S EXCEPT !.net.chunk[i] = 3,
                               !.net.queue = IF urgent THEN <<i>> \o @ ELSE Append(@, i)])

\* The rest of the replay is downloaded in order while nothing else is asked for.
pumpBackground(S) ==
    LET unasked == {i \in Chunks : S.net.chunk[i] < 3}
    IN IF S.net.queue # <<>> \/ S.net.inflight >= MaxInflight \/ unasked = {} THEN S
       ELSE ensureChunk(S, CHOOSE i \in unasked : \A j \in unasked : i <= j, FALSE)

Fetcher == [net |-> net, pieces |-> pieces, gen |-> opened.gen,
            file |-> opened.file, data |-> data, held |-> brpWhole]

Fetching(S) == \E s \in {S} : net' = s.net /\ pieces' = s.pieces
-----------------------------------------------------------------------------
(* Opening a replay.                                                       *)

\* The file an id is served under: its row's revision.
Rid(id) == id

Loading == \E l \in loads : l.gen = opened.gen

\* Mutant: loadReplay goes on after an await without asking whether it is still the last.
NeverSuperseded(l) == FALSE

\* Another replay was opened while this invocation waited.
Superseded(l) == l.gen # opened.gen

\* loadReplay up to its first await.
loadReplay(id) ==
    /\ opened.gen < MaxOpens
    /\ opened' = [opened EXCEPT !.gen = @ + 1, !.request = id, !.home = FALSE]
    /\ loads' = loads \cup {[gen |-> opened.gen + 1, id |-> id, at |-> "resolve"]}
    /\ notSim' = None
    /\ net' = [net EXCEPT !.queue = <<>>, !.inflight = 0]
    /\ play' = [stopPlay(play) EXCEPT !.timer = FALSE]
    /\ UNCHANGED <<data, frames, pieces, brpWhole, fails>>

\* Back or forward to a replay: opened anew only if it is not the open one.
popstate(id) ==
    IF id # opened.request \/ data = None THEN loadReplay(id)
    ELSE /\ opened.home
         /\ opened' = [opened EXCEPT !.home = FALSE]
         /\ play' = setPlayhead(play, frames, play.pos)
         /\ UNCHANGED <<loads, notSim, data, frames, net, pieces, brpWhole, fails>>

showHome ==
    /\ ~opened.home
    /\ opened' = [opened EXCEPT !.home = TRUE]
    /\ play' = stopPlay(play)
    /\ UNCHANGED <<loads, notSim, data, frames, net, pieces, brpWhole, fails>>

\* The catalog answers (or the list already did), and the file is known.
resolveReplayFile(l) ==
    /\ l.at = "resolve"
    /\ IF Superseded(l)
       THEN /\ loads' = loads \ {l}
            /\ UNCHANGED <<opened, brpWhole>>
       ELSE /\ loads' = (loads \ {l}) \cup {[l EXCEPT !.at = "head"]}
            /\ opened' = [opened EXCEPT !.file = Rid(l.id)]
            /\ brpWhole' = NoFile
    /\ UNCHANGED <<notSim, data, frames, net, pieces, play, fails>>

\* The replay's streams start: keyframes, the playhead's chunks, the rest.
StartStreams(S) ==
    pumpBackground(ensureChunk(ensureChunk(
        [S EXCEPT !.pieces = @ \cup {Piece(S, 0)}], 1, TRUE), 2, FALSE))

\* Reading the head got the whole file when it is small or its server ignores Range.
ReadHead(id) == IF id \in Small \cup NoRanges THEN [file |-> Rid(id), bytes |-> Rid(id)]
                ELSE brpWhole

\* The head has been read, the file with it when it was small or came whole.
HeadArrives(l) ==
    /\ l.at = "head" /\ l.id \in Published
    /\ loads' = loads \ {l}
    /\ brpWhole' = ReadHead(l.id)
    /\ IF Superseded(l) THEN UNCHANGED <<data, frames, net, pieces, play>>
       ELSE /\ data' = Rid(l.id)
            /\ frames' = NoFrames
            /\ play' = [play EXCEPT !.pos = 0, !.disp = -1]
            /\ LET fresh == [net EXCEPT !.chunk = [i \in Chunks |-> 0],
                                        !.pending = [i \in Chunks |-> None]]
               IN Fetching(StartStreams([Fetcher EXCEPT
                    !.net = fresh, !.data = Rid(l.id), !.held = ReadHead(l.id)]))
    /\ UNCHANGED <<opened, notSim, fails>>

\* Nothing is published under the id, or the head could not be read.
HeadFails(l) ==
    /\ l.at = "head"
    /\ \/ l.id \notin Published /\ UNCHANGED fails
       \/ l.id \in Published /\ fails < MaxFails /\ fails' = fails + 1
    /\ loads' = loads \ {l}
    /\ IF Superseded(l) THEN UNCHANGED <<data, notSim>>
       ELSE /\ data' = None
            /\ notSim' = IF l.id \in Published THEN None ELSE l.id
    /\ UNCHANGED <<opened, frames, net, pieces, brpWhole, play>>
-----------------------------------------------------------------------------
(* Responses.                                                              *)

\* What a piece decodes to: frames of a replay, or nonsense when the bytes
\* were not the index's.
Decoded(p) == IF p.bytes = p.index THEN p.bytes ELSE Garbage

\* A server that ignores Range sends the file; it is kept under the name of the
\* replay that is current when the download ends.
WholeFile(p) ==
    /\ p.whole
    /\ brpWhole' = [file |-> opened.file, bytes |-> p.bytes]
    /\ pieces' = (pieces \ {p}) \cup {[p EXCEPT !.whole = FALSE]}
    /\ UNCHANGED <<opened, loads, notSim, data, frames, net, play, fails>>

\* A response of an earlier open is dropped.
StalePiece(p) ==
    /\ ~p.whole /\ p.gen # opened.gen
    /\ pieces' = pieces \ {p}
    /\ UNCHANGED <<opened, loads, notSim, data, frames, net, brpWhole, play, fails>>

\* Mutant: the generation is not compared after the await.
CurrentAnyGen(p) == ~p.whole /\ data # None

Current(p) == ~p.whole /\ p.gen = opened.gen /\ data # None

\* fetchChunk's finally: the slot is free, the queue and the background move on.
Freed(S) == pumpBackground(pumpFetches([S EXCEPT !.net.inflight = @ - 1]))

\* applyDeltas, once both the keyframe and the deltas of chunk i are here.
WithDeltas(fr, i, decoded) == [fr EXCEPT ![chunkStartIdx(i) + 1] = decoded]

\* A chunk's deltas arrive: decoded onto its keyframe, or kept until that comes.
fetchChunk(p) ==
    /\ p.chunk # 0 /\ Current(p)
    /\ LET keyed == keyFrame(frames, p.chunk) # None
           arrived == IF keyed THEN [net EXCEPT !.chunk[p.chunk] = 4]
                      ELSE [net EXCEPT !.pending[p.chunk] = Decoded(p)]
       IN /\ frames' = IF keyed THEN WithDeltas(frames, p.chunk, Decoded(p)) ELSE frames
          /\ Fetching(Freed([Fetcher EXCEPT !.net = arrived, !.pieces = pieces \ {p}]))
          /\ play' = onChunkArrived(play, frames', p.chunk)
    /\ UNCHANGED <<opened, loads, notSim, data, brpWhole, fails>>

\* Mutant: the catch without the state's reset.
FetchFailsForGood(p) ==
    /\ p.chunk # 0 /\ p.gen = opened.gen /\ ~p.whole /\ fails < MaxFails
    /\ fails' = fails + 1
    /\ Fetching(Freed([Fetcher EXCEPT !.pieces = pieces \ {p}]))
    /\ UNCHANGED <<opened, loads, notSim, data, frames, brpWhole, play>>

\* A chunk's request fails: it may be asked for again.
FetchFails(p) ==
    /\ p.chunk # 0 /\ p.gen = opened.gen /\ ~p.whole /\ fails < MaxFails
    /\ fails' = fails + 1
    /\ LET state == IF keyFrame(frames, p.chunk) # None THEN 2 ELSE 0
       IN Fetching(Freed([Fetcher EXCEPT !.net.chunk[p.chunk] = state, !.pieces = pieces \ {p}]))
    /\ UNCHANGED <<opened, loads, notSim, data, frames, brpWhole, play>>

\* The keyframe stream delivers the next keyframe, and with it the deltas that
\* were waiting for it.
streamKeys(p) ==
    /\ p.chunk = 0 /\ Current(p)
    /\ LET i == p.next
           keyed == [frames EXCEPT ![chunkStartIdx(i)] = Decoded(p)]
           deltas == net.pending[i]
           state == IF SingleFrame(i) \/ deltas # None THEN 4
                    ELSE IF net.chunk[i] > 2 THEN net.chunk[i] ELSE 2
       IN /\ frames' = IF deltas = None THEN keyed ELSE WithDeltas(keyed, i, deltas)
          /\ net' = [net EXCEPT !.chunk[i] = state, !.pending[i] = None]
          /\ pieces' = (pieces \ {p}) \cup
                       IF i = NChunks THEN {} ELSE {[p EXCEPT !.next = i + 1]}
          /\ play' = onChunkArrived(play, frames', i)
    /\ UNCHANGED <<opened, loads, notSim, data, brpWhole, fails>>

\* The keyframe stream breaks off; nothing asks for it again.
KeysFail(p) ==
    /\ p.chunk = 0 /\ Current(p) /\ fails < MaxFails
    /\ fails' = fails + 1
    /\ pieces' = pieces \ {p}
    /\ UNCHANGED <<opened, loads, notSim, data, frames, net, brpWhole, play>>
-----------------------------------------------------------------------------
(* The reader.                                                             *)

\* The keys and buttons answer on a replay page that has a head, which while
\* another replay loads is still the previous one's.
MayTouch == ~opened.home /\ data # None /\ (TouchesWhileLoading \/ ~Loading)

\* A clock tick that reaches the next frame; held while it has not arrived.
tick ==
    /\ play.playing
    /\ LET next == play.pos + 1
           S == ensureChunk(ensureChunk(Fetcher, chunkOf(next), TRUE), chunkOf(next) + 1, FALSE)
       IN IF next >= LastPos
          THEN /\ play' = stopPlay(setPlayhead(play, frames, LastPos))
               /\ UNCHANGED <<net, pieces>>
          ELSE /\ play' = setPlayhead(play, frames, IF frames[next] = None THEN play.pos ELSE next)
               /\ Fetching(S)
    /\ UNCHANGED <<opened, loads, notSim, data, frames, brpWhole, fails>>

startPlay ==
    /\ MayTouch /\ ~play.playing
    /\ play' = [(IF play.pos = LastPos THEN setPlayhead(play, frames, 0) ELSE play)
                    EXCEPT !.playing = TRUE]
    /\ UNCHANGED <<opened, loads, notSim, data, frames, net, pieces, brpWhole, fails>>

\* The slider, and the keys that step: the playhead moves at once, and a moment
\* the reader dwells on is fetched.
scrub(p) ==
    /\ MayTouch /\ p # play.pos
    /\ play' = [setPlayhead(stopPlay(play), frames, p)
                    EXCEPT !.timer = @ \/ frames[p] = None]
    /\ UNCHANGED <<opened, loads, notSim, data, frames, net, pieces, brpWhole, fails>>

scrubTimer ==
    /\ play.timer
    /\ play' = [play EXCEPT !.timer = FALSE]
    /\ IF data = None THEN UNCHANGED <<net, pieces>>
       ELSE Fetching(ensureChunk(ensureChunk(Fetcher, chunkOf(play.pos), TRUE),
                                 chunkOf(play.pos) + 1, FALSE))
    /\ UNCHANGED <<opened, loads, notSim, data, frames, brpWhole, fails>>
-----------------------------------------------------------------------------
Init ==
    /\ opened = [gen |-> 0, request |-> None, file |-> None, home |-> TRUE]
    /\ loads = {} /\ pieces = {}
    /\ notSim = None /\ brpWhole = NoFile
    /\ data = None /\ frames = NoFrames
    /\ net = [chunk |-> [i \in Chunks |-> 0], pending |-> [i \in Chunks |-> None],
              queue |-> <<>>, inflight |-> 0]
    /\ play = [playing |-> FALSE, pos |-> 0, disp |-> -1, timer |-> FALSE]
    /\ fails = 0

LoadStep == \E l \in loads : resolveReplayFile(l) \/ HeadArrives(l) \/ HeadFails(l)
PieceStep == \E p \in pieces : WholeFile(p) \/ StalePiece(p) \/ fetchChunk(p) \/ streamKeys(p)
PieceFails == \E p \in pieces : FetchFails(p) \/ KeysFail(p)
Reader == \/ \E id \in Ids : loadReplay(id) \/ popstate(id)
          \/ showHome \/ startPlay
          \/ \E p \in Targets : scrub(p)

Next == LoadStep \/ PieceStep \/ PieceFails \/ Reader \/ tick \/ scrubTimer

Spec == Init /\ [][Next]_vars
-----------------------------------------------------------------------------
(* What the page promises its reader.                                      *)

Open == data # None /\ ~Loading

\* "stale completions are dropped" (loadGen): whatever was still under way when another
\* replay was opened, only bytes of the open replay, read at its own index, are decoded
\* into its frames (fetchChunk, streamKeys, pieceFetch).
FramesAreOfReplay == Open => \A p \in Pos : frames[p] \in {None, data}

\* Of several replays opened in quick succession the page ends up showing the last one
\* asked for, or that it is not simulated yet, never an earlier one whose answers came
\* later (loadReplay's checks after each await).
LatestOpenWins ==
    ~Loading /\ opened.request # None =>
        /\ data \in {None, Rid(opened.request)}
        /\ notSim \in {None, opened.request}

\* The slots counted as taken are the requests under way for the open replay: none is
\* lost when a request fails or is of an earlier open (inflight, fetchChunk's finally).
SlotsAreRequests ==
    net.inflight = Cardinality({p \in pieces : p.gen = opened.gen /\ p.chunk # 0})

\* Nothing that is to be played waits for ever: a chunk that counts as asked for is queued,
\* on its way, waiting for its keyframe or all there, since nothing would fetch it again
\* (ensureChunk refuses state 3), and no slot to fetch it with is lost.
RequestedIsUnderway ==
    /\ SlotsAreRequests
    /\ Open => \A i \in Chunks : net.chunk[i] = 3 =>
           \/ i \in {net.queue[k] : k \in DOMAIN net.queue}
           \/ \E p \in pieces : p.chunk = i /\ p.gen = opened.gen
           \/ net.pending[i] # None \/ SingleFrame(i)
=============================================================================
