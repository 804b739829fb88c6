---------------------------- MODULE ViewerProofs ----------------------------
(***************************************************************************)
(* That the browser's two asynchronous pages show what was asked for last, *)
(* whatever is still under way: the replay page, for any replays, opened   *)
(* any number of times one over the other, and the landing page's lists,   *)
(* for any filters, visits and order of the replies.                       *)
(*                                                                         *)
(* The replay page has one invocation of loadReplay that counts (LastLoad) *)
(* and one owner of the frames: while a replay is open, the requests of    *)
(* its generation are of its bytes at its index (PieceInv), so is what     *)
(* waits for a keyframe (WaitingInv), and only while it is open may the    *)
(* playhead or its timer ask for more (TouchInv).                          *)
(*                                                                         *)
(* Of the lists, the newest read of the one on screen is for what the URL  *)
(* says (ListInv, GamesInv).  The walk through the games is whole because  *)
(* a page of the mirror is (PageOfMirror): past its cursor, up to the next *)
(* one, and all that matches in between (WalkInv, FilterInv).              *)
(***************************************************************************)
EXTENDS ReplayPage, Listing, FiniteSetTheorems, SequenceTheorems, TLAPS

-----------------------------------------------------------------------------
(* Opening a replay.                                                       *)

\* All the proof needs of the types.
OpenShape ==
    /\ opened = [gen |-> opened.gen, request |-> opened.request,
                 file |-> opened.file, home |-> opened.home]
    /\ opened.gen \in Nat
    /\ \A l \in loads : l = [gen |-> l.gen, id |-> l.id, at |-> l.at] /\ l.id \in Ids /\ l.gen \in 0 .. opened.gen

\* One invocation at most is the last one; it is for what was asked for last, and
\* from the catalog's answer on the current file is what it asked for.
LastLoad ==
    /\ \A l \in loads : l.gen = opened.gen =>
          l.id = opened.request /\ (l.at = "head" => opened.file = Rid(l.id))
    /\ \A l, m \in loads : l.gen = m.gen => l = m
    /\ Loading => notSim = None

OpenInv == OpenShape /\ LastLoad /\ LatestOpenWins

\* What none of the steps after the opening touches.
OpenCalm == UNCHANGED <<loads, notSim, data>> /\ opened' = [opened EXCEPT !.home = opened'.home]

\* Opening a replay leaves the earlier invocations behind.
LEMMA LoadsOpen ==
    ASSUME OpenInv, NEW id \in Ids, loadReplay(id)
    PROVE  OpenInv'
<1>1. /\ opened' = [gen |-> opened.gen + 1, request |-> id, file |-> opened.file, home |-> FALSE]
      /\ loads' = loads \cup {[gen |-> opened.gen + 1, id |-> id, at |-> "resolve"]}
  BY DEF OpenInv, OpenShape, loadReplay
<1>0. OpenShape'
  BY <1>1 DEF OpenInv, OpenShape
<1>2. Loading'
  <2>1. PICK m \in loads' : m = [gen |-> opened.gen + 1, id |-> id, at |-> "resolve"]
    BY <1>1
  <2>2. m.gen = opened'.gen
    BY <1>1, <2>1
  <2> QED
    BY <2>2 DEF Loading
<1>3. LastLoad'
  <2>1. \A k \in loads' : k.gen = opened'.gen =>
            k.id = opened'.request /\ (k.at = "head" => opened'.file = Rid(k.id))
    <3>1. \A k \in loads' : k.gen = opened'.gen => k = [gen |-> opened.gen + 1, id |-> id, at |-> "resolve"]
      BY <1>1 DEF OpenInv, OpenShape
    <3> QED
      BY <1>1, <3>1
  <2>2. \A k, n \in loads' : k.gen = n.gen => k = n
    BY <1>1 DEF OpenInv, OpenShape, LastLoad
  <2> QED
    BY <1>1, <2>1, <2>2 DEF LastLoad, loadReplay
<1> QED
  BY <1>0, <1>2, <1>3 DEF OpenInv, LatestOpenWins

\* Calm steps keep what the opening keeps.
LEMMA CalmOpen ==
    ASSUME OpenInv, OpenCalm
    PROVE  OpenInv'
<1>1. OpenShape' /\ opened'.gen = opened.gen /\ opened'.request = opened.request /\ opened'.file = opened.file
  BY DEF OpenInv, OpenShape, OpenCalm
<1> QED
  BY <1>1 DEF OpenInv, OpenCalm, LastLoad, LatestOpenWins, Loading, Rid

\* An invocation goes on only as the last one.
LEMMA LoadStepOpen ==
    ASSUME OpenInv, NEW l \in loads, resolveReplayFile(l) \/ HeadArrives(l) \/ HeadFails(l), IdsAssumption
    PROVE  OpenInv'
<1>1. CASE resolveReplayFile(l)
  <2>1. CASE Superseded(l)
    BY <1>1, <2>1 DEF resolveReplayFile, OpenInv, OpenShape, LastLoad, LatestOpenWins, Loading, Superseded
  <2>2. CASE ~Superseded(l)
    <3>1. PICK m : m = [l EXCEPT !.at = "head"] /\ loads' = (loads \ {l}) \cup {m}
      BY <1>1, <2>2 DEF resolveReplayFile
    <3>2. m.gen = l.gen /\ m.id = l.id /\ m = [gen |-> m.gen, id |-> m.id, at |-> m.at]
      BY <3>1 DEF OpenInv, OpenShape
    <3>3. /\ opened' = [opened EXCEPT !.file = Rid(l.id)] /\ notSim' = notSim /\ data' = data
          /\ l.gen = opened.gen
      BY <1>1, <2>2 DEF resolveReplayFile, Superseded
    <3>4. /\ opened'.gen = opened.gen /\ opened'.request = opened.request /\ opened'.file = Rid(l.id)
          /\ opened' = [gen |-> opened'.gen, request |-> opened'.request,
                        file |-> opened'.file, home |-> opened'.home]
      BY <3>3 DEF OpenInv, OpenShape
    <3>5. OpenShape'
      BY <3>1, <3>2, <3>4 DEF OpenInv, OpenShape
    <3>6. Loading /\ Loading'
      BY <3>1, <3>2, <3>3, <3>4 DEF Loading
    <3>7. LastLoad'
      <4>1. \A k \in loads' : k.gen = opened'.gen => k.id = opened'.request /\ opened'.file = Rid(k.id)
        <5>1. \A k \in loads' : k.gen = opened'.gen => k = m
          BY <3>1, <3>3, <3>4 DEF OpenInv, LastLoad
        <5> QED
          BY <3>2, <3>3, <3>4, <5>1 DEF OpenInv, LastLoad
      <4>2. \A k, n \in loads' : k.gen = n.gen => k = n
        <5>1. \A k, n \in loads : k.gen = n.gen => k = n
          BY DEF OpenInv, LastLoad
        <5>2. \A k \in loads \ {l} : k.gen # m.gen
          BY <3>2, <5>1
        <5>3. \A k \in loads' : k = m \/ k \in loads \ {l}
          BY <3>1
        <5> QED
          BY <5>1, <5>2, <5>3
      <4> QED
        <5>1. notSim' = None
          BY <3>3, <3>6 DEF OpenInv, LastLoad
        <5> QED
          BY <4>1, <4>2, <5>1 DEF LastLoad
    <3> QED
      BY <3>5, <3>6, <3>7 DEF OpenInv, LatestOpenWins
  <2> QED
    BY <2>1, <2>2
<1>2. CASE HeadArrives(l)
  BY <1>2 DEF HeadArrives, OpenInv, OpenShape, LastLoad, LatestOpenWins, Loading, Superseded, Rid
<1>3. CASE HeadFails(l)
  BY <1>3 DEF HeadFails, OpenInv, OpenShape, LastLoad, LatestOpenWins, Loading, Superseded, Rid
<1> QED
  BY <1>1, <1>2, <1>3

\* Every step keeps the invariant of the openings.
LEMMA NextOpen ==
    ASSUME OpenInv, Next, IdsAssumption
    PROVE  OpenInv'
<1>1. CASE LoadStep
  BY <1>1, LoadStepOpen DEF LoadStep
<1>2. CASE PieceStep
  <2>1. PICK p \in pieces : WholeFile(p) \/ StalePiece(p) \/ fetchChunk(p) \/ streamKeys(p)
    BY <1>2 DEF PieceStep
  <2>2. UNCHANGED <<opened, loads, notSim, data>>
    BY <2>1 DEF WholeFile, StalePiece, fetchChunk, streamKeys
  <2> QED
    BY <2>2, CalmOpen DEF OpenCalm, OpenInv, OpenShape
<1>3. CASE PieceFails
  <2>1. UNCHANGED <<opened, loads, notSim, data>>
    BY <1>3 DEF PieceFails, FetchFails, KeysFail
  <2> QED
    BY <2>1, CalmOpen DEF OpenCalm, OpenInv, OpenShape
<1>4. CASE Reader
  <2>1. CASE \E id \in Ids : loadReplay(id)
    BY <2>1, LoadsOpen
  <2>2. CASE \E id \in Ids : popstate(id)
    <3>1. PICK id \in Ids : popstate(id)
      BY <2>2
    <3>2. CASE id # opened.request \/ data = None
      BY <3>1, <3>2, LoadsOpen DEF popstate
    <3>3. CASE ~(id # opened.request \/ data = None)
      BY <3>1, <3>3, CalmOpen DEF popstate, OpenCalm, OpenInv, OpenShape
    <3> QED
      BY <3>2, <3>3
  <2>3. CASE showHome
    BY <2>3, CalmOpen DEF showHome, OpenCalm, OpenInv, OpenShape
  <2>4. CASE startPlay \/ \E p \in Targets : scrub(p)
    <3>1. UNCHANGED <<opened, loads, notSim, data>>
      BY <2>4 DEF startPlay, scrub
    <3> QED
      BY <3>1, CalmOpen DEF OpenCalm, OpenInv, OpenShape
  <2> QED
    BY <1>4, <2>1, <2>2, <2>3, <2>4 DEF Reader
<1>5. CASE tick \/ scrubTimer
  <2>1. UNCHANGED <<opened, loads, notSim, data>>
    BY <1>5 DEF tick, scrubTimer
  <2> QED
    BY <2>1, CalmOpen DEF OpenCalm, OpenInv, OpenShape
<1> QED
  BY <1>1, <1>2, <1>3, <1>4, <1>5 DEF Next

\* Of any number of replays opened one over the other, whatever order their answers and
\* failures come in, the page ends up on the last one asked for (loadReplay).
THEOREM OpeningsInOrder == Spec => []LatestOpenWins
<1>1. Init => OpenInv
  BY DEF Init, OpenInv, OpenShape, LastLoad, LatestOpenWins, Loading
<1>2. OpenInv /\ [Next]_vars => OpenInv'
  <2> SUFFICES ASSUME OpenInv, [Next]_vars PROVE OpenInv'
    OBVIOUS
  <2>1. CASE Next
    BY <2>1, NextOpen, IdsAssumption
  <2>2. CASE UNCHANGED vars
    BY <2>2, CalmOpen DEF vars, OpenCalm, OpenInv, OpenShape
  <2> QED
    BY <2>1, <2>2
<1>3. OpenInv => LatestOpenWins
  BY DEF OpenInv
<1> QED
  BY <1>1, <1>2, <1>3, PTL DEF Spec
-----------------------------------------------------------------------------
(* What the page decodes.                                                  *)

\* The fields of the queue's state, and of what a fetching step works on.
NetShape(n) == n = [chunk |-> n.chunk, pending |-> n.pending, queue |-> n.queue, inflight |-> n.inflight]

IsFetcher(S) ==
    /\ S = [net |-> S.net, pieces |-> S.pieces, gen |-> S.gen, file |-> S.file, data |-> S.data, held |-> S.held]
    /\ NetShape(S.net)

\* Fetching asks for more, for the open replay, and drops nothing that waits for a keyframe.
Keeps(S, T) ==
    /\ IsFetcher(T) /\ T.gen = S.gen /\ T.file = S.file /\ T.data = S.data /\ T.held = S.held
    /\ T.net.pending = S.net.pending
    /\ \A p \in T.pieces : p \in S.pieces \/ \E i : p = Piece(S, i)

\* Keeps is reflexive and transitive.
LEMMA KeepsItself == ASSUME NEW S, IsFetcher(S) PROVE Keeps(S, S)
  BY DEF Keeps

\* Keeping pieces is transitive.
LEMMA KeepsOn ==
    ASSUME NEW S, NEW T, NEW U, Keeps(S, T), Keeps(T, U)
    PROVE  Keeps(S, U)
<1>1. \A i : Piece(T, i) = Piece(S, i)
  BY DEF Keeps, Piece
<1> QED
  BY <1>1 DEF Keeps

\* So do the three steps that ask for chunks, and what is built from them.
LEMMA PumpKeeps ==
    ASSUME NEW S, IsFetcher(S)
    PROVE  Keeps(S, pumpFetches(S))
<1> DEFINE waiting == Waiting(S.net)
           room == MaxInflight - S.net.inflight
           n == IF room < Len(waiting) THEN room ELSE Len(waiting)
           T == [S EXCEPT !.net.queue = SubSeq(waiting, n + 1, Len(waiting)),
                          !.net.inflight = @ + n,
                          !.pieces = @ \cup {Piece(S, waiting[k]) : k \in 1 .. n}]
<1>1. pumpFetches(S) = IF n <= 0 THEN S ELSE T
  BY DEF pumpFetches
<1>2. Keeps(S, T)
  <2> DEFINE asked == {Piece(S, waiting[k]) : k \in 1 .. n}
             rest == SubSeq(waiting, n + 1, Len(waiting))
  <2>1. T = [S EXCEPT !.net.queue = rest, !.net.inflight = @ + n, !.pieces = @ \cup asked]
    OBVIOUS
  <2>2. \A p \in asked : \E i : p = Piece(S, i)
    OBVIOUS
  <2> HIDE DEF n, waiting, asked, rest, T
  <2>3. T = [S EXCEPT !.net = [S.net EXCEPT !.queue = rest, !.inflight = S.net.inflight + n],
                      !.pieces = S.pieces \cup asked]
    BY <2>1 DEF IsFetcher, NetShape
  <2>4. /\ T.pieces = S.pieces \cup asked /\ IsFetcher(T) /\ T.net.pending = S.net.pending
        /\ T.gen = S.gen /\ T.file = S.file /\ T.data = S.data /\ T.held = S.held
    BY <2>3 DEF IsFetcher, NetShape
  <2> QED
    BY <2>2, <2>4 DEF Keeps
<1> QED
  BY <1>1, <1>2, KeepsItself

\* Asking for a chunk.
LEMMA EnsureKeeps ==
    ASSUME NEW S, IsFetcher(S), NEW i, NEW urgent
    PROVE  Keeps(S, ensureChunk(S, i, urgent))
<1> DEFINE A == [S EXCEPT !.net.chunk[i] = 3]
           Q == IF urgent THEN <<i>> \o S.net.queue ELSE Append(S.net.queue, i)
           B == [S EXCEPT !.net.chunk[i] = 3, !.net.queue = Q]
<1>1. ensureChunk(S, i, urgent) \in {S, A, pumpFetches(B)}
  BY DEF ensureChunk
<1>2. Keeps(S, A)
  BY DEF Keeps, IsFetcher, NetShape
<1>3. Keeps(S, B)
  <2> HIDE DEF Q
  <2>1. B = [S EXCEPT !.net = [S.net EXCEPT !.chunk = [S.net.chunk EXCEPT ![i] = 3], !.queue = Q]]
    BY DEF IsFetcher, NetShape
  <2> HIDE DEF B
  <2> QED
    BY <2>1 DEF Keeps, IsFetcher, NetShape
<1>4. Keeps(S, pumpFetches(B))
  <2> HIDE DEF B
  <2> QED
    BY <1>3, PumpKeeps, KeepsOn DEF Keeps
<1> QED
  BY <1>1, <1>2, <1>4, KeepsItself

\* Fetching in the background.
LEMMA BackgroundKeeps ==
    ASSUME NEW S, IsFetcher(S)
    PROVE  Keeps(S, pumpBackground(S))
<1>1. pumpBackground(S) = S \/ \E i : pumpBackground(S) = ensureChunk(S, i, FALSE)
  BY DEF pumpBackground
<1> QED
  BY <1>1, EnsureKeeps, KeepsItself

\* Moving the playhead neither starts the clock nor sets the timer.
PlayShape(pl) == pl = [playing |-> pl.playing, pos |-> pl.pos, disp |-> pl.disp, timer |-> pl.timer]

\* What the display does leaves the playhead a playhead.
LEMMA PlayKept ==
    ASSUME NEW pl, PlayShape(pl), NEW fr, NEW p
    PROVE  /\ LET x == setPlayhead(pl, fr, p)
              IN PlayShape(x) /\ x.playing = pl.playing /\ x.timer = pl.timer
           /\ PlayShape(onChunkArrived(pl, fr, p))
           /\ PlayShape(stopPlay(pl))
<1>1. \A q : PlayShape(q) => /\ PlayShape(resolveDisplay(q, fr))
                            /\ resolveDisplay(q, fr).playing = q.playing
                            /\ resolveDisplay(q, fr).timer = q.timer
  BY DEF PlayShape, resolveDisplay
<1>2. LET q == [pl EXCEPT !.pos = p] IN PlayShape(q) /\ q.playing = pl.playing /\ q.timer = pl.timer
  BY DEF PlayShape
<1> QED
  <2>1. LET x == setPlayhead(pl, fr, p) IN PlayShape(x) /\ x.playing = pl.playing /\ x.timer = pl.timer
    BY <1>1, <1>2 DEF setPlayhead
  <2>2. PlayShape(onChunkArrived(pl, fr, p))
    BY <1>1 DEF onChunkArrived
  <2>3. PlayShape(stopPlay(pl))
    <3>1. PICK x : x = stopPlay(pl)
      OBVIOUS
    <3>2. x = [playing |-> FALSE, pos |-> pl.pos, disp |-> pl.disp, timer |-> pl.timer]
      BY <3>1 DEF stopPlay, PlayShape
    <3> QED
      BY <3>1, <3>2 DEF PlayShape
  <2> QED
    BY <2>1, <2>2, <2>3

\* The code has neither of these for itself, and each is needed: the reader may play the
\* previous replay while the next one loads, which then is fetched from the next one's
\* file (run ReplayTouch), and a file that comes whole may be kept under the name of a
\* replay opened since (WholeFile), which takes three openings to show.
Undisturbed == ~TouchesWhileLoading /\ NoRanges = {}

\* A request's bytes are the open replay's if the request is.
Sound(p) ==
    /\ p = [gen |-> p.gen, chunk |-> p.chunk, index |-> p.index,
            next |-> p.next, bytes |-> p.bytes, whole |-> p.whole]
    /\ p.gen \in 0 .. opened.gen /\ p.next \in Chunks /\ ~p.whole
    /\ p.gen = opened.gen => p.index = data /\ p.bytes = data

ShapeInv == NetShape(net) /\ PlayShape(play) /\ frames = [q \in Pos |-> frames[q]]
\* A file held whole is what its name says.
HeldInv == brpWhole.bytes = brpWhole.file
\* The clock runs, and the scrub timer is set, for an open replay only.
TouchInv == play.playing \/ play.timer => Open
\* Deltas that wait for their keyframe are the open replay's.
WaitingInv == Open => \A i \in Chunks : net.pending[i] \in {None, data}
\* The current file is the open replay's.
FileInv == Open => opened.file = data
\* Requests of the open replay's generation are of its bytes; none outlives its failure.
PieceInv == \A p \in pieces : Sound(p) /\ (p.gen = opened.gen => Open)

FrameInv ==
    /\ OpenInv /\ ShapeInv /\ HeldInv /\ TouchInv /\ FileInv /\ WaitingInv /\ PieceInv
    /\ FramesAreOfReplay

\* What is asked for, for the open replay, is the open replay's.
LEMMA Asked ==
    ASSUME BoundsAssumption, NoRanges = {}, OpenInv, FileInv, HeldInv, Open,
           NEW S, S.gen = opened.gen, S.file = opened.file, S.data = data, S.held = brpWhole, NEW i
    PROVE  Sound(Piece(S, i))
<1>1. 1 \in Chunks /\ opened.gen \in 0 .. opened.gen
  BY DEF BoundsAssumption, Chunks, OpenInv, OpenShape
<1> QED
  BY <1>1 DEF Piece, Sound, FileInv, HeldInv

\* A replay stays open while no invocation of loadReplay starts, ends or gets its head.
LEMMA OpenStays ==
    ASSUME UNCHANGED <<loads, data>>, opened'.gen = opened.gen
    PROVE  Open' = Open
  BY DEF Open, Loading

\* S is the fetcher of the open replay, with its own queue and requests.
OfTheOpen(S) ==
    /\ S.gen = opened.gen /\ S.file = opened.file /\ S.data = data /\ S.held = brpWhole
    /\ NetShape(S.net) /\ \A i \in Chunks : S.net.pending[i] \in {None, data}
    /\ \A p \in S.pieces : Sound(p)

\* A step of one of the open replay's requests, or of the reader: from S on, what is
\* left of the queue and the requests, by fetching more.
LEMMA FetchStep ==
    ASSUME FrameInv, BoundsAssumption, NoRanges = {}, Open,
           UNCHANGED <<opened, loads, notSim, data, brpWhole>>,
           NEW S, OfTheOpen(S), NEW T, Keeps(S, T), net' = T.net, pieces' = T.pieces,
           PlayShape(play'), frames' = [q \in Pos |-> frames'[q]],
           \A q \in Pos : frames'[q] \in {None, data}
    PROVE  FrameInv'
<1>1. \A i : Sound(Piece(S, i))
  BY Asked DEF FrameInv, OfTheOpen
<1>2. OpenInv' /\ Open'
  BY CalmOpen, OpenStays DEF FrameInv, OpenInv, OpenShape, OpenCalm
<1>3. \A p \in pieces' : Sound(p)
  BY <1>1 DEF Keeps, OfTheOpen
<1>4. PieceInv'
  BY <1>2, <1>3 DEF PieceInv, Sound
<1>5. ShapeInv' /\ WaitingInv'
  BY DEF Keeps, IsFetcher, ShapeInv, WaitingInv, OfTheOpen
<1>6. FramesAreOfReplay' /\ HeldInv' /\ TouchInv' /\ FileInv'
  BY <1>2 DEF FrameInv, FramesAreOfReplay, HeldInv, TouchInv, FileInv
<1> QED
  BY <1>2, <1>4, <1>5, <1>6 DEF FrameInv

\* A step that leaves what is decoded alone, and drops requests at most.
LEMMA QuietStep ==
    ASSUME FrameInv, OpenInv', Open' = Open, UNCHANGED <<data, frames, net>>,
           opened'.gen = opened.gen, opened'.file = opened.file,
           \A p \in pieces' : p \in pieces, HeldInv', PlayShape(play'), TouchInv'
    PROVE  FrameInv'
<1>1. PieceInv'
  BY DEF FrameInv, PieceInv, Sound
<1> QED
  BY <1>1 DEF FrameInv, ShapeInv, FileInv, WaitingInv, FramesAreOfReplay

\* A step after which no replay is open.
LEMMA ClosedStep ==
    ASSUME FrameInv, OpenInv', ~Open', NetShape(net'), UNCHANGED <<frames, pieces>>,
           opened'.gen \in Nat, opened'.gen >= opened.gen, \A p \in pieces : p.gen # opened'.gen,
           HeldInv', PlayShape(play'), ~play'.playing, ~play'.timer
    PROVE  FrameInv'
<1>1. PieceInv'
  BY DEF FrameInv, PieceInv, Sound, OpenInv, OpenShape
<1> QED
  BY <1>1 DEF FrameInv, ShapeInv, TouchInv, FileInv, WaitingInv, FramesAreOfReplay

\* loadReplay: from here until its head arrives no replay is open.
LEMMA LoadsFrames ==
    ASSUME FrameInv, NEW id \in Ids, loadReplay(id)
    PROVE  FrameInv'
<1>1. OpenInv'
  BY LoadsOpen DEF FrameInv
<1>2. opened'.gen = opened.gen + 1 /\ loads' = loads \cup {[gen |-> opened.gen + 1, id |-> id, at |-> "resolve"]}
  BY DEF FrameInv, OpenInv, OpenShape, loadReplay
<1>3. ~Open'
  <2>1. [gen |-> opened.gen + 1, id |-> id, at |-> "resolve"].gen = opened'.gen
    BY <1>2
  <2> QED
    BY <1>2, <2>1 DEF Open, Loading
<1>4. NetShape(net') /\ PlayShape(play') /\ ~play'.playing /\ ~play'.timer
  BY DEF loadReplay, FrameInv, ShapeInv, NetShape, PlayShape, stopPlay
<1>5. opened'.gen \in Nat /\ opened'.gen >= opened.gen /\ \A p \in pieces : p.gen # opened'.gen
  BY <1>2 DEF FrameInv, OpenInv, OpenShape, PieceInv, Sound
<1>6. HeldInv' /\ UNCHANGED <<frames, pieces>>
  BY DEF FrameInv, HeldInv, loadReplay
<1> QED
  BY <1>1, <1>3, <1>4, <1>5, <1>6, ClosedStep

\* The file is known; the file held whole is let go.
LEMMA ResolvesFrames ==
    ASSUME FrameInv, IdsAssumption, NEW l \in loads, resolveReplayFile(l)
    PROVE  FrameInv'
<1>1. OpenInv'
  BY LoadStepOpen DEF FrameInv
<1>2. CASE Superseded(l)
  <2>1. loads' = loads \ {l} /\ UNCHANGED <<opened, brpWhole, data, frames, net, pieces, play>>
    BY <1>2 DEF resolveReplayFile
  <2>2. Open' = Open
    BY <1>2, <2>1 DEF Open, Loading, Superseded
  <2> QED
    BY <1>1, <2>1, <2>2, QuietStep DEF FrameInv, HeldInv, ShapeInv, TouchInv
<1>3. CASE ~Superseded(l)
  <2>1. /\ loads' = (loads \ {l}) \cup {[l EXCEPT !.at = "head"]} /\ brpWhole' = NoFile
        /\ opened' = [opened EXCEPT !.file = Rid(l.id)] /\ UNCHANGED <<data, frames, net, pieces, play>>
    BY <1>3 DEF resolveReplayFile
  <2>2. opened'.gen = opened.gen /\ opened.gen \in Nat /\ [l EXCEPT !.at = "head"].gen = opened.gen
    BY <1>3, <2>1 DEF FrameInv, OpenInv, OpenShape, Superseded
  <2>3. ~Open /\ ~Open'
    BY <1>3, <2>1, <2>2 DEF Open, Loading, Superseded
  <2>4. HeldInv'
    BY <2>1 DEF HeldInv, NoFile
  <2> QED
    BY <1>1, <2>1, <2>2, <2>3, <2>4, ClosedStep DEF FrameInv, ShapeInv, TouchInv, PieceInv
<1> QED
  BY <1>2, <1>3

\* Without a head nothing is open.
LEMMA HeadFailsFrames ==
    ASSUME FrameInv, IdsAssumption, NEW l \in loads, HeadFails(l)
    PROVE  FrameInv'
<1>1. OpenInv'
  BY LoadStepOpen DEF FrameInv
<1>2. loads' = loads \ {l} /\ UNCHANGED <<opened, brpWhole, frames, net, pieces, play>>
  BY DEF HeadFails
<1>3. CASE Superseded(l)
  <2>1. data' = data
    BY <1>3 DEF HeadFails
  <2>2. Open' = Open
    BY <1>2, <1>3, <2>1 DEF Open, Loading, Superseded
  <2> QED
    BY <1>1, <1>2, <2>1, <2>2, QuietStep DEF FrameInv, HeldInv, ShapeInv, TouchInv
<1>4. CASE ~Superseded(l)
  <2>1. ~Open /\ ~Open'
    BY <1>4 DEF HeadFails, Open, Loading, Superseded
  <2> QED
    BY <1>1, <1>2, <2>1, ClosedStep DEF FrameInv, ShapeInv, HeldInv, TouchInv, PieceInv, OpenInv, OpenShape
<1> QED
  BY <1>3, <1>4

\* The streams that start ask for more, too.
LEMMA StartKeeps ==
    ASSUME NEW S, IsFetcher(S)
    PROVE  Keeps(S, StartStreams(S))
<1>1. PICK A : A = [S EXCEPT !.pieces = @ \cup {Piece(S, 0)}]
  OBVIOUS
<1>2. PICK B : B = ensureChunk(A, 1, TRUE)
  OBVIOUS
<1>3. PICK C : C = ensureChunk(B, 2, FALSE)
  OBVIOUS
<1>4. StartStreams(S) = pumpBackground(C)
  BY <1>1, <1>2, <1>3 DEF StartStreams
<1>5. Keeps(S, A)
  <2>1. A.pieces = S.pieces \cup {Piece(S, 0)} /\ IsFetcher(A) /\ A.net = S.net
    BY <1>1 DEF IsFetcher
  <2> QED
    <3>1. \A p \in A.pieces : p \in S.pieces \/ \E i : p = Piece(S, i)
      BY <2>1
    <3>2. A.gen = S.gen /\ A.file = S.file /\ A.data = S.data /\ A.held = S.held
      BY <1>1 DEF IsFetcher
    <3> QED
      BY <2>1, <3>1, <3>2 DEF Keeps
<1>6. Keeps(S, B)
  <2>1. Keeps(A, B)
    <3>1. IsFetcher(A)
      BY <1>5 DEF Keeps
    <3> QED
      BY <1>2, <3>1, EnsureKeeps
  <2> QED
    BY <1>5, <2>1, KeepsOn
<1>7. Keeps(S, C)
  <2>1. Keeps(B, C)
    <3>1. IsFetcher(B)
      BY <1>6 DEF Keeps
    <3> QED
      BY <1>3, <3>1, EnsureKeeps
  <2> QED
    BY <1>6, <2>1, KeepsOn
<1>8. IsFetcher(C)
  BY <1>7 DEF Keeps
<1> QED
  BY <1>4, <1>7, <1>8, BackgroundKeeps, KeepsOn

\* The head of the last invocation: every request under way is of an earlier generation.
LEMMA HeadArrivesFrames ==
    ASSUME FrameInv, IdsAssumption, BoundsAssumption, NoRanges = {}, NEW l \in loads, HeadArrives(l)
    PROVE  FrameInv'
<1>1. OpenInv'
  BY LoadStepOpen DEF FrameInv
<1>2. HeldInv' /\ ReadHead(l.id).bytes = ReadHead(l.id).file
  BY DEF HeadArrives, ReadHead, FrameInv, HeldInv
<1>3. CASE Superseded(l)
  <2>1. loads' = loads \ {l} /\ UNCHANGED <<opened, data, frames, net, pieces, play>>
    BY <1>3 DEF HeadArrives
  <2>2. Open' = Open
    BY <1>3, <2>1 DEF Open, Loading, Superseded
  <2> QED
    BY <1>1, <1>2, <2>1, <2>2, QuietStep DEF FrameInv, ShapeInv, TouchInv
<1>4. CASE ~Superseded(l)
  <2>1. PICK n : n = [net EXCEPT !.chunk = [i \in Chunks |-> 0], !.pending = [i \in Chunks |-> None]]
    OBVIOUS
  <2>2. PICK S : S = [Fetcher EXCEPT !.net = n, !.data = Rid(l.id), !.held = ReadHead(l.id)]
    OBVIOUS
  <2>3. PICK T : T = StartStreams(S)
    OBVIOUS
  <2>4. /\ data' = Rid(l.id) /\ frames' = NoFrames /\ play' = [play EXCEPT !.pos = 0, !.disp = -1]
        /\ net' = T.net /\ pieces' = T.pieces /\ loads' = loads \ {l}
        /\ brpWhole' = ReadHead(l.id) /\ UNCHANGED opened
    BY <1>4, <2>1, <2>2, <2>3 DEF HeadArrives, Fetching
  <2>5. NetShape(n) /\ \A i \in Chunks : n.pending[i] = None
    BY <2>1 DEF FrameInv, ShapeInv, NetShape
  <2>6. /\ IsFetcher(S) /\ S.pieces = pieces /\ S.net = n /\ S.data = data'
        /\ S.held = brpWhole' /\ S.gen = opened'.gen /\ S.file = opened'.file
    BY <2>2, <2>4, <2>5 DEF IsFetcher, Fetcher
  <2>7. Keeps(S, T)
    BY <2>3, <2>6, StartKeeps
  <2>8. ~Open /\ opened.gen = l.gen /\ opened'.file = data'
    BY <1>4, <2>4 DEF HeadArrives, Open, Loading, Superseded, FrameInv, OpenInv, LastLoad
  <2>9. Open'
    <3>1. \A k \in loads \ {l} : k.gen # l.gen
      BY DEF FrameInv, OpenInv, LastLoad
    <3>2. data' # None
      BY <2>4 DEF Rid, HeadArrives, IdsAssumption
    <3> QED
      BY <2>4, <2>8, <3>1, <3>2 DEF Open, Loading
  <2>10. FileInv' /\ \A p \in pieces : Sound(p)'
    BY <2>4, <2>8 DEF FrameInv, FileInv, PieceInv, Sound
  <2>11. \A i : Sound(Piece(S, i))'
    <3> TAKE i
    <3>1. 1 \in Chunks /\ opened'.gen \in 0 .. opened'.gen
      BY <1>1 DEF BoundsAssumption, Chunks, OpenInv, OpenShape
    <3> QED
      BY <1>2, <2>6, <2>8, <3>1 DEF Piece, Sound, HeldInv
  <2>12. PieceInv'
    BY <2>4, <2>6, <2>7, <2>9, <2>10, <2>11 DEF PieceInv, Keeps
  <2>13. ShapeInv' /\ WaitingInv'
    BY <2>4, <2>5, <2>6, <2>7 DEF FrameInv, Keeps, IsFetcher, ShapeInv, WaitingInv, PlayShape, NoFrames
  <2>14. FramesAreOfReplay' /\ TouchInv'
    BY <2>4, <2>9 DEF FramesAreOfReplay, TouchInv, NoFrames
  <2> QED
    BY <1>1, <1>2, <2>10, <2>12, <2>13, <2>14 DEF FrameInv
<1> QED
  BY <1>3, <1>4

\* A freed slot asks for more, and so do two chunks in a row.
LEMMA FreedKeeps ==
    ASSUME NEW S, IsFetcher(S)
    PROVE  Keeps(S, Freed(S))
<1>1. PICK A : A = [S EXCEPT !.net.inflight = @ - 1]
  OBVIOUS
<1>2. PICK B : B = pumpFetches(A)
  OBVIOUS
<1>3. Keeps(S, A) /\ IsFetcher(A)
  BY <1>1 DEF Keeps, IsFetcher, NetShape
<1>4. Keeps(A, B)
  BY <1>2, <1>3, PumpKeeps
<1>5. IsFetcher(B)
  BY <1>4 DEF Keeps
<1>6. Freed(S) = pumpBackground(B)
  BY <1>1, <1>2 DEF Freed
<1> QED
  BY <1>3, <1>4, <1>5, <1>6, BackgroundKeeps, KeepsOn

\* Two chunks asked for, one after the other.
LEMMA TwoKeep ==
    ASSUME NEW S, IsFetcher(S), NEW i, NEW j, NEW a, NEW b
    PROVE  Keeps(S, ensureChunk(ensureChunk(S, i, a), j, b))
<1>1. PICK A : A = ensureChunk(S, i, a)
  OBVIOUS
<1>2. Keeps(S, A)
  BY <1>1, EnsureKeeps
<1>3. IsFetcher(A)
  BY <1>2 DEF Keeps
<1>4. Keeps(A, ensureChunk(A, j, b))
  BY <1>3, EnsureKeeps
<1> QED
  BY <1>1, <1>2, <1>4, KeepsOn

\* The reader's steps and the clock's ask for two chunks, or for nothing.
LEMMA PlaysOn ==
    ASSUME FrameInv, BoundsAssumption, NoRanges = {}, Open,
           UNCHANGED <<opened, loads, notSim, data, brpWhole, frames>>, PlayShape(play'),
           \/ UNCHANGED <<net, pieces>>
           \/ \E i, j : Fetching(ensureChunk(ensureChunk(Fetcher, i, TRUE), j, FALSE))
    PROVE  FrameInv'
<1>1. OpenInv' /\ Open' = Open
  BY CalmOpen, OpenStays DEF FrameInv, OpenInv, OpenShape, OpenCalm
<1>2. CASE UNCHANGED <<net, pieces>>
  BY <1>1, <1>2, QuietStep DEF FrameInv, HeldInv, TouchInv
<1>3. CASE \E i, j : Fetching(ensureChunk(ensureChunk(Fetcher, i, TRUE), j, FALSE))
  <2>1. PICK i, j : Fetching(ensureChunk(ensureChunk(Fetcher, i, TRUE), j, FALSE))
    BY <1>3
  <2>2. PICK S : S = Fetcher
    OBVIOUS
  <2>3. PICK T : T = ensureChunk(ensureChunk(S, i, TRUE), j, FALSE)
    OBVIOUS
  <2>4. IsFetcher(S) /\ OfTheOpen(S)
    BY <2>2 DEF IsFetcher, Fetcher, OfTheOpen, FrameInv, ShapeInv, WaitingInv, PieceInv
  <2>5. Keeps(S, T)
    BY <2>3, <2>4, TwoKeep
  <2>6. net' = T.net /\ pieces' = T.pieces
    BY <2>1, <2>2, <2>3 DEF Fetching
  <2>7. frames' = [q \in Pos |-> frames'[q]] /\ \A q \in Pos : frames'[q] \in {None, data}
    BY DEF FrameInv, ShapeInv, FramesAreOfReplay
  <2> QED
    BY <2>4, <2>5, <2>6, <2>7, FetchStep
<1> QED
  BY <1>2, <1>3

\* The clock's tick, and the moment the reader dwells on.
LEMMA TicksFrames ==
    ASSUME FrameInv, BoundsAssumption, NoRanges = {}, tick \/ scrubTimer
    PROVE  FrameInv'
<1>1. Open /\ UNCHANGED <<opened, loads, notSim, data, brpWhole, frames>>
  BY DEF tick, scrubTimer, FrameInv, TouchInv
<1>2. CASE tick
  <2>1. PlayShape(play')
    <3>1. \A x, fr, q : PlayShape(x) => PlayShape(setPlayhead(x, fr, q)) /\ PlayShape(stopPlay(x))
      BY PlayKept
    <3> QED
      BY <1>2, <3>1 DEF tick, FrameInv, ShapeInv
  <2> QED
    BY <1>1, <1>2, <2>1, PlaysOn DEF tick
<1>3. CASE scrubTimer
  <2>1. PlayShape(play')
    BY <1>3 DEF scrubTimer, FrameInv, ShapeInv, PlayShape
  <2>2. data # None
    BY <1>1 DEF Open
  <2> QED
    BY <1>1, <1>3, <2>1, <2>2, PlaysOn DEF scrubTimer
<1> QED
  BY <1>2, <1>3

\* Playing and scrubbing, with no replay loading.
LEMMA ReadsFrames ==
    ASSUME FrameInv, BoundsAssumption, Undisturbed, startPlay \/ \E p \in Targets : scrub(p)
    PROVE  FrameInv'
<1>1. UNCHANGED <<opened, loads, notSim, data, brpWhole, frames, net, pieces>> /\ MayTouch
  BY DEF startPlay, scrub
<1>2. Open
  BY <1>1 DEF MayTouch, Open, Undisturbed
<1>3. PlayShape(play')
  <2>1. CASE startPlay
    <3>1. PICK x : play' = [x EXCEPT !.playing = TRUE] /\ x \in {setPlayhead(play, frames, 0), play}
      BY <2>1 DEF startPlay
    <3>2. PlayShape(x)
      BY <3>1, PlayKept DEF FrameInv, ShapeInv
    <3> QED
      BY <3>1, <3>2 DEF PlayShape
  <2>2. CASE \E p \in Targets : scrub(p)
    <3>1. PICK p \in Targets : play' = [setPlayhead(stopPlay(play), frames, p)
                                           EXCEPT !.timer = @ \/ frames[p] = None]
      BY <2>2 DEF scrub
    <3>2. PlayShape(setPlayhead(stopPlay(play), frames, p))
      BY PlayKept DEF FrameInv, ShapeInv
    <3> QED
      BY <3>1, <3>2 DEF PlayShape
  <2> QED
    BY <2>1, <2>2
<1> QED
  BY <1>1, <1>2, <1>3, PlaysOn DEF Undisturbed

\* Responses: only those of the open replay's generation are decoded.
LEMMA PieceFrames ==
    ASSUME FrameInv, BoundsAssumption, NoRanges = {}, NEW p \in pieces,
           WholeFile(p) \/ StalePiece(p) \/ fetchChunk(p) \/ streamKeys(p) \/ FetchFails(p) \/ KeysFail(p)
    PROVE  FrameInv'
<1>1. Sound(p) /\ (p.gen = opened.gen => Open)
  BY DEF FrameInv, PieceInv
<1>2. UNCHANGED <<opened, loads, notSim, data, brpWhole>>
  BY <1>1 DEF WholeFile, Sound, StalePiece, fetchChunk, streamKeys, FetchFails, KeysFail
<1>3. OpenInv' /\ Open' = Open
  BY <1>2, CalmOpen, OpenStays DEF FrameInv, OpenInv, OpenShape, OpenCalm
<1>4. CASE StalePiece(p) \/ KeysFail(p)
  BY <1>2, <1>3, <1>4, QuietStep DEF StalePiece, KeysFail, FrameInv, ShapeInv, HeldInv, TouchInv
<1>5. CASE fetchChunk(p)
  <2>1. Open /\ Decoded(p) = data
    BY <1>1, <1>5 DEF fetchChunk, Current, Sound, Decoded
  <2>2. PICK n : n = IF keyFrame(frames, p.chunk) # None THEN [net EXCEPT !.chunk[p.chunk] = 4]
                     ELSE [net EXCEPT !.pending[p.chunk] = data]
    OBVIOUS
  <2>3. PICK S : S = [Fetcher EXCEPT !.net = n, !.pieces = pieces \ {p}]
    OBVIOUS
  <2>4. PICK T : T = Freed(S)
    OBVIOUS
  <2>5. /\ Fetching(T)
        /\ play' = onChunkArrived(play, frames', p.chunk)
        /\ frames' = frames \/ frames' = WithDeltas(frames, p.chunk, data)
    BY <1>5, <2>1, <2>2, <2>3, <2>4 DEF fetchChunk
  <2>6. NetShape(n) /\ \A i \in Chunks : n.pending[i] \in {None, data}
    BY <2>1, <2>2 DEF FrameInv, ShapeInv, NetShape, WaitingInv
  <2>7. IsFetcher(S) /\ OfTheOpen(S)
    BY <2>3, <2>6 DEF IsFetcher, Fetcher, OfTheOpen, FrameInv, PieceInv
  <2>8. PlayShape(play')
    BY <2>5, PlayKept DEF FrameInv, ShapeInv
  <2>9. frames' = [q \in Pos |-> frames'[q]] /\ \A q \in Pos : frames'[q] \in {None, data}
    BY <2>1, <2>5 DEF WithDeltas, FrameInv, ShapeInv, FramesAreOfReplay
  <2>10. net' = T.net /\ pieces' = T.pieces /\ Keeps(S, T)
    BY <2>4, <2>5, <2>7, FreedKeeps DEF Fetching
  <2> QED
    BY <1>2, <2>1, <2>7, <2>8, <2>9, <2>10, FetchStep
<1>6. CASE FetchFails(p)
  <2>1. Open
    BY <1>1, <1>6 DEF FetchFails
  <2>2. PICK n : n = [net EXCEPT !.chunk[p.chunk] = IF keyFrame(frames, p.chunk) # None THEN 2 ELSE 0]
    OBVIOUS
  <2>3. PICK S : S = [Fetcher EXCEPT !.net = n, !.pieces = pieces \ {p}]
    OBVIOUS
  <2>4. PICK T : T = Freed(S)
    OBVIOUS
  <2>5. S = [Fetcher EXCEPT !.net.chunk[p.chunk] = IF keyFrame(frames, p.chunk) # None THEN 2 ELSE 0,
                            !.pieces = pieces \ {p}]
    BY <2>2, <2>3 DEF Fetcher
  <2>6. NetShape(n) /\ \A i \in Chunks : n.pending[i] \in {None, data}
    BY <2>1, <2>2 DEF FrameInv, ShapeInv, NetShape, WaitingInv
  <2>7. IsFetcher(S) /\ OfTheOpen(S)
    BY <2>3, <2>6 DEF IsFetcher, Fetcher, OfTheOpen, FrameInv, PieceInv
  <2>8. Fetching(T) /\ UNCHANGED <<play, frames>>
    BY <1>6, <2>4, <2>5 DEF FetchFails
  <2>9. /\ PlayShape(play')
        /\ frames' = [q \in Pos |-> frames'[q]] /\ \A q \in Pos : frames'[q] \in {None, data}
    BY <2>1, <2>8 DEF FrameInv, ShapeInv, FramesAreOfReplay
  <2>10. net' = T.net /\ pieces' = T.pieces /\ Keeps(S, T)
    BY <2>4, <2>7, <2>8, FreedKeeps DEF Fetching
  <2> QED
    BY <1>2, <2>1, <2>7, <2>9, <2>10, FetchStep
<1>7. CASE streamKeys(p)
  <2>1. Open /\ Decoded(p) = data /\ p.next \in Chunks
    BY <1>1, <1>7 DEF streamKeys, Current, Sound, Decoded
  <2>2. PICK i : i = p.next
    OBVIOUS
  <2>3. net.pending[i] \in {None, data}
    BY <2>1, <2>2 DEF FrameInv, WaitingInv
  <2>4. PICK state : net' = [net EXCEPT !.chunk[i] = state, !.pending[i] = None]
    BY <1>7, <2>2 DEF streamKeys
  <2>5. PICK keyed : keyed = [frames EXCEPT ![chunkStartIdx(i)] = data]
    OBVIOUS
  <2>6. /\ frames' = keyed \/ frames' = WithDeltas(keyed, i, data)
        /\ play' = onChunkArrived(play, frames', i)
        /\ pieces' = (pieces \ {p}) \cup IF i = NChunks THEN {} ELSE {[p EXCEPT !.next = i + 1]}
    BY <1>7, <2>1, <2>2, <2>3, <2>5 DEF streamKeys
  <2>7. NetShape(net') /\ \A j \in Chunks : net'.pending[j] \in {None, data}
    <3>1. NetShape(net') /\ net'.pending = [net.pending EXCEPT ![i] = None]
      BY <2>4 DEF FrameInv, ShapeInv, NetShape
    <3> QED
      BY <2>1, <3>1 DEF FrameInv, WaitingInv
  <2>8. \A r \in pieces' : Sound(r)
    <3>1. i # NChunks => Sound([p EXCEPT !.next = i + 1])
      BY <1>1, <2>1, <2>2 DEF Sound, Chunks, BoundsAssumption
    <3> QED
      BY <2>6, <3>1 DEF FrameInv, PieceInv
  <2>9. PlayShape(play')
    BY <2>6, PlayKept DEF FrameInv, ShapeInv
  <2>10. frames' = [q \in Pos |-> frames'[q]] /\ \A q \in Pos : frames'[q] \in {None, data}
    <3>1. keyed = [q \in Pos |-> keyed[q]] /\ \A q \in Pos : keyed[q] \in {None, data}
      BY <2>1, <2>5 DEF FrameInv, ShapeInv, FramesAreOfReplay
    <3> QED
      BY <2>6, <3>1 DEF WithDeltas
  <2>11. PICK n, ps : n = net' /\ ps = pieces'
    OBVIOUS
  <2>12. PICK S : S = [Fetcher EXCEPT !.net = n, !.pieces = ps]
    OBVIOUS
  <2>13. IsFetcher(S) /\ OfTheOpen(S) /\ S.net = n /\ S.pieces = ps
    BY <2>7, <2>8, <2>11, <2>12 DEF IsFetcher, Fetcher, OfTheOpen
  <2>14. Keeps(S, S)
    BY <2>13, KeepsItself
  <2> QED
    BY <1>2, <2>1, <2>9, <2>10, <2>11, <2>13, <2>14, FetchStep
<1>8. ~WholeFile(p)
  BY <1>1 DEF WholeFile, Sound
<1> QED
  BY <1>4, <1>5, <1>6, <1>7, <1>8

\* What the reader does.
LEMMA ReaderFrames ==
    ASSUME FrameInv, BoundsAssumption, Undisturbed, Reader
    PROVE  FrameInv'
<1>1. CASE \E id \in Ids : loadReplay(id)
  BY <1>1, LoadsFrames
<1>2. CASE \E id \in Ids : popstate(id)
  <2>1. PICK id \in Ids : popstate(id)
    BY <1>2
  <2>2. CASE id # opened.request \/ data = None
    BY <2>1, <2>2, LoadsFrames DEF popstate
  <2>3. CASE ~(id # opened.request \/ data = None)
    <3>1. /\ opened' = [opened EXCEPT !.home = FALSE] /\ play' = setPlayhead(play, frames, play.pos)
          /\ UNCHANGED <<loads, notSim, data, frames, net, pieces, brpWhole, fails>>
      BY <2>1, <2>3 DEF popstate
    <3>2. opened'.gen = opened.gen /\ opened'.file = opened.file /\ OpenInv'
      BY <3>1, CalmOpen DEF FrameInv, OpenInv, OpenShape, OpenCalm
    <3>3. PlayShape(play') /\ play'.playing = play.playing /\ play'.timer = play.timer
      BY <3>1, PlayKept DEF FrameInv, ShapeInv
    <3> QED
      BY <3>1, <3>2, <3>3, OpenStays, QuietStep DEF FrameInv, HeldInv, TouchInv
  <2> QED
    BY <2>1, <2>2, <2>3
<1>3. CASE showHome
  <2>1. opened'.gen = opened.gen /\ opened'.file = opened.file /\ OpenInv'
    BY <1>3, CalmOpen DEF showHome, FrameInv, OpenInv, OpenShape, OpenCalm
  <2>2. PlayShape(play') /\ ~play'.playing /\ play'.timer = play.timer
    BY <1>3 DEF showHome, FrameInv, ShapeInv, PlayShape, stopPlay
  <2>3. Open' = Open
    BY <1>3, <2>1, OpenStays DEF showHome
  <2> QED
    BY <1>3, <2>1, <2>2, <2>3, QuietStep DEF showHome, FrameInv, HeldInv, TouchInv
<1>4. CASE startPlay \/ \E p \in Targets : scrub(p)
  BY <1>4, ReadsFrames
<1> QED
  BY <1>1, <1>2, <1>3, <1>4 DEF Reader

\* With servers that honour Range and a reader who waits for the head, whatever was under
\* way when another replay was opened, only the open replay's bytes become its frames
\* (fetchChunk, streamKeys: "stale completions are dropped").
THEOREM DecodesItsOwn == Undisturbed => (Spec => []FramesAreOfReplay)
<1> SUFFICES ASSUME Undisturbed PROVE Spec => []FramesAreOfReplay
  OBVIOUS
<1>1. Init => FrameInv
  BY DEF Init, FrameInv, OpenInv, OpenShape, LastLoad, LatestOpenWins, Loading, ShapeInv, NetShape,
         PlayShape, NoFrames, HeldInv, NoFile, TouchInv, Open, FileInv, WaitingInv, PieceInv, FramesAreOfReplay
<1>2. FrameInv /\ [Next]_vars => FrameInv'
  <2> SUFFICES ASSUME FrameInv, [Next]_vars PROVE FrameInv'
    OBVIOUS
  <2> USE BoundsAssumption, IdsAssumption
  <2>1. CASE LoadStep
    BY <2>1, ResolvesFrames, HeadArrivesFrames, HeadFailsFrames DEF LoadStep, Undisturbed
  <2>2. CASE PieceStep \/ PieceFails
    BY <2>2, PieceFrames DEF PieceStep, PieceFails, Undisturbed
  <2>3. CASE Reader
    BY <2>3, ReaderFrames
  <2>4. CASE tick \/ scrubTimer
    BY <2>4, TicksFrames DEF Undisturbed
  <2>5. CASE UNCHANGED vars
    BY <2>5, CalmOpen, OpenStays, QuietStep
       DEF vars, FrameInv, OpenInv, OpenShape, OpenCalm, ShapeInv, HeldInv, TouchInv
  <2> QED
    BY <2>1, <2>2, <2>3, <2>4, <2>5 DEF Next
<1>3. FrameInv => FramesAreOfReplay
  BY DEF FrameInv
<1> QED
  BY <1>1, <1>2, <1>3, PTL DEF Spec
-----------------------------------------------------------------------------
(* The landing page's lists.                                               *)

\* All the proof needs of the types.
ListShape ==
    /\ list = [page |-> list.page, query |-> list.query, seq |-> list.seq,
               hasNext |-> list.hasNext, shown |-> list.shown]
    /\ list.shown = [q |-> list.shown.q, page |-> list.shown.page]
    /\ games = [after |-> games.after, next |-> games.next, trail |-> games.trail,
                rows |-> games.rows, seq |-> games.seq, shown |-> games.shown]
    /\ visits \in Seq([tab : {"replays", "games"}, q : Filters]) /\ visits # <<>>
    /\ \A r \in sent : r.what \in {"replays", "games"}
    /\ reads \in Nat /\ list.seq \in 0 .. reads /\ games.seq \in 0 .. reads
    /\ \A r \in sent : r.seq \in 0 .. reads

\* The newest read of the replay list asked for what the pager says, under the filters
\* in the URL, unless these were changed on the other list since.
ListInv ==
    /\ url.tab = "replays" => list.query = url.q
    /\ \A r \in sent : r.what = "replays" /\ r.seq = list.seq => r.at = list.page /\ list.query \in {Unset, r.q}
    /\ list.query # Unset /\ ~Out("replays", list.seq) /\ list.shown.q # "error"
          => list.shown = Page(list.query, list.page)

\* On the Games section its newest read is under the filters in the URL.
GamesInv ==
    url.tab = "games" =>
        /\ \A r \in sent : r.what = "games" /\ r.seq = games.seq => r.q = url.q
        /\ ~Out("games", games.seq) /\ games.shown # "error" => games.shown = url.q

ListsInv == ListShape /\ ListInv /\ GamesInv

\* What asking for a page of games leaves, and for a page of replays.
LEMMA GamesAsked ==
    ASSUME ListShape, NEW g, g = [after |-> g.after, next |-> g.next, trail |-> g.trail,
                                  rows |-> g.rows, seq |-> g.seq, shown |-> g.shown],
           NEW q, refreshGames(g, q)
    PROVE  /\ games' = [after |-> games'.after, next |-> games'.next, trail |-> games'.trail,
                        rows |-> games'.rows, seq |-> games'.seq, shown |-> games'.shown]
           /\ reads' \in Nat /\ games'.seq \in 0 .. reads' /\ list.seq \in 0 .. reads'
           /\ \A r \in sent' : r.what \in {"replays", "games"} /\ r.seq \in 0 .. reads'
           /\ \A r \in sent' : r.what = "games" /\ r.seq = games'.seq => r.q = q
           /\ \A r \in sent' : r.what = "replays" => r \in sent
           /\ \A r \in sent : r.what = "replays" => r \in sent'
           /\ \E r \in sent' : r.what = "games" /\ r.seq = games'.seq
<1>1. PICK a : a = Ask("games", q, g.after)
  OBVIOUS
<1>2. a.what = "games" /\ a.q = q /\ a.seq = reads + 1
  BY <1>1 DEF Ask
<1>3. reads' = reads + 1 /\ games' = [g EXCEPT !.seq = reads + 1] /\ sent' = sent \cup {a}
  BY <1>1 DEF refreshGames
<1> QED
  BY <1>2, <1>3 DEF ListShape

\* What asking for a page of replays leaves.
LEMMA ReplaysAsked ==
    ASSUME ListShape, NEW q, NEW page, reloadList("replays", q, page)
    PROVE  /\ list' = [page |-> list'.page, query |-> list'.query, seq |-> list'.seq,
                       hasNext |-> list'.hasNext, shown |-> list'.shown]
           /\ list'.shown = [q |-> list'.shown.q, page |-> list'.shown.page]
           /\ list'.query = q /\ games' = games
           /\ reads' \in Nat /\ games'.seq \in 0 .. reads' /\ list'.seq \in 0 .. reads'
           /\ \A r \in sent' : r.what \in {"replays", "games"} /\ r.seq \in 0 .. reads'
           /\ \A r \in sent' : r.what = "replays" /\ r.seq = list'.seq => r.at = list'.page /\ r.q = q
           /\ \A r \in sent' : r.what = "games" => r \in sent
           /\ \A r \in sent : r.what = "games" => r \in sent'
           /\ \E r \in sent' : r.what = "replays" /\ r.seq = list'.seq
<1>1. PICK a : a = Ask("replays", q, page)
  OBVIOUS
<1>2. a.what = "replays" /\ a.q = q /\ a.at = page /\ a.seq = reads + 1
  BY <1>1 DEF Ask
<1>3. /\ reads' = reads + 1 /\ list' = [list EXCEPT !.page = page, !.query = q, !.seq = reads + 1]
      /\ sent' = sent \cup {a} /\ games' = games
  BY <1>1 DEF reloadList
<1>4. list' = [page |-> page, query |-> q, seq |-> reads + 1, hasNext |-> list.hasNext, shown |-> list.shown]
  BY <1>3 DEF ListShape
<1>5. /\ list' = [page |-> list'.page, query |-> list'.query, seq |-> list'.seq,
                   hasNext |-> list'.hasNext, shown |-> list'.shown]
      /\ list'.shown = [q |-> list'.shown.q, page |-> list'.shown.page]
      /\ list'.query = q /\ list'.page = page /\ list'.seq = reads + 1
  BY <1>4 DEF ListShape
<1>6. /\ reads' \in Nat /\ games'.seq \in 0 .. reads' /\ list'.seq \in 0 .. reads'
      /\ \A r \in sent' : r.what \in {"replays", "games"} /\ r.seq \in 0 .. reads'
  BY <1>2, <1>3, <1>5 DEF ListShape
<1>7. \A r \in sent' : r.what = "replays" /\ r.seq = list'.seq => r = a
  BY <1>2, <1>3, <1>5 DEF ListShape
<1> QED
  BY <1>2, <1>3, <1>5, <1>6, <1>7

\* What the two sections become when the reader is on them with the filters q.
LEMMA OnGames ==
    ASSUME ListsInv, NEW g, g = [after |-> g.after, next |-> g.next, trail |-> g.trail,
                                 rows |-> g.rows, seq |-> g.seq, shown |-> g.shown],
           NEW q, refreshGames(g, q), url'.tab = "games", url'.q = q,
           visits' \in Seq([tab : {"replays", "games"}, q : Filters]), visits' # <<>>,
           list' = list \/ list' = [list EXCEPT !.query = Unset]
    PROVE  ListsInv'
<1>1. ListShape'
  BY GamesAsked DEF ListsInv, ListShape
<1>2. ListInv'
  <2>1. /\ list'.query \in {Unset, list.query} /\ list'.page = list.page /\ list'.seq = list.seq
        /\ list'.shown = list.shown
    BY DEF ListsInv, ListShape
  <2>2. \A r : r.what = "replays" => (r \in sent' <=> r \in sent)
    BY GamesAsked DEF ListsInv
  <2>3. url'.tab # "replays"
    OBVIOUS
  <2> QED
    BY <2>1, <2>2, <2>3 DEF ListsInv, ListInv, Out
<1>3. GamesInv'
  BY GamesAsked DEF ListsInv, GamesInv, Out
<1> QED
  BY <1>1, <1>2, <1>3 DEF ListsInv

\* The replay list, read for the URL's filters.
LEMMA OnReplays ==
    ASSUME ListsInv, NEW q, NEW page, reloadList("replays", q, page), url'.tab = "replays", url'.q = q,
           visits' \in Seq([tab : {"replays", "games"}, q : Filters]), visits' # <<>>
    PROVE  ListsInv'
<1>1. ListShape'
  BY ReplaysAsked DEF ListsInv, ListShape
<1>2. ListInv'
  BY ReplaysAsked DEF ListsInv, ListInv, Out
<1> QED
  BY <1>1, <1>2 DEF ListsInv, GamesInv

\* A reload of the section on screen, and a section that comes on screen.
LEMMA Reloads ==
    ASSUME ListsInv, NEW q, NEW page, reloadList(url'.tab, q, page), url'.q = q,
           visits' \in Seq([tab : {"replays", "games"}, q : Filters]), visits' # <<>>,
           url'.tab \in {"replays", "games"}
    PROVE  ListsInv'
<1>1. CASE url'.tab = "replays"
  BY <1>1, OnReplays
<1>2. CASE url'.tab = "games"
  <2>1. PICK g : g = [games EXCEPT !.after = First, !.next = First, !.trail = <<>>]
    OBVIOUS
  <2>2. g = [after |-> g.after, next |-> g.next, trail |-> g.trail,
             rows |-> g.rows, seq |-> g.seq, shown |-> g.shown]
    BY <2>1 DEF ListsInv, ListShape
  <2>3. refreshGames(g, q) /\ list' = [list EXCEPT !.query = Unset]
    BY <1>2, <2>1 DEF reloadList
  <2> QED
    BY <1>2, <2>2, <2>3, OnGames
<1> QED
  BY <1>1, <1>2

\* A section that comes on screen is read for the URL's filters, or need not be.
LEMMA Applies ==
    ASSUME ListsInv, applyHomeTab(url'.tab, url'.q),
           visits' \in Seq([tab : {"replays", "games"}, q : Filters]), visits' # <<>>,
           url'.tab \in {"replays", "games"}
    PROVE  ListsInv'
<1>1. CASE url'.tab = "games"
  BY <1>1, OnGames DEF applyHomeTab, ListsInv, ListShape
<1>2. CASE url'.tab = "replays" /\ list.query # url'.q
  BY <1>2, OnReplays DEF applyHomeTab
<1>3. CASE url'.tab = "replays" /\ list.query = url'.q
  BY <1>3 DEF applyHomeTab, ListsInv, ListShape, ListInv, GamesInv, Out, Page
<1> QED
  BY <1>1, <1>2, <1>3

\* A sequence without its last element.
LEMMA Shortened ==
    ASSUME NEW S, NEW v \in Seq(S), v # <<>>
    PROVE  LET w == SubSeq(v, 1, Len(v) - 1)
           IN w \in Seq(S) /\ Len(w) = Len(v) - 1 /\ \A i \in 1 .. Len(v) - 1 : w[i] = v[i]
<1>1. Len(v) \in Nat /\ Len(v) - 1 \in Nat
  OBVIOUS
<1>2. \A i \in 1 .. Len(v) - 1 : v[i] \in S /\ v[1 + i - 1] = v[i]
  BY <1>1
<1> DEFINE w == SubSeq(v, 1, Len(v) - 1)
<1>3. /\ w \in Seq(S) /\ Len(w) = IF 1 <= Len(v) - 1 THEN Len(v) - 1 - 1 + 1 ELSE 0
      /\ \A i \in 1 .. Len(v) - 1 - 1 + 1 : w[i] = v[1 + i - 1]
  BY <1>1, <1>2, SubSeqProperties
<1> HIDE DEF w
<1>4. Len(v) - 1 - 1 + 1 = Len(v) - 1 /\ Len(w) = Len(v) - 1
  <2> PICK n \in Nat : n = Len(v)
    BY <1>1
  <2>1. Len(w) = IF 1 <= n - 1 THEN n - 1 - 1 + 1 ELSE 0
    BY <1>3
  <2>2. n - 1 \in Nat
    BY <1>1
  <2> QED
    BY <2>1, <2>2
<1>5. \A i \in 1 .. Len(v) - 1 : w[i] = v[i]
  BY <1>2, <1>3, <1>4
<1> QED
  BY <1>3, <1>4, <1>5 DEF w

\* The URL is the last visit.
LEMMA UrlTyped ==
    ASSUME ListShape
    PROVE  /\ url \in [tab : {"replays", "games"}, q : Filters]
           /\ Len(visits) \in Nat \ {0} /\ visits # <<>>
<1>1. Len(visits) \in Nat \ {0} /\ visits # <<>>
  BY DEF ListShape
<1>2. PICK Here : Here = [tab : {"replays", "games"}, q : Filters]
  OBVIOUS
<1>3. visits \in Seq(Here)
  BY <1>2 DEF ListShape
<1>4. url \in Here
  BY <1>1, <1>3, ElementOfSeq DEF url
<1> QED
  BY <1>1, <1>2, <1>4

\* What the visitor does: a section is read afresh, a section comes on screen, the replay
\* list is paged, or the games list is.
LEMMA VisitorMoves ==
    ASSUME ListShape, Visitor
    PROVE  /\ visits' \in Seq([tab : {"replays", "games"}, q : Filters]) /\ visits' # <<>>
           /\ url' \in [tab : {"replays", "games"}, q : Filters] /\ mirror' = mirror
           /\ \/ url'.tab = url.tab /\ reloadList(url'.tab, url'.q, 0) /\ torn' = (torn /\ url.tab # "games")
              \/ applyHomeTab(url'.tab, url'.q) /\ torn' = IF url'.tab = "games" THEN Torn(url'.q) ELSE torn
              \/ url' = url /\ torn' = torn /\ url.tab = "replays" /\ \E page : reloadList("replays", url'.q, page)
              \/ url' = url /\ torn' = torn /\ (gamesPageNext \/ gamesPagePrev \/ Reload)
<1> PICK Here : Here = [tab : {"replays", "games"}, q : Filters]
  OBVIOUS
<1>0. url \in Here /\ Len(visits) \in Nat \ {0} /\ visits # <<>> /\ visits \in Seq(Here)
  BY UrlTyped DEF ListShape
<1>1. CASE \E q \in Filters : setFilter(q)
  <2>1. PICK q \in Filters : setFilter(q)
    BY <1>1
  <2>2. /\ visits' = [visits EXCEPT ![Len(visits)].q = q] /\ reloadList(url.tab, q, 0)
        /\ torn' = (torn /\ url.tab # "games") /\ mirror' = mirror
    BY <2>1 DEF setFilter
  <2>3. visits' \in Seq(Here) /\ Len(visits') = Len(visits) /\ visits'[Len(visits)] = [url EXCEPT !.q = q]
    BY <1>0, <2>2 DEF url
  <2>4. url' = Url(url.tab, q) /\ visits' # <<>>
    BY <1>0, <2>3 DEF url, Url
  <2> QED
    BY <1>0, <2>2, <2>3, <2>4 DEF Url
<1>2. CASE \E tab \in {"replays", "games"} : setHomeTab(tab)
  <2>1. PICK tab \in {"replays", "games"} : setHomeTab(tab)
    BY <1>2
  <2>2. /\ (visits' = visits /\ tab = url.tab) \/ visits' = Append(visits, Url(tab, url.q))
        /\ applyHomeTab(tab, url.q) /\ torn' = IF tab = "games" THEN Torn(url.q) ELSE torn
        /\ mirror' = mirror
    BY <2>1 DEF setHomeTab
  <2>3. visits' \in Seq(Here) /\ visits' # <<>> /\ url' = Url(tab, url.q) /\ url' \in Here
    <3>1. CASE visits' = visits /\ tab = url.tab
      BY <1>0, <3>1 DEF url, Url
    <3>2. CASE visits' = Append(visits, Url(tab, url.q))
      <4>1. Url(tab, url.q) \in Here
        BY <1>0 DEF Url
      <4> QED
        BY <1>0, <3>2, <4>1 DEF url
    <3> QED
      BY <2>2, <3>1, <3>2
  <2>4. url'.tab = tab /\ url'.q = url.q
    BY <2>3 DEF Url
  <2> QED
    BY <2>2, <2>3, <2>4
<1>3. CASE homePopstate
  <2>1. PICK to : to = visits[Len(visits) - 1]
    OBVIOUS
  <2>2. /\ Len(visits) > 1 /\ visits' = SubSeq(visits, 1, Len(visits) - 1) /\ mirror' = mirror
        /\ applyHomeTab(to.tab, to.q) /\ torn' = IF to.tab = "games" THEN Torn(to.q) ELSE torn
    BY <1>3, <2>1 DEF homePopstate
  <2>3. /\ visits' \in Seq(Here) /\ Len(visits') = Len(visits) - 1
        /\ visits'[Len(visits) - 1] = visits[Len(visits) - 1]
    <3>1. Len(visits) - 1 \in 1 .. Len(visits) - 1
      BY <1>0, <2>2
    <3> QED
      BY <1>0, <2>2, <3>1, Shortened
  <2>4. to \in Here
    <3>1. Len(visits) - 1 \in 1 .. Len(visits)
      BY <1>0, <2>2
    <3> QED
      BY <1>0, <2>1, <3>1, ElementOfSeq
  <2>5. url' = to /\ visits' # <<>>
    <3>1. url' = to
      BY <2>1, <2>3 DEF url
    <3>2. Len(visits') # 0
      BY <1>0, <2>2, <2>3
    <3> QED
      BY <3>1, <3>2
  <2> QED
    BY <2>2, <2>3, <2>4, <2>5
<1>4. CASE goPage(1) \/ goPage(-1)
  <2>1. /\ \E page : reloadList("replays", url.q, page)
        /\ url.tab = "replays" /\ UNCHANGED <<visits, mirror, torn>>
    BY <1>4 DEF goPage
  <2>2. url' = url
    BY <2>1 DEF url
  <2> QED
    BY <1>0, <2>1, <2>2
<1>5. CASE gamesPageNext \/ gamesPagePrev \/ Reload
  <2>1. UNCHANGED <<visits, mirror, torn>>
    BY <1>5 DEF gamesPageNext, gamesPagePrev, Reload
  <2>2. url' = url
    BY <2>1 DEF url
  <2> QED
    BY <1>0, <1>5, <2>1, <2>2
<1>6. CASE Relist
  <2>1. reloadList(url.tab, url.q, 0) /\ UNCHANGED <<visits, mirror>> /\ torn' = (torn /\ url.tab # "games")
    BY <1>6 DEF Relist
  <2>2. url' = url
    BY <2>1 DEF url
  <2> QED
    BY <1>0, <2>1, <2>2
<1> QED
  BY <1>1, <1>2, <1>3, <1>4, <1>5, <1>6 DEF Visitor

\* A click on the games list's pager asks for a page of it.
LEMMA Paged ==
    ASSUME ListShape, gamesPageNext \/ gamesPagePrev \/ Reload
    PROVE  \E g : /\ refreshGames(g, url.q) /\ url.tab = "games" /\ UNCHANGED list
                  /\ g = [after |-> g.after, next |-> g.next, trail |-> g.trail,
                          rows |-> g.rows, seq |-> g.seq, shown |-> g.shown]
<1>1. CASE gamesPageNext
  <2>1. PICK t : t = Append(games.trail, [after |-> games.after, rows |-> games.rows])
    OBVIOUS
  <2>2. PICK g : g = [games EXCEPT !.trail = t, !.after = games.next, !.next = First]
    OBVIOUS
  <2>3. refreshGames(g, url.q) /\ url.tab = "games" /\ UNCHANGED list
    BY <1>1, <2>1, <2>2 DEF gamesPageNext, GamesPager
  <2>4. g = [after |-> g.after, next |-> g.next, trail |-> g.trail,
             rows |-> g.rows, seq |-> g.seq, shown |-> g.shown]
    BY <2>2 DEF ListShape
  <2> QED
    BY <2>3, <2>4
<1>2. CASE gamesPagePrev
  <2>1. PICK t, a : /\ t = SubSeq(games.trail, 1, Len(games.trail) - 1)
                    /\ a = games.trail[Len(games.trail)].after
    OBVIOUS
  <2>2. PICK g : g = [games EXCEPT !.trail = t, !.after = a, !.next = First]
    OBVIOUS
  <2>3. refreshGames(g, url.q) /\ url.tab = "games" /\ UNCHANGED list
    BY <1>2, <2>1, <2>2 DEF gamesPagePrev, GamesPager
  <2>4. g = [after |-> g.after, next |-> g.next, trail |-> g.trail,
             rows |-> g.rows, seq |-> g.seq, shown |-> g.shown]
    BY <2>2 DEF ListShape
  <2> QED
    BY <2>3, <2>4
<1>3. CASE Reload
  BY <1>3 DEF Reload, ListShape
<1> QED
  BY <1>1, <1>2, <1>3

\* Whatever the visitor does is followed by a read of what then is on screen.
LEMMA VisitorKeeps ==
    ASSUME ListsInv, Visitor
    PROVE  ListsInv'
<1>1. /\ visits' \in Seq([tab : {"replays", "games"}, q : Filters]) /\ visits' # <<>>
      /\ url'.tab \in {"replays", "games"}
      /\ \/ reloadList(url'.tab, url'.q, 0)
         \/ applyHomeTab(url'.tab, url'.q)
         \/ url' = url /\ url.tab = "replays" /\ \E page : reloadList("replays", url'.q, page)
         \/ url' = url /\ (gamesPageNext \/ gamesPagePrev \/ Reload)
  BY VisitorMoves DEF ListsInv
<1>2. CASE url' = url /\ url.tab = "replays" /\ \E page : reloadList("replays", url'.q, page)
  BY <1>1, <1>2, OnReplays
<1>3. CASE url' = url /\ (gamesPageNext \/ gamesPagePrev \/ Reload)
  <2>1. PICK g : /\ refreshGames(g, url.q) /\ url.tab = "games" /\ UNCHANGED list
                 /\ g = [after |-> g.after, next |-> g.next, trail |-> g.trail,
                         rows |-> g.rows, seq |-> g.seq, shown |-> g.shown]
    BY <1>3, Paged DEF ListsInv
  <2> QED
    BY <1>1, <1>3, <2>1, OnGames
<1> QED
  BY <1>1, <1>2, <1>3, Reloads, Applies

\* A reply that is not the newest read's changes nothing that is shown.
LEMMA SiteKeeps ==
    ASSUME ListsInv, Site
    PROVE  ListsInv'
<1>1. CASE \E g \in Late : Mirrored(g)
  <2>1. UNCHANGED <<visits, list, games, sent, reads>>
    BY <1>1 DEF Mirrored
  <2>2. url' = url
    BY <2>1 DEF url
  <2> QED
    BY <2>1, <2>2 DEF ListsInv, ListShape, ListInv, GamesInv, Out
<1>2. CASE \E r \in sent : GamesReply(r) \/ Fails(r) \/ \E b \in BOOLEAN : ListReply(r, b)
  <2>1. PICK r \in sent : GamesReply(r) \/ Fails(r) \/ \E b \in BOOLEAN : ListReply(r, b)
    BY <1>2
  <2>2. sent' = sent \ {r} /\ UNCHANGED <<visits, reads>> /\ url' = url
    BY <2>1 DEF GamesReply, Fails, ListReply, url
  <2>3. CASE GamesReply(r)
    <3>1. /\ r.what = "games" /\ UNCHANGED list /\ games'.seq = games.seq
          /\ games' = [after |-> games'.after, next |-> games'.next, trail |-> games'.trail,
                       rows |-> games'.rows, seq |-> games'.seq, shown |-> games'.shown]
          /\ games'.shown = IF r.seq = games.seq THEN r.q ELSE games.shown
      BY <2>3 DEF GamesReply, Newest, ListsInv, ListShape
    <3>2. ListShape' /\ ListInv'
      BY <2>2, <3>1 DEF ListsInv, ListShape, ListInv, Out
    <3>3. GamesInv'
      BY <2>2, <3>1 DEF ListsInv, GamesInv, Out
    <3> QED
      BY <3>2, <3>3 DEF ListsInv
  <2>4. CASE r.what = "games" /\ Fails(r)
    <3>1. /\ UNCHANGED list /\ games'.seq = games.seq /\ games'.shown = "error"
          /\ games' = [after |-> games'.after, next |-> games'.next, trail |-> games'.trail,
                       rows |-> games'.rows, seq |-> games'.seq, shown |-> games'.shown]
      BY <2>4 DEF Fails, ListsInv, ListShape
    <3>2. ListShape' /\ ListInv' /\ GamesInv'
      BY <2>2, <2>4, <3>1 DEF ListsInv, ListShape, ListInv, GamesInv, Out
    <3> QED
      BY <3>2 DEF ListsInv
  <2>5. CASE r.what = "replays" /\ (Fails(r) \/ \E b \in BOOLEAN : ListReply(r, b))
    <3>1. /\ UNCHANGED games
          /\ list' = [page |-> list.page, query |-> list.query, seq |-> list.seq,
                      hasNext |-> list'.hasNext, shown |-> list'.shown]
          /\ list'.shown = [q |-> list'.shown.q, page |-> list'.shown.page]
          /\ r.seq # list.seq => list'.shown = list.shown
          /\ r.seq = list.seq => list'.shown.q = "error" \/ list'.shown = Page(r.q, r.at)
      <4>1. CASE Fails(r)
        BY <2>5, <4>1 DEF Fails, Newest, ListsInv, ListShape
      <4>2. CASE \E b \in BOOLEAN : ListReply(r, b)
        <5>1. PICK b \in BOOLEAN : ListReply(r, b)
          BY <4>2
        <5>2. CASE r.seq = list.seq
          <6>1. list' = [list EXCEPT !.hasNext = b, !.shown = Page(r.q, r.at)] /\ UNCHANGED games
            BY <2>5, <5>1, <5>2 DEF ListReply, Newest
          <6> QED
            BY <5>2, <6>1 DEF ListsInv, ListShape, Page
        <5>3. CASE r.seq # list.seq
          BY <2>5, <5>1, <5>3 DEF ListReply, Newest, ListsInv, ListShape
        <5> QED
          BY <5>2, <5>3
      <4> QED
        BY <2>5, <4>1, <4>2
    <3>2. ListShape' /\ GamesInv'
      BY <2>2, <2>5, <3>1 DEF ListsInv, ListShape, GamesInv, Out
    <3>3. ListInv'
      BY <2>2, <2>5, <3>1 DEF ListsInv, ListInv, Out, Page
    <3> QED
      BY <3>2, <3>3 DEF ListsInv
  <2> QED
    BY <2>1, <2>3, <2>4, <2>5 DEF ListsInv, ListShape, ListReply
<1> QED
  BY <1>1, <1>2 DEF Site

\* The lists' invariant holds on opening the page.
LEMMA ListsStart == ListInit => ListsInv
  BY ListingAssumption
     DEF ListInit, ListsInv, ListShape, ListInv, GamesInv, NoGames, Page, Url, url, Out, ListingAssumption

\* Every step keeps it.
LEMMA ListsKeep == ListsInv /\ [ListNext]_listVars => ListsInv'
<1> SUFFICES ASSUME ListsInv, [ListNext]_listVars PROVE ListsInv'
  OBVIOUS
<1>1. CASE UNCHANGED listVars
  <2>1. url' = url
    BY <1>1 DEF listVars, url
  <2> QED
    BY <1>1, <2>1 DEF listVars, ListsInv, ListShape, ListInv, GamesInv, Out
<1> QED
  BY <1>1, VisitorKeeps, SiteKeeps DEF ListNext

\* With the newest read answered, the section on screen shows the filters and the page
\* that the URL and the pager say, whatever replies came late, crossed or failed and
\* however the reader went to and fro ("ignore a reply overtaken by a newer request").
THEOREM NewestReadShown == ListSpec => []LatestIsShown
<1>1. ListsInv => LatestIsShown
  BY UrlTyped, ListingAssumption DEF ListsInv, ListInv, GamesInv, LatestIsShown, Page, Out, Unset, ListingAssumption
<1> QED
  BY <1>1, ListsStart, ListsKeep, PTL DEF ListSpec
-----------------------------------------------------------------------------
(* The pages of the mirror.                                                *)

\* A set of naturals that is not empty has a least element.
LEMMA Least ==
    ASSUME NEW T \in SUBSET Nat, T # {}
    PROVE  \E x \in T : \A y \in T : x <= y
<1>1. PICK R : R = OpToRel(<, Nat)
  OBVIOUS
<1>2. PICK x \in T : \A y \in T : ~ (<<y, x>> \in R)
  BY <1>1, NatLessThanWellFounded, WFMin
<1>3. \A y \in T : ~ (y < x)
  BY <1>1, <1>2 DEF OpToRel
<1> QED
  BY <1>3

\* How many of S come before a, in the order R.
Rank(R, S, a) == Cardinality({b \in S : <<b, a>> \in R})

StrictOn(R, S) ==
    /\ \A a \in S : <<a, a>> \notin R
    /\ \A a, b, c \in S : <<a, b>> \in R /\ <<b, c>> \in R => <<a, c>> \in R
    /\ \A a, b \in S : a = b \/ <<a, b>> \in R \/ <<b, a>> \in R

\* The first element of a finite set, in any order.
LEMMA Extreme ==
    ASSUME NEW S, IsFiniteSet(S), S # {}, NEW R, StrictOn(R, S)
    PROVE  \E a \in S : \A b \in S \ {a} : <<a, b>> \in R
<1> DEFINE ranks == {Rank(R, S, a) : a \in S}
<1>1. \A a \in S : IsFiniteSet({b \in S : <<b, a>> \in R}) /\ Rank(R, S, a) \in Nat
  BY FS_Subset, FS_CardinalityType DEF Rank
<1>2. ranks \in SUBSET Nat /\ ranks # {}
  BY <1>1
<1>3. PICK k \in ranks : \A y \in ranks : k <= y
  BY <1>2, Least
<1>4. PICK a \in S : \A b \in S : Rank(R, S, a) <= Rank(R, S, b)
  BY <1>3
<1>5. \A b \in S : <<b, a>> \notin R
  <2> SUFFICES ASSUME NEW b \in S, <<b, a>> \in R PROVE FALSE
    OBVIOUS
  <2> DEFINE A == {c \in S : <<c, a>> \in R}
             B == {c \in S : <<c, b>> \in R}
  <2>1. B \subseteq A /\ b \in A /\ b \notin B
    BY DEF StrictOn
  <2>2. Cardinality(A) = Rank(R, S, a) /\ Cardinality(B) = Rank(R, S, b) /\ IsFiniteSet(A)
    BY <1>1 DEF Rank
  <2> HIDE DEF A, B
  <2>3. Cardinality(B) <= Cardinality(A) /\ Cardinality(B) # Cardinality(A)
    BY <2>1, <2>2, FS_Subset
  <2>4. Rank(R, S, a) \in Nat /\ Rank(R, S, b) \in Nat /\ Rank(R, S, a) <= Rank(R, S, b)
    BY <1>1, <1>4
  <2> QED
    BY <2>2, <2>3, <2>4
<1> QED
  BY <1>5 DEF StrictOn

\* The mirror's order is one.
LEMMA Ordered ==
    ASSUME ListingAssumption
    PROVE  /\ \A a \in Universe : ~before(a, a)
           /\ \A a, b, c \in Universe : before(a, b) /\ before(b, c) => before(a, c)
           /\ \A a, b \in Universe : a = b \/ before(a, b) \/ before(b, a)
<1>1. \A a \in Universe : a \in Nat /\ EndUnix[a] \in Nat
  BY DEF ListingAssumption
<1> QED
  BY <1>1 DEF before

\* The first and the last of a set of games are in it, and at its ends.
LEMMA Ends ==
    ASSUME ListingAssumption, NEW S \in SUBSET Universe, S # {}
    PROVE  /\ FirstOf(S) \in S /\ \A b \in S \ {FirstOf(S)} : before(FirstOf(S), b)
           /\ LastOf(S) \in S /\ \A b \in S \ {LastOf(S)} : before(b, LastOf(S))
<1>0. IsFiniteSet(S)
  BY FS_Subset DEF ListingAssumption
<1>3. \A R : StrictOn(R, S) => \E y \in S : \A b \in S \ {y} : <<y, b>> \in R
  BY <1>0, Extreme
<1>1. PICK a \in S : \A b \in S \ {a} : before(a, b)
  <2>1. PICK R : R = {e \in S \X S : before(e[1], e[2])}
    OBVIOUS
  <2>2. StrictOn(R, S)
    BY <2>1, Ordered DEF StrictOn
  <2>3. \E y \in S : \A b \in S \ {y} : <<y, b>> \in R
    BY <1>3, <2>2
  <2> QED
    BY <2>1, <2>3
<1>2. PICK z \in S : \A b \in S \ {z} : before(b, z)
  <2>1. PICK R : R = {e \in S \X S : before(e[2], e[1])}
    OBVIOUS
  <2>2. StrictOn(R, S)
    BY <2>1, Ordered DEF StrictOn
  <2>3. \E y \in S : \A b \in S \ {y} : <<y, b>> \in R
    BY <1>3, <2>2
  <2> QED
    BY <2>1, <2>3
<1> QED
  BY <1>1, <1>2 DEF FirstOf, LastOf

\* What Take leaves out comes after all it takes; it leaves something out only when it is full.
LEMMA Taken ==
    ASSUME ListingAssumption, NEW S \in SUBSET Universe, NEW n \in Nat \ {0}
    PROVE  /\ Take(S, n) \subseteq S /\ Cardinality(Take(S, n)) \in Nat
           /\ \A a \in Take(S, n), b \in S \ Take(S, n) : before(a, b)
           /\ S # {} => Take(S, n) # {}
           /\ Take(S, n) = S \/ Cardinality(Take(S, n)) = n
<1> DEFINE T == Take(S, n)
           rank(a) == Cardinality({b \in S : before(b, a)})
<1>0. IsFiniteSet(S) /\ T \subseteq S /\ IsFiniteSet(T) /\ Cardinality(T) \in Nat
  BY FS_Subset, FS_CardinalityType DEF ListingAssumption, Take
<1>1. \A a \in S : IsFiniteSet({b \in S : before(b, a)}) /\ rank(a) \in Nat
  BY <1>0, FS_Subset, FS_CardinalityType
<1>2. \A a \in S : a \in T <=> rank(a) < n
  BY DEF Take
<1>3. \A a \in T, b \in S \ T : before(a, b)
  <2> SUFFICES ASSUME NEW a \in T, NEW b \in S \ T, ~before(a, b) PROVE FALSE
    OBVIOUS
  <2>1. before(b, a)
    BY <1>0, Ordered
  <2>2. {c \in S : before(c, b)} \subseteq {c \in S : before(c, a)}
    BY <1>0, <2>1, Ordered
  <2>3. rank(b) <= rank(a)
    BY <1>0, <1>1, <2>2, FS_Subset
  <2>4. rank(a) < n /\ ~(rank(b) < n) /\ rank(a) \in Nat /\ rank(b) \in Nat
    BY <1>0, <1>1, <1>2
  <2> HIDE DEF rank
  <2> QED
    BY <2>3, <2>4
<1>4. S # {} => T # {}
  <2> SUFFICES ASSUME S # {} PROVE T # {}
    OBVIOUS
  <2>1. {b \in S : before(b, FirstOf(S))} = {}
    BY Ends, Ordered
  <2>2. rank(FirstOf(S)) = 0
    BY <2>1, FS_EmptySet
  <2>3. FirstOf(S) \in S
    BY Ends
  <2>4. FirstOf(S) \in T <=> rank(FirstOf(S)) < n
    BY <1>2, <2>3
  <2> QED
    BY <2>2, <2>4
<1>5. T # S => Cardinality(T) >= n
  <2> SUFFICES ASSUME T # S PROVE Cardinality(T) >= n
    OBVIOUS
  <2>1. PICK g : g = FirstOf(S \ T)
    OBVIOUS
  <2>0. S \ T \in SUBSET Universe /\ S \ T # {}
    BY <1>0
  <2>2. g \in S \ T /\ \A b \in S \ T : b = g \/ before(g, b)
    <3>1. g \in S \ T /\ \A b \in (S \ T) \ {g} : before(g, b)
      BY <2>0, <2>1, Ends
    <3> HIDE DEF T
    <3> QED
      BY <3>1
  <2>3. {b \in S : before(b, g)} = T
    <3>1. \A b \in T : before(b, g) /\ b \in S
      BY <1>0, <1>3, <2>2
    <3>2. \A b \in S \ T : ~before(b, g)
      BY <1>0, <2>2, Ordered
    <3> HIDE DEF T
    <3> QED
      BY <1>0, <3>1, <3>2
  <2>4. rank(g) = Cardinality(T)
    BY <2>3
  <2> HIDE DEF rank, T
  <2> QED
    BY <1>0, <1>1, <1>2, <2>2, <2>4
<1>6. Cardinality(T) <= n
  <2>1. CASE T = {}
    BY <2>1, FS_EmptySet
  <2>2. CASE T # {}
    <3>1. PICK m : m = LastOf(T)
      OBVIOUS
    <3>2. m \in T /\ \A b \in T : b = m \/ before(b, m)
      BY <1>0, <2>2, <3>1, Ends
    <3> DEFINE P == {b \in S : before(b, m)}
    <3>3. T \subseteq P \cup {m}
      BY <1>0, <3>2
    <3>4. IsFiniteSet(P) /\ Cardinality(P) \in Nat /\ Cardinality(P) < n
      <4>1. Cardinality(P) = rank(m) /\ IsFiniteSet(P) /\ m \in S
        BY <1>0, <1>1, <3>2
      <4>2. rank(m) < n /\ rank(m) \in Nat
        BY <1>0, <1>1, <1>2, <3>2
      <4> QED
        BY <4>1, <4>2
    <3> HIDE DEF P, T
    <3>5. IsFiniteSet(P \cup {m}) /\ Cardinality(P \cup {m}) <= Cardinality(P) + 1
      <4>1. Cardinality(P \cup {m}) = IF m \in P THEN Cardinality(P) ELSE Cardinality(P) + 1
        BY <3>4, FS_AddElement
      <4>2. IsFiniteSet(P \cup {m})
        BY <3>4, FS_AddElement
      <4> QED
        BY <3>4, <4>1, <4>2
    <3>6. Cardinality(P \cup {m}) \in Nat /\ Cardinality(T) <= Cardinality(P \cup {m})
      BY <3>3, <3>5, FS_Subset, FS_CardinalityType
    <3> QED
      BY <1>0, <3>4, <3>5, <3>6
  <2> QED
    BY <2>1, <2>2
<1> QED
  BY <1>0, <1>3, <1>4, <1>5, <1>6

\* Take takes all of a set no larger than the page.
LEMMA AtMost ==
    ASSUME ListingAssumption, NEW S \in SUBSET Universe, NEW n \in Nat \ {0}, Cardinality(S) <= n
    PROVE  Take(S, n) = S
<1>1. IsFiniteSet(S) /\ Cardinality(S) \in Nat /\ Take(S, n) \subseteq S /\ Cardinality(Take(S, n)) \in Nat
  BY FS_Subset, FS_CardinalityType, Taken DEF ListingAssumption
<1>2. SUFFICES ASSUME Cardinality(Take(S, n)) = n PROVE Take(S, n) = S
  BY Taken
<1> PICK T : T = Take(S, n)
  OBVIOUS
<1>3. T \subseteq S /\ Cardinality(T) <= Cardinality(S)
  BY <1>1, FS_Subset
<1>4. Cardinality(T) = Cardinality(S)
  BY <1>1, <1>2, <1>3
<1> QED
  BY <1>1, <1>3, <1>4, FS_Subset

\* after the cursor c, in the mirror's order
After(c, g) == c = First \/ before(c, g)

\* A page of the mirror: what comes after the cursor, and all that matches up to the next one.
LEMMA PageOfMirror ==
    ASSUME ListingAssumption, mirror \subseteq Universe, NEW at, at = First \/ at \in Universe,
           NEW q \in Filters
    PROVE  LET page == gamesPage(GamesLimit, at, q)
           IN /\ \A g \in page.rows : g \in Universe /\ After(at, g)
              /\ page.next # First =>
                    /\ page.next \in Universe /\ After(at, page.next)
                    /\ \A g \in page.rows : ~before(page.next, g)
                    /\ \A g \in mirror : Matches(g, q) /\ After(at, g) /\ ~before(page.next, g) => g \in page.rows
<1> DEFINE base == {g \in mirror : at = First \/ before(at, g)}
           walks == branches(base, q)
           per == IF q = "all" THEN GamesLimit + 1
                  ELSE Max({GamesLimit + 1, ScanMax \div Cardinality(DOMAIN walks)})
           got == [n \in DOMAIN walks |-> Take(walks[n], per)]
           cut == {LastOf(got[n]) : n \in {n \in DOMAIN got : Cardinality(got[n]) = per}}
           frontier == FirstOf(cut)
           read == UNION {got[n] : n \in DOMAIN got}
           rows == IF cut = {} THEN read ELSE {g \in read : ~before(frontier, g)}
           hits == {g \in rows : Matches(g, q)}
           page == [rows |-> Take(hits, GamesLimit),
                    next |-> IF Cardinality(hits) > GamesLimit THEN LastOf(Take(hits, GamesLimit))
                             ELSE IF cut # {} THEN frontier ELSE First]
<1>11. gamesPage(GamesLimit, at, q) = page
  BY DEF gamesPage
<1>10. /\ page.rows = Take(hits, GamesLimit)
       /\ page.next = IF Cardinality(hits) > GamesLimit THEN LastOf(page.rows)
                      ELSE IF cut # {} THEN frontier ELSE First
  OBVIOUS
<1> HIDE DEF page
<1>9. hits = {g \in rows : Matches(g, q)}
  OBVIOUS
<1> HIDE DEF hits
<1>8. rows = IF cut = {} THEN read ELSE {g \in read : ~before(frontier, g)}
  OBVIOUS
<1> HIDE DEF rows
<1>7. read = UNION {got[n] : n \in DOMAIN got}
  OBVIOUS
<1>6. frontier = FirstOf(cut)
  OBVIOUS
<1> HIDE DEF read, frontier
<1>5. cut = {LastOf(got[n]) : n \in {n \in DOMAIN got : Cardinality(got[n]) = per}}
  OBVIOUS
<1> HIDE DEF cut
<1>4. got = [n \in DOMAIN walks |-> Take(walks[n], per)]
  OBVIOUS
<1> HIDE DEF got
<1>3. per = IF q = "all" THEN GamesLimit + 1
            ELSE Max({GamesLimit + 1, ScanMax \div Cardinality(DOMAIN walks)})
  OBVIOUS
<1> HIDE DEF per
<1>2. walks = branches(base, q)
  OBVIOUS
<1> HIDE DEF walks
<1>1. base = {g \in mirror : After(at, g)}
  BY DEF After
<1> HIDE DEF base
<1>12. base \subseteq Universe /\ GamesLimit \in Nat \ {0} /\ BranchMax \in Nat \ {0}
  BY <1>1 DEF ListingAssumption
<1>13. \A n \in DOMAIN walks : walks[n] \subseteq base
  BY <1>2 DEF branches
<1>14. \A g \in base : Matches(g, q) => \E n \in DOMAIN walks : g \in walks[n]
  <2> SUFFICES ASSUME NEW g \in base, Matches(g, q) PROVE \E n \in DOMAIN walks : g \in walks[n]
    OBVIOUS
  <2>1. CASE q = "players"
    <3>1. Count[g] \in Nat /\ Count[g] >= 2
      BY <1>12, <2>1 DEF Matches, ListingAssumption
    <3>2. DOMAIN walks = 2 .. BranchMax + 1
      BY <1>2, <2>1 DEF branches
    <3>3. CASE Count[g] > BranchMax
      <4>1. BranchMax + 1 \in DOMAIN walks /\ g \in walks[BranchMax + 1]
        BY <1>2, <1>12, <2>1, <3>1, <3>2, <3>3 DEF branches
      <4> QED
        BY <4>1
    <3>4. CASE ~(Count[g] > BranchMax)
      <4>1. Count[g] \in DOMAIN walks /\ g \in walks[Count[g]]
        BY <1>2, <1>12, <2>1, <3>1, <3>2, <3>4 DEF branches
      <4> QED
        BY <4>1
    <3> QED
      BY <3>3, <3>4
  <2>2. CASE q # "players"
    BY <1>2, <2>2 DEF branches
  <2> QED
    BY <2>1, <2>2
<1>15. per \in Nat \ {0}
  <2>1. \A a, b \in Int : Max({a, b}) \in {a, b} /\ Max({a, b}) >= a
    BY DEF Max
  <2>2. CASE q = "all"
    BY <1>3, <1>12, <2>2
  <2>3. CASE q # "all"
    <3>1. PICK k : k = ScanMax \div Cardinality(DOMAIN walks)
      OBVIOUS
    <3>2. k \in Int
      <4>1. \E n \in Nat \ {0} : Cardinality(DOMAIN walks) = n
        <5>1. DOMAIN walks = IF q = "players" THEN 2 .. BranchMax + 1 ELSE {1}
          BY <1>2 DEF branches
        <5>2. Cardinality({1}) = 1 /\ Cardinality(2 .. BranchMax + 1) = BranchMax
          <6>1. 2 \in Int /\ BranchMax + 1 \in Int /\ ~(2 > BranchMax + 1) /\ BranchMax + 1 - 2 + 1 = BranchMax
            BY <1>12
          <6>2. Cardinality(2 .. BranchMax + 1) =
                    IF 2 > BranchMax + 1 THEN 0 ELSE BranchMax + 1 - 2 + 1
            BY <6>1, FS_Interval
          <6> QED
            BY <6>1, <6>2, FS_Singleton
        <5> QED
          BY <1>12, <5>1, <5>2
      <4> QED
        BY <3>1, <4>1 DEF ListingAssumption
    <3> QED
      <4>1. per = Max({GamesLimit + 1, k})
        BY <1>3, <2>3, <3>1
      <4>2. Max({GamesLimit + 1, k}) \in {GamesLimit + 1, k} /\ Max({GamesLimit + 1, k}) >= GamesLimit + 1
        BY <1>12, <2>1, <3>2
      <4> QED
        BY <1>12, <3>2, <4>1, <4>2
  <2> QED
    BY <2>2, <2>3
<1>16. \A n \in DOMAIN walks :
          /\ got[n] \subseteq walks[n] /\ walks[n] \subseteq Universe
          /\ \A a \in got[n], b \in walks[n] \ got[n] : before(a, b)
          /\ got[n] = walks[n] \/ Cardinality(got[n]) = per
  BY <1>4, <1>12, <1>13, <1>15, Taken
<1>17. \A n \in DOMAIN walks : Cardinality(got[n]) = per => LastOf(got[n]) \in cut /\ LastOf(got[n]) \in got[n]
  <2> SUFFICES ASSUME NEW n \in DOMAIN walks, Cardinality(got[n]) = per
               PROVE  LastOf(got[n]) \in cut /\ LastOf(got[n]) \in got[n]
    OBVIOUS
  <2>1. got[n] # {} /\ got[n] \subseteq Universe
    BY <1>15, <1>16, FS_EmptySet
  <2> QED
    BY <1>4, <1>5, <2>1, Ends
<1>18. cut \subseteq base
  BY <1>4, <1>5, <1>13, <1>16, <1>17
<1>19. cut # {} => frontier \in base /\ \A c \in cut : ~before(c, frontier)
  BY <1>6, <1>12, <1>18, Ends, Ordered
<1>20. \A g \in base : Matches(g, q) /\ (cut # {} => ~before(frontier, g)) => g \in hits
  <2> SUFFICES ASSUME NEW g \in base, Matches(g, q), cut # {} => ~before(frontier, g) PROVE g \in hits
    OBVIOUS
  <2>1. PICK n \in DOMAIN walks : g \in walks[n]
    BY <1>14
  <2>2. g \in got[n]
    <3> SUFFICES ASSUME g \notin got[n] PROVE FALSE
      OBVIOUS
    <3>1. LastOf(got[n]) \in cut /\ before(LastOf(got[n]), g)
      BY <1>16, <1>17, <2>1
    <3>2. frontier \in base /\ ~before(LastOf(got[n]), frontier) /\ ~before(frontier, g)
      BY <1>19, <3>1
    <3> QED
      BY <1>12, <1>18, <3>1, <3>2, Ordered
  <2>3. g \in read
    BY <1>4, <1>7, <2>1, <2>2
  <2> QED
    BY <1>8, <1>9, <2>3
<1>21. hits \subseteq base /\ \A g \in hits : cut # {} => ~before(frontier, g)
  BY <1>4, <1>7, <1>8, <1>9, <1>13, <1>16
<1>22. page.rows = Take(hits, GamesLimit) /\ page.rows \subseteq hits
  <2>1. hits \in SUBSET Universe
    BY <1>12, <1>21
  <2>2. Take(hits, GamesLimit) \subseteq hits
    BY <1>12, <2>1, Taken
  <2> QED
    BY <1>10, <2>2
<1>23. \A g \in page.rows : g \in Universe /\ After(at, g)
  BY <1>1, <1>12, <1>21, <1>22
<1>24. CASE Cardinality(hits) > GamesLimit
  <2>1. page.next = LastOf(page.rows)
    BY <1>10, <1>24
  <2>2. page.rows # {}
    <3>1. hits # {}
      BY <1>12, <1>24, FS_EmptySet
    <3> QED
      BY <1>12, <1>21, <1>22, <3>1, Taken
  <2>3. page.next \in page.rows /\ \A g \in page.rows : g = page.next \/ before(g, page.next)
    <3>1. PICK P : P = page.rows
      OBVIOUS
    <3>2. P \in SUBSET Universe /\ P # {} /\ page.next = LastOf(P)
      BY <1>23, <2>1, <2>2, <3>1
    <3>3. LastOf(P) \in P /\ \A g \in P \ {LastOf(P)} : before(g, LastOf(P))
      BY <3>2, Ends
    <3> QED
      BY <3>1, <3>2, <3>3
  <2>4. \A g \in page.rows : ~before(page.next, g)
    BY <1>23, <2>3, Ordered
  <2>5. \A g \in mirror : Matches(g, q) /\ After(at, g) /\ ~before(page.next, g) => g \in page.rows
    <3> SUFFICES ASSUME NEW g \in base, Matches(g, q), ~before(page.next, g) PROVE g \in page.rows
      BY <1>1
    <3>1. cut # {} => ~before(frontier, g)
      BY <1>12, <1>19, <1>21, <1>22, <1>23, <2>3, Ordered
    <3>2. g \in hits
      BY <1>20, <3>1
    <3> QED
      BY <1>12, <1>21, <1>22, <2>3, <3>2, Taken
  <2> QED
    BY <1>11, <1>23, <2>3, <2>4, <2>5
<1>25. CASE ~(Cardinality(hits) > GamesLimit)
  <2>1. page.next = IF cut # {} THEN frontier ELSE First
    BY <1>10, <1>25
  <2>2. page.rows = hits
    <3>1. Cardinality(hits) \in Nat
      BY <1>12, <1>21, FS_Subset, FS_CardinalityType DEF ListingAssumption
    <3> QED
      BY <1>12, <1>21, <1>22, <1>25, <3>1, AtMost
  <2> SUFFICES ASSUME cut # {}, page.next = frontier
               PROVE  /\ page.next \in Universe /\ After(at, page.next)
                      /\ \A g \in page.rows : ~before(page.next, g)
                      /\ \A g \in mirror : Matches(g, q) /\ After(at, g) /\ ~before(page.next, g) => g \in page.rows
    BY <1>11, <1>23, <2>1
  <2> QED
    BY <1>1, <1>12, <1>19, <1>20, <1>21, <2>2
<1> QED
  BY <1>24, <1>25
-----------------------------------------------------------------------------
(* The walk through the games.                                             *)

Games == [after : {First} \cup Universe, rows : SUBSET Universe]

\* The cursor c after the first n pages of the trail t: none of their games comes after it.
PastPages(t, c, n) ==
    /\ n > 0 => c # First
    /\ \A j \in 1 .. n : \A g \in t[j].rows : ~before(c, g)

\* A trail and the cursor it has led to: each page is of games after its own cursor.
Trodden(t, c) ==
    /\ t \in Seq(Games) /\ c \in {First} \cup Universe
    /\ \A i \in 1 .. Len(t) : PastPages(t, t[i].after, i - 1) /\ \A g \in t[i].rows : After(t[i].after, g)
    /\ PastPages(t, c, Len(t))

\* The first n pages of t show every game that matches q up to the cursor c.
ShownUpTo(t, c, n, q) ==
    c # First => \A g \in Universe \ Late : Matches(g, q) /\ ~before(c, g) => \E j \in 1 .. n : g \in t[j].rows

WholeTrail(t, c, q) ==
    /\ \A i \in 1 .. Len(t) : ShownUpTo(t, t[i].after, i - 1, q)
    /\ ShownUpTo(t, c, Len(t), q)

\* A page after the cursor c with the cursor n of the next, and one that misses nothing in between.
PageAt(c, n, rows) ==
    /\ rows \subseteq Universe /\ n \in {First} \cup Universe
    /\ n # First => After(c, n) /\ \A g \in rows : After(c, g) /\ ~before(n, g)
WholePage(c, n, rows, q) ==
    n # First => \A g \in Universe \ Late : Matches(g, q) /\ After(c, g) /\ ~before(n, g) => g \in rows

\* A walk of the filter q that misses nothing, and one that has not begun.
WholeWalk(q) ==
    WholeTrail(games.trail, games.after, q) /\ WholePage(games.after, games.next, games.rows, q)
AtStart == games.after = First /\ games.next = First /\ games.trail = <<>>

\* The trail and the page on screen are in the mirror's order, and the newest read is for
\* the page at the cursor.
WalkInv ==
    /\ Universe \ Late \subseteq mirror /\ mirror \subseteq Universe
    /\ Trodden(games.trail, games.after) /\ PageAt(games.after, games.next, games.rows)
    /\ games.shown \in Filters \cup {Unset, "error"}
    /\ Out("games", games.seq) \/ games.shown = "error" \/ \A g \in games.rows : After(games.after, g)
    /\ \A r \in sent : r.what = "games" => r.q \in Filters
    /\ \A r \in sent : r.what = "games" /\ r.seq = games.seq => r.at = games.after
    /\ \A r, s \in sent : r.seq = s.seq => r = s

\* The walk misses nothing of what the URL's filter matches; while the replay list is on
\* screen, nothing of what the filter it was made under matches.
FilterInv ==
    ~torn =>
        /\ url.tab = "games" => WholeWalk(url.q) /\ (games.shown \in {url.q, "error"} \/ AtStart)
        /\ url.tab = "replays" =>
              /\ games.shown \in Filters => WholeWalk(games.shown)
              /\ \A r \in sent : r.what = "games" /\ r.seq = games.seq => WholeWalk(r.q)

WholeInv == ListsInv /\ WalkInv /\ FilterInv

\* The walk starts over.
LEMMA WalkStarts ==
    /\ Trodden(<<>>, First)
    /\ \A q : WholeTrail(<<>>, First, q)
    /\ \A c, rows : rows \subseteq Universe => PageAt(c, First, rows)
    /\ \A c, rows, q : WholePage(c, First, rows, q)
  BY DEF Trodden, PastPages, WholeTrail, ShownUpTo, PageAt, WholePage

\* It goes on from the page it is at, and back to the page before.
LEMMA WalkGoesOn ==
    ASSUME ListingAssumption, NEW t, NEW c, NEW n, NEW rows, Trodden(t, c), PageAt(c, n, rows), n # First,
           NEW q
    PROVE  LET u == Append(t, [after |-> c, rows |-> rows])
           IN /\ Trodden(u, n)
              /\ WholeTrail(t, c, q) /\ WholePage(c, n, rows, q) => WholeTrail(u, n, q)
<1> PICK u : u = Append(t, [after |-> c, rows |-> rows])
  OBVIOUS
<1>1. t \in Seq(Games) /\ [after |-> c, rows |-> rows] \in Games /\ Len(t) \in Nat
  BY DEF Trodden, PageAt, Games
<1>2. u \in Seq(Games) /\ Len(u) = Len(t) + 1
  <2> PICK G : G = Games
    OBVIOUS
  <2>1. t \in Seq(G) /\ [after |-> c, rows |-> rows] \in G
    BY <1>1
  <2> QED
    BY <2>1
<1>3. \A i \in 1 .. Len(t) : u[i] = t[i] /\ t[i] \in Games
  <2> PICK G : G = Games
    OBVIOUS
  <2>1. t \in Seq(G)
    BY <1>1
  <2> QED
    BY <1>1, <2>1
<1>4. u[Len(t) + 1].after = c /\ u[Len(t) + 1].rows = rows
  BY <1>1
<1>5. \A j \in 1 .. Len(t) + 1 : j \in 1 .. Len(t) \/ j = Len(t) + 1
  BY <1>1
<1>6. \A k, i : i \in 1 .. Len(t) + 1 /\ k = i - 1 =>
          /\ PastPages(t, t[i].after, k) => PastPages(u, t[i].after, k)
          /\ ShownUpTo(t, t[i].after, k, q) => ShownUpTo(u, t[i].after, k, q)
  <2> SUFFICES ASSUME NEW i \in 1 .. Len(t) + 1
               PROVE  /\ PastPages(t, t[i].after, i - 1) => PastPages(u, t[i].after, i - 1)
                      /\ ShownUpTo(t, t[i].after, i - 1, q) => ShownUpTo(u, t[i].after, i - 1, q)
    OBVIOUS
  <2>1. \A j \in 1 .. i - 1 : j \in 1 .. Len(t) /\ u[j] = t[j]
    BY <1>1, <1>3
  <2> QED
    BY <2>1 DEF PastPages, ShownUpTo
<1>7. PastPages(u, c, Len(t)) /\ (ShownUpTo(t, c, Len(t), q) => ShownUpTo(u, c, Len(t), q))
  BY <1>3 DEF Trodden, PastPages, ShownUpTo
<1>8. \A i \in 1 .. Len(u) : PastPages(u, u[i].after, i - 1) /\ \A g \in u[i].rows : After(u[i].after, g)
  <2> SUFFICES ASSUME NEW i \in 1 .. Len(t) + 1
               PROVE  PastPages(u, u[i].after, i - 1) /\ \A g \in u[i].rows : After(u[i].after, g)
    BY <1>2
  <2>1. CASE i \in 1 .. Len(t)
    <3>1. u[i] = t[i] /\ PastPages(t, t[i].after, i - 1) /\ \A g \in t[i].rows : After(t[i].after, g)
      BY <1>3, <2>1 DEF Trodden
    <3> QED
      BY <1>6, <3>1
  <2>2. CASE i = Len(t) + 1
    <3>1. i - 1 = Len(t)
      BY <1>1, <2>2
    <3> QED
      BY <1>4, <1>7, <2>2, <3>1 DEF PageAt
  <2> QED
    BY <1>5, <2>1, <2>2
<1>9. PastPages(u, n, Len(u))
  <2>1. \A j \in 1 .. Len(t) : \A g \in u[j].rows : ~before(n, g)
    <3> SUFFICES ASSUME NEW j \in 1 .. Len(t), NEW g \in t[j].rows PROVE ~before(n, g)
      BY <1>3
    <3>1. c # First /\ ~before(c, g)
      BY <1>1 DEF Trodden, PastPages
    <3>2. before(c, n) /\ c \in Universe /\ n \in Universe
      BY <3>1 DEF PageAt, After, Trodden
    <3>3. g \in Universe
      BY <1>3 DEF Games
    <3> QED
      BY <3>1, <3>2, <3>3, Ordered
  <2>2. \A j \in 1 .. Len(u) : \A g \in u[j].rows : ~before(n, g)
    BY <1>2, <1>4, <1>5, <2>1 DEF PageAt
  <2> QED
    BY <2>2 DEF PastPages
<1>10. Trodden(u, n)
  BY <1>2, <1>8, <1>9 DEF Trodden, PageAt
<1>11. ASSUME WholeTrail(t, c, q), WholePage(c, n, rows, q)
       PROVE  WholeTrail(u, n, q)
  <2>1. \A i \in 1 .. Len(u) : ShownUpTo(u, u[i].after, i - 1, q)
    <3> SUFFICES ASSUME NEW i \in 1 .. Len(t) + 1 PROVE ShownUpTo(u, u[i].after, i - 1, q)
      BY <1>2
    <3>1. CASE i \in 1 .. Len(t)
      BY <1>3, <1>6, <1>11, <3>1 DEF WholeTrail
    <3>2. CASE i = Len(t) + 1
      <4>1. i - 1 = Len(t)
        BY <1>1, <3>2
      <4> QED
        BY <1>4, <1>7, <1>11, <3>2, <4>1 DEF WholeTrail
    <3> QED
      BY <1>5, <3>1, <3>2
  <2>2. ShownUpTo(u, n, Len(u), q)
    <3> SUFFICES ASSUME NEW g \in Universe \ Late, Matches(g, q), ~before(n, g)
                 PROVE  \E j \in 1 .. Len(t) + 1 : g \in u[j].rows
      BY <1>2 DEF ShownUpTo
    <3>1. CASE After(c, g)
      <4>1. g \in rows
        BY <1>11, <3>1 DEF WholePage
      <4>2. Len(t) + 1 \in 1 .. Len(t) + 1
        BY <1>1
      <4> QED
        BY <1>4, <4>1, <4>2
    <3>2. CASE ~After(c, g)
      <4>1. PICK j \in 1 .. Len(t) : g \in t[j].rows
        BY <1>11, <3>2 DEF WholeTrail, ShownUpTo, After
      <4>2. u[j] = t[j] /\ j \in 1 .. Len(t) + 1
        BY <1>1, <1>3
      <4> QED
        BY <4>1, <4>2
    <3> QED
      BY <3>1, <3>2
  <2> QED
    BY <2>1, <2>2 DEF WholeTrail
<1> QED
  BY <1>10, <1>11

\* Back along the trail is where the walk was before.
LEMMA WalkGoesBack ==
    ASSUME NEW t, NEW c, Trodden(t, c), t # <<>>, NEW u, u = SubSeq(t, 1, Len(t) - 1)
    PROVE  /\ Trodden(u, t[Len(t)].after)
           /\ \A q : WholeTrail(t, c, q) => WholeTrail(u, t[Len(t)].after, q)
<1>1. t \in Seq(Games) /\ Len(t) \in Nat \ {0}
  BY DEF Trodden
<1>2. u \in Seq(Games) /\ Len(u) = Len(t) - 1 /\ t[Len(t)] \in Games /\ \A i \in 1 .. Len(t) - 1 : u[i] = t[i]
  <2> PICK G : G = Games
    OBVIOUS
  <2>1. t \in Seq(G) /\ Len(t) \in 1 .. Len(t)
    BY <1>1
  <2>2. t[Len(t)] \in G
    BY <2>1, ElementOfSeq
  <2> QED
    BY <2>1, <2>2, Shortened
<1>3. t[Len(t)].after \in {First} \cup Universe
  BY <1>2 DEF Games
<1>4. \A i \in 1 .. Len(t) :
          /\ PastPages(t, t[i].after, i - 1) => PastPages(u, t[i].after, i - 1)
          /\ \A q : ShownUpTo(t, t[i].after, i - 1, q) => ShownUpTo(u, t[i].after, i - 1, q)
  <2> SUFFICES ASSUME NEW i \in 1 .. Len(t)
               PROVE  /\ PastPages(t, t[i].after, i - 1) => PastPages(u, t[i].after, i - 1)
                      /\ \A q : ShownUpTo(t, t[i].after, i - 1, q) => ShownUpTo(u, t[i].after, i - 1, q)
    OBVIOUS
  <2>1. \A j \in 1 .. i - 1 : u[j] = t[j]
    BY <1>1, <1>2
  <2> QED
    BY <2>1 DEF PastPages, ShownUpTo
<1>5. Len(t) \in 1 .. Len(t) /\ \A i \in 1 .. Len(u) : i \in 1 .. Len(t) /\ u[i] = t[i]
  BY <1>1, <1>2
<1>6. Trodden(u, t[Len(t)].after)
  BY <1>2, <1>3, <1>4, <1>5 DEF Trodden
<1>7. \A q : WholeTrail(t, c, q) => WholeTrail(u, t[Len(t)].after, q)
  BY <1>2, <1>4, <1>5 DEF WholeTrail
<1> QED
  BY <1>6, <1>7

\* The walk misses nothing as long as its trail, cursors and page are what they were.
LEMMA SameWalk ==
    ASSUME games'.after = games.after, games'.next = games.next,
           games'.trail = games.trail, games'.rows = games.rows
    PROVE  /\ \A q : WholeWalk(q)' <=> WholeWalk(q)
           /\ AtStart' <=> AtStart
  BY DEF WholeWalk, AtStart, WholeTrail, WholePage, ShownUpTo

\* Asking for a page of games at the cursor of the walk g.
LEMMA AskKeeps ==
    ASSUME ListShape, WalkInv, NEW g, g = [after |-> g.after, next |-> g.next, trail |-> g.trail,
                                           rows |-> g.rows, seq |-> g.seq, shown |-> g.shown],
           NEW q \in Filters, refreshGames(g, q), mirror' = mirror,
           Trodden(g.trail, g.after), PageAt(g.after, g.next, g.rows), g.shown = games.shown
    PROVE  /\ WalkInv'
           /\ games'.after = g.after /\ games'.next = g.next /\ games'.trail = g.trail
           /\ games'.rows = g.rows /\ games'.shown = games.shown
           /\ \A r \in sent' : r.what = "games" /\ r.seq = games'.seq => r.q = q
<1>1. PICK a : a = Ask("games", q, g.after)
  OBVIOUS
<1>2. a.what = "games" /\ a.q = q /\ a.at = g.after /\ a.seq = reads + 1
  BY <1>1 DEF Ask
<1>3. games' = [g EXCEPT !.seq = reads + 1] /\ sent' = sent \cup {a}
  BY <1>1 DEF refreshGames
<1>4. /\ games'.after = g.after /\ games'.next = g.next /\ games'.trail = g.trail
      /\ games'.rows = g.rows /\ games'.shown = games.shown /\ games'.seq = reads + 1
  BY <1>3
<1>5. \A r \in sent : r.seq \in 0 .. reads /\ r.seq # reads + 1
  BY DEF ListShape
<1>6. \A r \in sent' : r.seq = games'.seq => r = a
  BY <1>2, <1>3, <1>4, <1>5
<1>7. Out("games", games.seq)'
  BY <1>2, <1>3, <1>4 DEF Out
<1>8. WalkInv'
  <2>1. \A r, s \in sent' : r.seq = s.seq => r = s
    BY <1>2, <1>3, <1>5 DEF WalkInv
  <2>2. \A r \in sent' : r.what = "games" => r.q \in Filters
    BY <1>2, <1>3 DEF WalkInv
  <2>3. (Trodden(games.trail, games.after) /\ PageAt(games.after, games.next, games.rows))'
    BY <1>4
  <2> QED
    BY <1>2, <1>4, <1>6, <1>7, <2>1, <2>2, <2>3 DEF WalkInv
<1> QED
  BY <1>2, <1>4, <1>6, <1>8

\* Asking for replays is nothing to the walk.
LEMMA ReplaysAside ==
    ASSUME ListShape, WalkInv, NEW q, NEW page, reloadList("replays", q, page), mirror' = mirror
    PROVE  WalkInv' /\ games' = games /\ \A r : r.what = "games" => (r \in sent' <=> r \in sent)
<1>1. PICK a : a = Ask("replays", q, page)
  OBVIOUS
<1>2. a.what = "replays" /\ a.seq = reads + 1
  BY <1>1 DEF Ask
<1>3. games' = games /\ sent' = sent \cup {a}
  BY <1>1 DEF reloadList
<1>4. \A r \in sent : r.seq \in 0 .. reads /\ r.seq # reads + 1
  BY DEF ListShape
<1>5. \A r : r.what = "games" => (r \in sent' <=> r \in sent)
  BY <1>2, <1>3
<1>6. \A r, s \in sent' : r.seq = s.seq => r = s
  BY <1>2, <1>3, <1>4 DEF WalkInv
<1>7. Out("games", games.seq)' <=> Out("games", games.seq)
  BY <1>3, <1>5 DEF Out
<1>8. (Trodden(games.trail, games.after) /\ PageAt(games.after, games.next, games.rows))'
  BY <1>3 DEF WalkInv
<1> QED
  BY <1>3, <1>5, <1>6, <1>7, <1>8 DEF WalkInv

\* While the games list and what is asked of it stay, a walk put aside is what it was.
LEMMA WalkAside ==
    ASSUME FilterInv, games' = games, \A r : r.what = "games" => (r \in sent' => r \in sent),
           url'.tab = "replays", url.tab = "replays", ~torn' => ~torn
    PROVE  FilterInv'
<1>1. \A q : WholeWalk(q)' <=> WholeWalk(q)
  BY SameWalk
<1> QED
  BY <1>1 DEF FilterInv

\* A reload starts the walk over, or leaves it aside.
LEMMA Restarts ==
    ASSUME WholeInv, reloadList(url'.tab, url'.q, 0), url'.tab = url.tab, mirror' = mirror,
           torn' = (torn /\ url.tab # "games"), url' \in [tab : {"replays", "games"}, q : Filters]
    PROVE  WalkInv' /\ FilterInv'
<1>1. CASE url'.tab = "games"
  <2>1. PICK g : g = [games EXCEPT !.after = First, !.next = First, !.trail = <<>>]
    OBVIOUS
  <2>2. /\ g = [after |-> g.after, next |-> g.next, trail |-> g.trail,
                rows |-> g.rows, seq |-> g.seq, shown |-> g.shown]
        /\ g.after = First /\ g.next = First /\ g.trail = <<>> /\ g.rows = games.rows /\ g.shown = games.shown
    BY <2>1 DEF WholeInv, ListsInv, ListShape
  <2>3. refreshGames(g, url'.q)
    BY <1>1, <2>1 DEF reloadList
  <2>4. Trodden(g.trail, g.after) /\ PageAt(g.after, g.next, g.rows)
    BY <2>2, WalkStarts DEF WholeInv, WalkInv, PageAt
  <2>5. /\ WalkInv' /\ games'.after = First /\ games'.next = First /\ games'.trail = <<>>
    BY <2>2, <2>3, <2>4, AskKeeps DEF WholeInv, ListsInv
  <2>6. \A q : WholeWalk(q)'
    BY <2>5, WalkStarts DEF WholeWalk
  <2>7. AtStart'
    BY <2>5 DEF AtStart
  <2> QED
    BY <1>1, <2>5, <2>6, <2>7 DEF FilterInv
<1>2. CASE url'.tab = "replays"
  <2>1. WalkInv' /\ games' = games /\ \A r : r.what = "games" => (r \in sent' <=> r \in sent)
    BY <1>2, ReplaysAside DEF WholeInv, ListsInv
  <2>2. ~torn' => ~torn
    BY <1>2
  <2> QED
    BY <1>2, <2>1, <2>2, WalkAside DEF WholeInv
<1> QED
  BY <1>1, <1>2

\* A walk left for the other list and taken up again goes on where it was.
LEMMA Arrives ==
    ASSUME WholeInv, applyHomeTab(url'.tab, url'.q), mirror' = mirror,
           torn' = IF url'.tab = "games" THEN Torn(url'.q) ELSE torn,
           url \in [tab : {"replays", "games"}, q : Filters],
           url' \in [tab : {"replays", "games"}, q : Filters]
    PROVE  WalkInv' /\ FilterInv'
<1>0. "error" \notin Filters /\ Unset \notin Filters /\ url.q \in Filters /\ url'.q \in Filters
  BY ListingAssumption DEF Unset, ListingAssumption
<1>1. CASE url'.tab = "games"
  <2>1. refreshGames(games, url'.q)
    BY <1>1 DEF applyHomeTab
  <2>2. /\ WalkInv' /\ games'.after = games.after /\ games'.next = games.next /\ games'.trail = games.trail
        /\ games'.rows = games.rows /\ games'.shown = games.shown
    BY <1>0, <2>1, AskKeeps DEF WholeInv, ListsInv, ListShape, WalkInv
  <2>3. /\ \A q : WholeWalk(q)' <=> WholeWalk(q)
        /\ AtStart' <=> AtStart
    BY <2>2, SameWalk
  <2>4. AtStart => \A q : WholeWalk(q)
    BY WalkStarts DEF AtStart, WholeWalk
  <2>5. SUFFICES ASSUME ~torn' PROVE WholeWalk(url'.q) /\ (games.shown = url'.q \/ AtStart)
    BY <1>1, <2>2, <2>3 DEF FilterInv
  <2>6. ~torn /\ (games.shown = url'.q \/ AtStart)
    BY <1>1, <2>5 DEF Torn, AtStart
  <2>7. CASE AtStart
    BY <2>4, <2>7
  <2>8. CASE games.shown = url'.q
    BY <1>0, <2>4, <2>6, <2>8 DEF WholeInv, FilterInv
  <2> QED
    BY <2>6, <2>7, <2>8
<1>2. CASE url'.tab = "replays"
  <2>1. /\ WalkInv' /\ games' = games /\ \A r : r.what = "games" => (r \in sent' <=> r \in sent)
    <3>1. CASE list.query # url'.q
      BY <1>2, <3>1, ReplaysAside DEF applyHomeTab, WholeInv, ListsInv
    <3>2. CASE list.query = url'.q
      BY <1>2, <3>2 DEF applyHomeTab, WholeInv, WalkInv, Out
    <3> QED
      BY <3>1, <3>2
  <2>2. CASE url.tab = "replays"
    BY <1>2, <2>1, <2>2, WalkAside DEF WholeInv
  <2>3. CASE url.tab = "games"
    <3>1. \A q : WholeWalk(q)' <=> WholeWalk(q)
      BY <2>1, SameWalk
    <3>2. AtStart => \A q : WholeWalk(q)
      BY WalkStarts DEF AtStart, WholeWalk
    <3>3. ~torn => WholeWalk(url.q) /\ (games.shown \in Filters => WholeWalk(games.shown))
      BY <1>0, <2>3, <3>2 DEF WholeInv, FilterInv
    <3>4. \A r \in sent' : r.what = "games" /\ r.seq = games'.seq => r.q = url.q
      BY <2>1, <2>3 DEF WholeInv, ListsInv, GamesInv
    <3> QED
      BY <1>2, <2>1, <3>1, <3>3, <3>4 DEF FilterInv
  <2> QED
    BY <2>2, <2>3
<1> QED
  BY <1>1, <1>2

\* The pager goes on from a page that misses nothing, and back along the trail.
LEMMA Walks ==
    ASSUME WholeInv, gamesPageNext \/ gamesPagePrev \/ Reload, url' = url,
           url \in [tab : {"replays", "games"}, q : Filters]
    PROVE  WalkInv' /\ FilterInv'
<1>0. url.tab = "games" /\ url.q \in Filters /\ mirror' = mirror /\ torn' = torn
  BY DEF gamesPageNext, gamesPagePrev, Reload, GamesPager
<1>1. Trodden(games.trail, games.after) /\ PageAt(games.after, games.next, games.rows)
  BY DEF WholeInv, WalkInv
<1>2. ~torn => /\ WholeTrail(games.trail, games.after, url.q)
               /\ WholePage(games.after, games.next, games.rows, url.q)
               /\ games.shown \in {url.q, "error"} \/ AtStart
  BY <1>0 DEF WholeInv, FilterInv, WholeWalk
<1>3. SUFFICES \E g : /\ g = [after |-> g.after, next |-> g.next, trail |-> g.trail,
                              rows |-> g.rows, seq |-> g.seq, shown |-> g.shown]
                      /\ refreshGames(g, url.q) /\ g.shown = games.shown
                      /\ Trodden(g.trail, g.after) /\ PageAt(g.after, g.next, g.rows)
                      /\ ~torn => /\ WholeTrail(g.trail, g.after, url.q)
                                  /\ WholePage(g.after, g.next, g.rows, url.q)
                                  /\ games.shown \in {url.q, "error"} \/ g = games
  <2>1. PICK g : /\ g = [after |-> g.after, next |-> g.next, trail |-> g.trail,
                         rows |-> g.rows, seq |-> g.seq, shown |-> g.shown]
                 /\ refreshGames(g, url.q) /\ g.shown = games.shown
                 /\ Trodden(g.trail, g.after) /\ PageAt(g.after, g.next, g.rows)
                 /\ ~torn => /\ WholeTrail(g.trail, g.after, url.q)
                             /\ WholePage(g.after, g.next, g.rows, url.q)
                             /\ games.shown \in {url.q, "error"} \/ g = games
    BY <1>3
  <2>2. /\ WalkInv' /\ games'.after = g.after /\ games'.next = g.next /\ games'.trail = g.trail
        /\ games'.rows = g.rows /\ games'.shown = games.shown
    BY <1>0, <2>1, AskKeeps DEF WholeInv, ListsInv
  <2>3. ~torn => WholeWalk(url.q)'
    BY <2>1, <2>2 DEF WholeWalk
  <2>4. ~torn => (games.shown \in {url.q, "error"} \/ AtStart')
    <3> SUFFICES ASSUME ~torn, g = games PROVE games.shown \in {url.q, "error"} \/ AtStart'
      BY <2>1
    <3>1. AtStart' <=> AtStart
      BY <2>2, SameWalk
    <3> QED
      BY <1>2, <3>1
  <2> QED
    BY <1>0, <2>2, <2>3, <2>4 DEF FilterInv
<1>4. CASE gamesPageNext
  <2>1. games.next # First /\ games.shown \in {url.q, "error"} \cup Filters
    BY <1>4 DEF gamesPageNext, GamesPager, WholeInv, WalkInv
  <2>2. PICK t : t = Append(games.trail, [after |-> games.after, rows |-> games.rows])
    OBVIOUS
  <2>3. PICK g : g = [games EXCEPT !.trail = t, !.after = games.next, !.next = First]
    OBVIOUS
  <2>4. refreshGames(g, url.q)
    BY <1>4, <2>2, <2>3 DEF gamesPageNext
  <2>5. /\ g = [after |-> g.after, next |-> g.next, trail |-> g.trail,
                rows |-> g.rows, seq |-> g.seq, shown |-> g.shown]
        /\ g.after = games.next /\ g.next = First /\ g.trail = t /\ g.rows = games.rows /\ g.shown = games.shown
    BY <2>3 DEF WholeInv, ListsInv, ListShape
  <2>6. /\ Trodden(t, games.next)
        /\ WholeTrail(games.trail, games.after, url.q) /\ WholePage(games.after, games.next, games.rows, url.q)
              => WholeTrail(t, games.next, url.q)
    <3>1. PICK tr, c, n, rows, q :
             tr = games.trail /\ c = games.after /\ n = games.next /\ rows = games.rows /\ q = url.q
      OBVIOUS
    <3>2. Trodden(tr, c) /\ PageAt(c, n, rows) /\ n # First /\ t = Append(tr, [after |-> c, rows |-> rows])
      BY <1>1, <2>1, <2>2, <3>1
    <3>3. Trodden(Append(tr, [after |-> c, rows |-> rows]), n)
      BY <3>2, WalkGoesOn, ListingAssumption
    <3>4. WholeTrail(tr, c, q) /\ WholePage(c, n, rows, q) =>
              WholeTrail(Append(tr, [after |-> c, rows |-> rows]), n, q)
      BY <3>2, WalkGoesOn, ListingAssumption
    <3> QED
      BY <3>1, <3>2, <3>3, <3>4
  <2>7. PageAt(games.next, First, games.rows) /\ \A q : WholePage(games.next, First, games.rows, q)
    BY <1>1, WalkStarts DEF PageAt
  <2>8. ~torn => games.shown \in {url.q, "error"}
    BY <1>2, <2>1 DEF AtStart
  <2> QED
    BY <1>2, <2>4, <2>5, <2>6, <2>7, <2>8
<1>5. CASE gamesPagePrev
  <2>1. games.trail # <<>>
    BY <1>5 DEF gamesPagePrev
  <2>2. PICK t, a : t = SubSeq(games.trail, 1, Len(games.trail) - 1) /\ a = games.trail[Len(games.trail)].after
    OBVIOUS
  <2>3. PICK g : g = [games EXCEPT !.trail = t, !.after = a, !.next = First]
    OBVIOUS
  <2>4. refreshGames(g, url.q)
    BY <1>5, <2>2, <2>3 DEF gamesPagePrev
  <2>5. /\ g = [after |-> g.after, next |-> g.next, trail |-> g.trail,
                rows |-> g.rows, seq |-> g.seq, shown |-> g.shown]
        /\ g.after = a /\ g.next = First /\ g.trail = t /\ g.rows = games.rows /\ g.shown = games.shown
    BY <2>3 DEF WholeInv, ListsInv, ListShape
  <2>6. /\ Trodden(t, a) /\ \A q : WholeTrail(games.trail, games.after, q) => WholeTrail(t, a, q)
    BY <1>1, <2>1, <2>2, WalkGoesBack
  <2>7. PageAt(a, First, games.rows) /\ \A q : WholePage(a, First, games.rows, q)
    BY <1>1, WalkStarts DEF PageAt
  <2>8. ~torn => games.shown \in {url.q, "error"}
    BY <1>2, <2>1 DEF AtStart
  <2> QED
    BY <1>2, <2>4, <2>5, <2>6, <2>7, <2>8
<1>6. CASE Reload
  BY <1>1, <1>2, <1>6 DEF Reload, WholeInv, ListsInv, ListShape
<1> QED
  BY <1>4, <1>5, <1>6

\* A reply to the newest read brings a page that misses nothing; any other changes nothing,
\* but for a failure, which takes the page off the screen.
LEMMA Answers ==
    ASSUME WholeInv, Site
    PROVE  WalkInv' /\ FilterInv'
<1>1. CASE \E g \in Late : Mirrored(g)
  <2>1. PICK g \in Late : mirror' = mirror \cup {g} /\ UNCHANGED <<visits, list, games, sent, reads, torn>>
    BY <1>1 DEF Mirrored
  <2>2. mirror \subseteq mirror' /\ mirror' \subseteq Universe
    <3>1. g \in Universe
      BY ListingAssumption DEF ListingAssumption
    <3>2. mirror \subseteq Universe
      BY DEF WholeInv, WalkInv
    <3> QED
      BY <2>1, <3>1, <3>2
  <2>3. url' = url
    BY <2>1 DEF url
  <2>4. (\A q : WholeWalk(q)' <=> WholeWalk(q)) /\ (AtStart' <=> AtStart)
    BY <2>1, SameWalk
  <2>5. WalkInv'
    BY <2>1, <2>2 DEF WholeInv, WalkInv, Out
  <2> QED
    BY <2>1, <2>3, <2>4, <2>5 DEF WholeInv, FilterInv
<1>2. CASE \E r \in sent : GamesReply(r) \/ Fails(r) \/ \E b \in BOOLEAN : ListReply(r, b)
  <2>1. PICK r \in sent : GamesReply(r) \/ Fails(r) \/ \E b \in BOOLEAN : ListReply(r, b)
    BY <1>2
  <2>2. /\ sent' = sent \ {r} /\ mirror' = mirror /\ torn' = torn /\ url' = url
        /\ url.tab \in {"replays", "games"}
    BY <2>1, UrlTyped DEF GamesReply, Fails, ListReply, url, WholeInv, ListsInv
  <2>3. CASE games' = games /\ (r.what = "games" => r.seq # games.seq)
    <3>1. Out("games", games.seq)' <=> Out("games", games.seq)
      BY <2>2, <2>3 DEF Out
    <3>2. (\A q : WholeWalk(q)' <=> WholeWalk(q)) /\ (AtStart' <=> AtStart)
      BY <2>3, SameWalk
    <3>3. WalkInv'
      BY <2>2, <2>3, <3>1 DEF WholeInv, WalkInv
    <3>4. FilterInv'
      BY <2>2, <2>3, <3>2 DEF WholeInv, FilterInv
    <3> QED
      BY <3>3, <3>4
  <2>4. CASE games' = [games EXCEPT !.shown = "error"]
    <3>1. /\ games'.after = games.after /\ games'.next = games.next /\ games'.trail = games.trail
          /\ games'.rows = games.rows /\ games'.shown = "error" /\ games'.seq = games.seq
      BY <2>4 DEF WholeInv, ListsInv, ListShape
    <3>2. \A q : WholeWalk(q)' <=> WholeWalk(q)
      BY <3>1, SameWalk
    <3>3. WalkInv'
      BY <2>2, <3>1 DEF WholeInv, WalkInv
    <3>4. "error" \notin Filters
      BY ListingAssumption DEF ListingAssumption
    <3>5. FilterInv'
      BY <2>2, <3>1, <3>2, <3>4 DEF WholeInv, FilterInv
    <3> QED
      BY <3>3, <3>5
  <2>5. CASE GamesReply(r) /\ r.seq = games.seq
    <3>1. PICK page : page = gamesPage(GamesLimit, r.at, r.q)
      OBVIOUS
    <3>2. r.what = "games" /\ r.q \in Filters /\ r.at = games.after /\ games.after \in {First} \cup Universe
      BY <2>5 DEF GamesReply, WholeInv, WalkInv, Trodden
    <3>3. /\ games'.after = games.after /\ games'.next = page.next /\ games'.trail = games.trail
          /\ games'.rows = page.rows /\ games'.shown = r.q /\ games'.seq = games.seq
      BY <2>5, <3>1, <3>2 DEF GamesReply, Newest, WholeInv, ListsInv, ListShape
    <3>4. PageAt(games.after, page.next, page.rows) /\ WholePage(games.after, page.next, page.rows, r.q)
          /\ \A g \in page.rows : After(games.after, g)
      <4>1. /\ \A g \in page.rows : g \in Universe /\ After(games.after, g)
            /\ page.next # First =>
                  /\ page.next \in Universe /\ After(games.after, page.next)
                  /\ \A g \in page.rows : ~before(page.next, g)
                  /\ \A g \in mirror :
                        Matches(g, r.q) /\ After(games.after, g) /\ ~before(page.next, g) => g \in page.rows
        BY <3>1, <3>2, PageOfMirror, ListingAssumption DEF WholeInv, WalkInv
      <4> QED
        BY <4>1 DEF PageAt, WholePage, WholeInv, WalkInv
    <3>5. \A s \in sent' : s.seq # games'.seq
      BY <2>2, <2>5, <3>3 DEF WholeInv, WalkInv
    <3>6. WalkInv'
      <4>1. Trodden(games.trail, games.after)' /\ PageAt(games.after, games.next, games.rows)'
        BY <3>3, <3>4 DEF WholeInv, WalkInv
      <4> QED
        BY <2>2, <3>2, <3>3, <3>4, <3>5, <4>1 DEF WholeInv, WalkInv
    <3>7. \A q : WholeTrail(games.trail, games.after, q) /\ q = r.q => WholeWalk(q)'
      BY <3>3, <3>4 DEF WholeWalk
    <3>8. url.tab = "games" => r.q = url.q
      BY <2>5, <3>2 DEF WholeInv, ListsInv, GamesInv
    <3>9. ~torn => WholeTrail(games.trail, games.after, r.q)
      BY <2>2, <2>5, <3>2, <3>8 DEF WholeInv, FilterInv, WholeWalk
    <3>10. ~torn => WholeWalk(r.q)'
      BY <3>7, <3>9
    <3> QED
      BY <2>2, <3>3, <3>5, <3>6, <3>8, <3>10 DEF FilterInv
  <2>6. \/ games' = games /\ (r.what = "games" => r.seq # games.seq)
        \/ games' = [games EXCEPT !.shown = "error"]
        \/ GamesReply(r) /\ r.seq = games.seq
    BY <2>1 DEF GamesReply, Fails, ListReply, Newest
  <2> QED
    BY <2>3, <2>4, <2>5, <2>6
<1> QED
  BY <1>1, <1>2 DEF Site

\* Down the games list's trail every matching game that was there all along and comes before
\* the cursor has been shown, on one page only, however the reader pages, leaves and comes back
\* and whatever replies cross, unless the filter was changed on the other list mid-walk.
THEOREM WalkMissesNothing == ListSpec => []WalkIsWhole
<1>1. ListInit => WholeInv
  <2> SUFFICES ASSUME ListInit PROVE WholeInv
    OBVIOUS
  <2>1. ListsInv
    BY ListsStart
  <2>2. /\ games.after = First /\ games.next = First /\ games.trail = <<>> /\ games.rows = {}
        /\ games.shown = Unset /\ url.tab = "replays" /\ \A r \in sent : r.what # "games"
        /\ \A r, s \in sent : r = s
    BY DEF ListInit, NoGames, url, Url
  <2>3. WalkInv
    BY <2>2, WalkStarts, ListingAssumption DEF WalkInv, ListInit, ListingAssumption
  <2>4. FilterInv
    BY <2>2, ListingAssumption DEF FilterInv, Unset, ListingAssumption
  <2> QED
    BY <2>1, <2>3, <2>4 DEF WholeInv
<1>2. WholeInv /\ [ListNext]_listVars => WholeInv'
  <2> SUFFICES ASSUME WholeInv, [ListNext]_listVars PROVE WholeInv'
    OBVIOUS
  <2>1. ListsInv'
    BY ListsKeep DEF WholeInv
  <2>2. CASE UNCHANGED listVars
    <3>1. url' = url
      BY <2>2 DEF listVars, url
    <3>2. (\A q : WholeWalk(q)' <=> WholeWalk(q)) /\ (AtStart' <=> AtStart)
      BY <2>2, SameWalk DEF listVars
    <3>3. WalkInv'
      BY <2>2 DEF listVars, WholeInv, WalkInv, Out
    <3>4. FilterInv'
      BY <2>2, <3>1, <3>2 DEF listVars, WholeInv, FilterInv
    <3> QED
      BY <2>1, <3>3, <3>4 DEF WholeInv
  <2>3. CASE Visitor
    <3>1. url \in [tab : {"replays", "games"}, q : Filters]
      BY UrlTyped DEF WholeInv, ListsInv
    <3>2. /\ url' \in [tab : {"replays", "games"}, q : Filters] /\ mirror' = mirror
          /\ \/ url'.tab = url.tab /\ reloadList(url'.tab, url'.q, 0) /\ torn' = (torn /\ url.tab # "games")
             \/ applyHomeTab(url'.tab, url'.q) /\ torn' = IF url'.tab = "games" THEN Torn(url'.q) ELSE torn
             \/ url' = url /\ torn' = torn /\ url.tab = "replays" /\ \E page : reloadList("replays", url'.q, page)
             \/ url' = url /\ torn' = torn /\ (gamesPageNext \/ gamesPagePrev \/ Reload)
      BY <2>3, VisitorMoves DEF WholeInv, ListsInv
    <3>3. CASE url' = url /\ torn' = torn /\ url.tab = "replays" /\ \E page : reloadList("replays", url'.q, page)
      <4>1. WalkInv' /\ games' = games /\ \A r : r.what = "games" => (r \in sent' <=> r \in sent)
        BY <3>2, <3>3, ReplaysAside DEF WholeInv, ListsInv
      <4> QED
        BY <2>1, <3>3, <4>1, WalkAside DEF WholeInv
    <3> QED
      BY <2>1, <3>1, <3>2, <3>3, Restarts, Arrives, Walks DEF WholeInv
  <2> QED
    BY <2>1, <2>2, <2>3, Answers DEF WholeInv, ListNext
<1>3. WholeInv => WalkIsWhole
  <2> SUFFICES ASSUME WholeInv, url.tab = "games", ~torn
               PROVE  /\ \A i, j \in DOMAIN games.trail : i # j => games.trail[i].rows \cap games.trail[j].rows = {}
                      /\ games.after # First =>
                            {g \in Universe \ Late : Matches(g, url.q) /\ ~before(games.after, g)} \subseteq Walked
                      /\ ~Out("games", games.seq) /\ games.shown # "error" => games.rows \cap Walked = {}
    BY DEF WalkIsWhole
  <2> PICK t, c : t = games.trail /\ c = games.after
    OBVIOUS
  <2>1. Trodden(t, c) /\ WholeTrail(t, c, url.q)
    BY DEF WholeInv, WalkInv, FilterInv, WholeWalk
  <2>2. Len(t) \in Nat /\ DOMAIN t = 1 .. Len(t)
    BY <2>1 DEF Trodden
  <2>3. \A i, j \in 1 .. Len(t) : i < j => \A g \in t[i].rows : g \notin t[j].rows
    <3> SUFFICES ASSUME NEW i \in 1 .. Len(t), NEW j \in 1 .. Len(t), i < j, NEW g \in t[i].rows, g \in t[j].rows
                 PROVE  FALSE
      OBVIOUS
    <3>1. i \in 1 .. j - 1 /\ j - 1 > 0
      BY <2>2
    <3>2. t[j].after # First /\ ~before(t[j].after, g)
      BY <2>1, <3>1 DEF Trodden, PastPages
    <3>3. After(t[j].after, g)
      BY <2>1 DEF Trodden
    <3> QED
      BY <3>2, <3>3 DEF After
  <2>4. \A i, j \in DOMAIN t : i # j => t[i].rows \cap t[j].rows = {}
    <3> SUFFICES ASSUME NEW i \in 1 .. Len(t), NEW j \in 1 .. Len(t), i # j PROVE t[i].rows \cap t[j].rows = {}
      BY <2>2
    <3>1. i < j \/ j < i
      BY <2>2
    <3> QED
      BY <2>3, <3>1
  <2>5. c # First => {g \in Universe \ Late : Matches(g, url.q) /\ ~before(c, g)} \subseteq Walked
    BY <2>1, <2>2 DEF WholeTrail, ShownUpTo, Walked
  <2>6. ~Out("games", games.seq) /\ games.shown # "error" => games.rows \cap Walked = {}
    <3> SUFFICES ASSUME ~Out("games", games.seq), games.shown # "error",
                        NEW g \in games.rows, NEW i \in 1 .. Len(t), g \in t[i].rows
                 PROVE  FALSE
      BY <2>2 DEF Walked
    <3>1. Len(t) > 0
      BY <2>2
    <3>2. c # First /\ ~before(c, g)
      BY <2>1, <3>1 DEF Trodden, PastPages
    <3>3. After(c, g)
      BY DEF WholeInv, WalkInv
    <3> QED
      BY <3>2, <3>3 DEF After
  <2> QED
    BY <2>4, <2>5, <2>6
<1> QED
  BY <1>1, <1>2, <1>3, PTL DEF ListSpec
=============================================================================
