------------------------------- MODULE Overlay -------------------------------
(***************************************************************************)
(* What the players wrote, drew and ordered, as the page shows it at its   *)
(* playhead: drawings with their lifetime and their erases, the chat log,  *)
(* the bubbles over the speakers, self-destruct countdowns and the lines   *)
(* of what is being reclaimed.  Frames are numbers; one axis stands for    *)
(* the map's two; a spot is where a team's commander or what is left of it *)
(* stands at a frame.                                                      *)
(***************************************************************************)
EXTENDS EventColumns, FiniteSets, SequencesExt

CONSTANTS
    Scripts,        \* [version, comms, events, rows]: what may have been recorded, in frame order
    CommTeams,      \* player -> team, -1 for a spectator; a relay of the lobby has none
    Spots,          \* team -> frame -> {spot}, {} when the team owns nothing
    KeyFrames,      \* the frames of the keyframes, all in
    MARK_LIFETIME, MARK_ERASE_RADIUS, BUBBLE_LIFETIME, BUBBLE_SPEED_CAP,
    SELFD_MAX, SELFD_OPEN, FX_BUCKET,
    Speeds,         \* what the speed control offers
    MaxFrame

VARIABLES
    recorded,       \* what the recorder wrote
    script,         \* what the page reads of it: events, comms, rows
    view,           \* f, speed, playing, showBubbles: the playhead and the controls
    rows,           \* the chat rows revealed, and the cursor that revealed them
    bubbles         \* expiry (chat index -> {frame}), anchor (speaker -> {spot}), lastSeen (team ->
                    \* {spot}: where a team that owns nothing was) and the bubbles drawn

overlayVars == <<recorded, script, view, rows, bubbles>>

Frames == 0..MaxFrame
-----------------------------------------------------------------------------
(* Indexes built once, when the head is in.                                *)

Near(a, b) == (a - b) * (a - b) < MARK_ERASE_RADIUS * MARK_ERASE_RADIUS

\* Mutant: an erase reaches the newest mark only.
EraseNewest(marks, c) ==
    LET hit == {i \in DOMAIN marks : marks[i].erasedAt = {} /\ Near(marks[i].c.x, c.x)}
    IN [i \in DOMAIN marks |-> IF hit # {} /\ i = Max(hit) THEN [marks[i] EXCEPT !.erasedAt = {c.f}] ELSE marks[i]]

\* One erase: the marks anchored near it, back to the first one older than the lifetime.
Erase(marks, c) ==
    LET gone == {i \in DOMAIN marks : c.f - marks[i].c.f > MARK_LIFETIME}
        horizon == IF gone = {} THEN 0 ELSE Max(gone)
    IN [i \in DOMAIN marks |->
            IF i > horizon /\ marks[i].erasedAt = {} /\ Near(marks[i].c.x, c.x)
            THEN [marks[i] EXCEPT !.erasedAt = {c.f}] ELSE marks[i]]

\* buildCommIndex: the drawings, each with the frame it was erased at, and the chat lines.
Marks ==
    LET Next(marks, c) ==
            IF c.k \in {"point", "line"} THEN Append(marks, [c |-> c, erasedAt |-> {}])
            ELSE IF c.k = "erase" THEN Erase(marks, c) ELSE marks
    IN FoldLeft(Next, <<>>, script.comms)
chatLines == SelectSeq(script.comms, LAMBDA c : c.k = "chat")

\* The marks visible at frame f: from the first one young enough, while it is not erased.
drawMarks(f) ==
    LET End(m) == Min({m.c.f + MARK_LIFETIME} \cup m.erasedAt)
    IN {i \in DOMAIN Marks : Marks[i].c.f >= f - MARK_LIFETIME /\ Marks[i].c.f <= f /\ f < End(Marks[i])}

\* Self-destruct orders toggle; a countdown ends with the unit, with the cancel, or unknown.
selfds ==
    LET orders == SelectSeq(script.events, LAMBDA e : e.k = "selfd")
        Deaths(o) == SelectSeq(script.events, LAMBDA e : e.k = "destroyed" /\ e.id = o.id /\ e.f >= o.f)
        Countdown(o) ==
            IF Deaths(o) # <<>> /\ Deaths(o)[1].f - o.f <= SELFD_MAX
            THEN [f |-> o.f, unit |-> o.id, end |-> Deaths(o)[1].f, exact |-> Deaths(o)[1].cause = {}]
            ELSE [f |-> o.f, unit |-> o.id, end |-> o.f + SELFD_OPEN, exact |-> FALSE]
        Next(S, o) ==
            LET run == IF o.id \in DOMAIN S.open THEN S.open[o.id] ELSE 0
            IN IF run # 0 /\ o.f < S.list[run].end
               THEN [list |-> [S.list EXCEPT ![run].end = o.f, ![run].exact = FALSE],
                     open |-> [u \in DOMAIN S.open \ {o.id} |-> S.open[u]]]
               ELSE [list |-> Append(S.list, Countdown(o)), open |-> (o.id :> Len(S.list) + 1) @@ S.open]
    IN FoldLeft(Next, [list |-> <<>>, open |-> <<>>], orders).list

\* Effect rows filed into buckets, and those alive at any frame of a span.
fxBuckets ==
    LET End(r) == IF r.end < r.start THEN r.start ELSE r.end
        Buckets(r) == (r.start \div FX_BUCKET)..(End(r) \div FX_BUCKET)
    IN [k \in UNION {Buckets(r) : r \in Range(script.rows)} |-> {i \in DOMAIN script.rows : k \in Buckets(script.rows[i])}]
between(f0, f1) ==
    LET End(r) == IF r.end < r.start THEN r.start ELSE r.end
        near == UNION {fxBuckets[k] : k \in DOMAIN fxBuckets \cap ((f0 \div FX_BUCKET)..(f1 \div FX_BUCKET))}
    IN {i \in near : script.rows[i].start <= f1 /\ End(script.rows[i]) >= f0}
-----------------------------------------------------------------------------
(* Chat: the rows of the log and the bubbles on the map, at every draw.    *)

\* Only the rows that changed sides of the playhead are touched.
updateChat(r, f) ==
    LET said == {i \in DOMAIN chatLines : chatLines[i].f <= f}
        cursor == Max(said \cup {0})
        touched == (Min({r.cursor, cursor}) + 1)..Max({r.cursor, cursor})
    IN IF cursor = r.cursor THEN r
       ELSE [cursor |-> cursor, revealed |-> (r.revealed \ touched) \cup {i \in touched : i <= cursor}]

bubbleSpeedFactor(v) == IF v.playing THEN Min({v.speed, BUBBLE_SPEED_CAP}) ELSE 1

\* A key no player has, and a spot no team stands at.
SPEC_KEY == 0
Quiet == -1
Speaker(c) == IF c.p \in DOMAIN CommTeams /\ CommTeams[c.p] = -1 THEN SPEC_KEY ELSE c.p

\* The newest keyframe that held any of the team, looked for once.
lastSeenOf(b, team, f) ==
    LET held == {g \in KeyFrames : g <= f /\ Spots[team][g] # {}}
    IN IF b.lastSeen[team] # {} THEN b.lastSeen[team] ELSE IF held = {} THEN {} ELSE Spots[team][Max(held)]

\* Where a speaker's stack goes: the calm spot for spectators; where the team's commander or
\* its units are, or where it was last seen; nowhere ({}) for a relay of the lobby.
Placed(b, key, f) ==
    IF key = SPEC_KEY THEN {Quiet}
    ELSE IF key \notin DOMAIN CommTeams THEN {}
    ELSE LET here == Spots[CommTeams[key]][f] IN IF here # {} THEN here ELSE lastSeenOf(b, CommTeams[key], f)

\* Mutant: the lifetime is measured anew on every draw, at the speed then in force.
TimedAnew(b, v) ==
    [i \in DOMAIN chatLines |->
        IF chatLines[i].f <= v.f THEN {chatLines[i].f + BUBBLE_LIFETIME * bubbleSpeedFactor(v)} ELSE {}]

\* A bubble's expiry is frozen when it appears, and forgotten with the widest window or when
\* the playhead goes back before it.
Timed(b, v) ==
    LET start == v.f - BUBBLE_LIFETIME * BUBBLE_SPEED_CAP
    IN [i \in DOMAIN chatLines |->
            IF chatLines[i].f < start \/ chatLines[i].f > v.f THEN {}
            ELSE IF b.expiry[i] # {} THEN b.expiry[i]
            ELSE {chatLines[i].f + BUBBLE_LIFETIME * bubbleSpeedFactor(v)}]

\* drawChatBubbles: what is alive, by speaker; a speaker keeps the spot while any of it is.
drawChatBubbles(b, v) ==
    LET expiry == Timed(b, v)
        alive == {i \in DOMAIN chatLines : \E e \in expiry[i] : e > v.f}
        speaking == {Speaker(chatLines[i]) : i \in alive}
        fresh == {CommTeams[key] : key \in (speaking \cap DOMAIN CommTeams) \ DOMAIN b.anchor}
        anchor == [key \in speaking |-> IF key \in DOMAIN b.anchor THEN b.anchor[key] ELSE Placed(b, key, v.f)]
    IN IF ~v.showBubbles \/ chatLines = <<>> THEN [b EXCEPT !.drawn = {}]
       ELSE [expiry |-> expiry, anchor |-> anchor,
             lastSeen |-> [team \in DOMAIN Spots |->
                IF team \in fresh /\ Spots[team][v.f] = {} THEN lastSeenOf(b, team, v.f) ELSE b.lastSeen[team]],
             drawn |-> {i \in alive : anchor[Speaker(chatLines[i])] # {}}]
-----------------------------------------------------------------------------
Draws(v) ==
    /\ rows' = updateChat(rows, v.f)
    /\ bubbles' = drawChatBubbles(bubbles, v)
    /\ UNCHANGED <<recorded, script>>

\* Moved the map, hovered a unit, resized the window: what is there is drawn again.
Redraw == Draws(view) /\ UNCHANGED view
\* A tick of the loop at the speed chosen; at the end the play stops.
PlayOn(by) ==
    LET next == [view EXCEPT !.f = Min({@ + by, MaxFrame})]
    IN /\ view.playing /\ by <= view.speed
       /\ Draws(next) /\ view' = [next EXCEPT !.playing = next.f < MaxFrame]
\* A row of the log jumps and plays on, the slider stops the play.
Jump(f) ==
    \E on \in {view.playing, FALSE} :
        LET next == [view EXCEPT !.f = f, !.playing = on] IN Draws(next) /\ view' = next
startPlayback ==
    LET next == IF view.f = MaxFrame THEN [view EXCEPT !.f = 0] ELSE view
    IN /\ ~view.playing
       /\ IF view.f = MaxFrame THEN Draws(next) ELSE UNCHANGED <<recorded, script, rows, bubbles>>
       /\ view' = [next EXCEPT !.playing = TRUE]
\* Pausing and the speed draw nothing: both are read when the next frame is drawn.
pausePlayback == view.playing /\ view' = [view EXCEPT !.playing = FALSE] /\ UNCHANGED <<recorded, script, rows, bubbles>>
SpeedChosen(s) == s # view.speed /\ view' = [view EXCEPT !.speed = s] /\ UNCHANGED <<recorded, script, rows, bubbles>>
toggleBubbles ==
    LET next == [view EXCEPT !.showBubbles = ~@] IN Draws(next) /\ view' = next

OverlayInit ==
    /\ recorded \in Scripts
    /\ script = Opened(Written(recorded)) @@ [rows |-> recorded.rows]
    /\ view = [f |-> 0, speed |-> 1, playing |-> FALSE, showBubbles |-> TRUE]
    /\ rows = updateChat([cursor |-> 0, revealed |-> {}], 0)
    /\ bubbles = drawChatBubbles([expiry |-> [i \in DOMAIN chatLines |-> {}], anchor |-> <<>>, drawn |-> {},
                                  lastSeen |-> [team \in DOMAIN Spots |-> {}]], view)

OverlayNext ==
    \/ Redraw \/ startPlayback \/ pausePlayback \/ toggleBubbles
    \/ \E by \in 0..MaxFrame : PlayOn(by)
    \/ \E f \in Frames : Jump(f)
    \/ \E s \in Speeds : SpeedChosen(s)
-----------------------------------------------------------------------------
(* Properties.                                                             *)

\* The game's own map: drawings come and are erased in order, and fade after their time.
OnTheMap(f) ==
    LET Next(S, c) ==
            IF c.f > f THEN S
            ELSE IF c.k \in {"point", "line"} THEN [n |-> S.n + 1, here |-> S.here \cup {[i |-> S.n + 1, c |-> c]}]
            ELSE IF c.k = "erase" THEN [S EXCEPT !.here = {m \in @ : ~Near(m.c.x, c.x)}] ELSE S
    IN {<<m.i, m.c>> : m \in {m \in FoldLeft(Next, [n |-> 0, here |-> {}], recorded.comms).here : f < m.c.f + MARK_LIFETIME}}

Recorded(kind) == {e \in Range(recorded.events) : e.k = kind}

\* A player's order counted by the engine: each one starts the unit's countdown or stops it.
Counting(unit, f) ==
    LET died == {d.f : d \in {d \in Recorded("destroyed") : d.id = unit /\ d.f <= f}}
    IN Len(SelectSeq(recorded.events, LAMBDA o :
        o.k = "selfd" /\ o.id = unit /\ o.f <= f /\ (died = {} \/ o.f > Max(died)))) % 2 = 1

\* The unit dies within SELFD_MAX of every order before, as the engine's countdowns do.
Punctual(d) == \A o \in Recorded("selfd") : o.id = d.id /\ o.f < d.f => d.f - o.f <= SELFD_MAX

\* Wherever the playhead jumps: the drawings shown are those the players had in front of them,
\* whatever was erased before; the log reveals what has been said and nothing that has not;
\* an effect is drawn when it is alive; a unit whose death the capture holds counts down when
\* the engine counts it down, and a number is shown only for the end it really has
\* (the recorder's
\* columns and decodeEvents, decodeComms, buildCommIndex, drawMarks, updateChat, fxIndex,
\* buildDestroyedIndex).
OverlayFollows ==
    /\ {<<i, Marks[i].c>> : i \in drawMarks(view.f)} = OnTheMap(view.f)
    /\ LET said == SelectSeq(recorded.comms, LAMBDA c : c.k = "chat" /\ c.f <= view.f)
       IN Cardinality(rows.revealed) = Len(said) /\ \A i \in rows.revealed : chatLines[i] = said[i]
    /\ \A f0 \in 0..view.f :
          between(f0, view.f) = {i \in DOMAIN script.rows :
              \E f \in f0..view.f : script.rows[i].start <= f /\ (f <= script.rows[i].end \/ f = script.rows[i].start)}
    /\ \A d \in Recorded("destroyed") : Punctual(d) /\ view.f < d.f =>
          Counting(d.id, view.f) = \E s \in Range(selfds) : s.unit = d.id /\ s.f <= view.f /\ view.f < s.end
    /\ \A s \in Range(selfds) : s.exact => \E d \in Recorded("destroyed") :
          d.id = s.unit /\ d.f = s.end /\ d.cause = {} /\ (Punctual(d) /\ s.f < s.end => Counting(s.unit, d.f - 1))

\* A bubble is shown once: while the playhead goes on, whatever the speed does, one that has
\* gone stays gone, and a speaker's words stay where they came up until the last has gone
\* (drawChatBubbles: the frozen expiry and the held anchor).
BubblesStay ==
    [][view'.f >= view.f /\ view.showBubbles /\ view'.showBubbles =>
        /\ \A i \in bubbles'.drawn : chatLines[i].f <= view.f => i \in bubbles.drawn
        /\ \A key \in DOMAIN bubbles.anchor \cap DOMAIN bubbles'.anchor : bubbles'.anchor[key] = bubbles.anchor[key]
      ]_overlayVars
=============================================================================
