--------------------------- MODULE FogOfWarProofs ---------------------------
(***************************************************************************)
(* Proofs about FogOfWarApp, for any games and folders, any length of the  *)
(* history, and any number of runs, calls, launches and sudden ends.       *)
(***************************************************************************)
EXTENDS FogOfWarApp, SequenceTheorems, TLAPS

\* The records the app's state is made of: the ways a session ends, the process, a row of the
\* history, and what a run that is over has left to do.
Ends == {"closed", "windows"}
AppRec == [mode : {"setup", "ready", "running", "setupFailed"}, stop : BOOLEAN, home : Homes,
           quitting : BOOLEAN, next : {"now", "soon", "paused"}, fails : Nat, ended : Ends \cup {None}]
Item == [game : Games, job : Nat, upload : {"queued", "failed", "published", None}]
Rest == [pc : {"rest"}, watch : BOOLEAN, job : Nat, auto : BOOLEAN, ok : BOOLEAN, stopped : BOOLEAN]

TypeOK ==
    /\ app \in AppRec \cup {Dead}
    /\ cfg \in [home : Homes, setup : BOOLEAN, auto : BOOLEAN, runs : Seq(Item)]
    /\ session \in [Homes -> {None, "open"} \cup Ends]
    /\ job \in [game : Games, auto : BOOLEAN, stopped : BOOLEAN] \cup {NoJob}
    /\ after \in Rest \cup {NoAfter}
    /\ look \in [pc : {"idle", "asking"}, tried : SUBSET Games, paused : BOOLEAN]
    /\ move \in [pc : {"saved", "followed"}, old : Homes, data : BOOLEAN] \cup {NoMove}
    /\ touch \in Homes \cup {None}
    /\ closer \in [home : Homes, reason : Ends] \cup {NoClose}
    /\ watched \in SUBSET Nat /\ late \in SUBSET Nat
    /\ handedBack \in BOOLEAN /\ pausing \in BOOLEAN /\ crossed \in BOOLEAN
    /\ lastEnd \in Ends \cup {None, "open"}
    /\ used \in [{"runs", "calls", "upsets"} -> Nat]

\* A process that is gone left nothing running.
LifeInv ==
    ~Alive => /\ job = NoJob /\ after = NoAfter /\ look = Quiet /\ move = NoMove
              /\ touch = None /\ closer = NoClose /\ watched = {}

\* The mode and the job agree; a stop handed back is a switch off; a pause is the loop's; a games
\* list is asked for only while no run of the loop's own could be stopped.
RunningInv == Running => app.mode = "running"
SwitchInv ==
    /\ handedBack => ~cfg.auto
    /\ Alive /\ pausing => app.next = "paused"
    /\ ~look.paused
    /\ look.pc = "asking" => ~handedBack /\ ~(Running /\ job.auto)

\* The process writes to the folder the config names, but for the time between moveTo's save and
\* moveHome's lock; outside it the record there says what the process would say of itself.
RecordInv ==
    /\ move.pc # None => move.old # cfg.home
    /\ Alive /\ move.pc # "saved" => app.home = cfg.home
    /\ Alive /\ move.pc # "saved" /\ ~crossed =>
         session[cfg.home] = IF app.ended = None THEN "open" ELSE app.ended

IInv == TypeOK /\ LifeInv /\ RunningInv /\ SwitchInv /\ RecordInv /\ UploadsFollowed /\ EndIsTold

\* A first start is of the right types, with nothing running.
LEMMA Initially == Init => TypeOK /\ LifeInv
  <1> SUFFICES ASSUME Init PROVE TypeOK /\ LifeInv
    OBVIOUS
  <1>1. FirstHome \in Homes
    BY FogOfWarAssumption
  <1>2. <<>> \in Seq(Item)
    OBVIOUS
  <1>3. used \in [{"runs", "calls", "upsets"} -> Nat]
    BY DEF Init
  <1>4. session \in [Homes -> {None, "open"} \cup Ends]
    BY DEF Init
  <1>5. look \in [pc : {"idle", "asking"}, tried : SUBSET Games, paused : BOOLEAN]
    BY DEF Init, Quiet
  <1>6. cfg \in [home : Homes, setup : BOOLEAN, auto : BOOLEAN, runs : Seq(Item)]
    BY <1>1 DEF Init
  <1> QED
    BY <1>3, <1>5, <1>6 DEF Init, TypeOK, LifeInv

\* No process is the one that is gone.
LEMMA DeadIsNot == \A a \in AppRec : a # Dead
  BY DEF AppRec, Dead

\* Counting an event against its bound leaves the counters natural numbers.
LEMMA Counted ==
    ASSUME TypeOK, NEW what \in {"runs", "calls", "upsets"}, NEW limit, Bounded(what, limit)
    PROVE  used' \in [{"runs", "calls", "upsets"} -> Nat]
  BY DEF TypeOK, Bounded

\* The history with a run put in front of it, cut to its length (RunEnds).
Kept(e, s) ==
    LET rest == <<e>> \o s
    IN IF Len(rest) > MaxHistory THEN SubSeq(rest, 1, MaxHistory) ELSE rest

\* It is a history again.
LEMMA KeepsTyped ==
    ASSUME NEW S, NEW e \in S, NEW s \in Seq(S)
    PROVE  Kept(e, s) \in Seq(S)
  <1> DEFINE rest == <<e>> \o s
  <1>1. <<e>> \in Seq(S)
    OBVIOUS
  <1>2. rest \in Seq(S)
    BY <1>1, ConcatProperties
  <1> HIDE DEF rest
  <1>3. MaxHistory \in Nat \ {0}
    BY FogOfWarAssumption
  <1>4. CASE Len(rest) > MaxHistory
    <2>1. 1 \in 1 .. Len(rest) + 1 /\ MaxHistory \in 1 .. Len(rest)
      BY <1>3, <1>4
    <2>2. SubSeq(rest, 1, MaxHistory) \in Seq(S)
      BY <1>2, <2>1
    <2> QED
      BY <2>2 DEF Kept
  <1> QED
    BY <1>4 DEF rest, Kept

\* What is in it was in it before, or is the run put in front.
LEMMA KeptFrom ==
    ASSUME NEW S, NEW e, NEW s \in Seq(S)
    PROVE  \A i \in DOMAIN Kept(e, s) : Kept(e, s)[i] = e \/ \E k \in DOMAIN s : Kept(e, s)[i] = s[k]
  <1> DEFINE rest == <<e>> \o s
             kept == IF Len(rest) > MaxHistory THEN SubSeq(rest, 1, MaxHistory) ELSE rest
  <1>1. <<e>> \in Seq({e} \cup S) /\ s \in Seq({e} \cup S)
    OBVIOUS
  <1>2. rest \in Seq({e} \cup S) /\ Len(rest) = 1 + Len(s)
    BY <1>1, ConcatProperties
  <1>3. \A i \in 1 .. Len(rest) : rest[i] = IF i = 1 THEN e ELSE s[i - 1]
    BY <1>1, ConcatProperties
  <1> HIDE DEF rest
  <1>4. MaxHistory \in Nat \ {0}
    BY FogOfWarAssumption
  <1>5. \A i \in DOMAIN kept : i \in 1 .. Len(rest) /\ kept[i] = rest[i]
    <2>1. CASE Len(rest) > MaxHistory
      <3>1. 1 \in 1 .. Len(rest) + 1 /\ MaxHistory \in 1 .. Len(rest)
        BY <1>4, <2>1
      <3>2. Len(SubSeq(rest, 1, MaxHistory)) = MaxHistory /\ SubSeq(rest, 1, MaxHistory) \in Seq({e} \cup S)
            /\ \A i \in 1 .. MaxHistory : SubSeq(rest, 1, MaxHistory)[i] = rest[i]
        BY <1>2, <3>1
      <3> QED
        BY <1>4
    <2>2. CASE ~(Len(rest) > MaxHistory)
      BY <2>2
    <2> QED
      BY <2>1, <2>2
  <1>6. DOMAIN s = 1 .. Len(s) /\ Len(s) \in Nat
    BY LenProperties
  <1> HIDE DEF kept
  <1>7. \A i \in DOMAIN kept : kept[i] = e \/ \E k \in DOMAIN s : kept[i] = s[k]
    BY <1>2, <1>3, <1>5
  <1> QED
    BY <1>7 DEF Kept, kept, rest

\* Whatever shows that something of the process is left shows that it is there.
LEMMA LivesOn ==
    ASSUME TypeOK, LifeInv, Alive \/ Running \/ after # NoAfter \/ after.watch \/ look.pc = "asking"
                            \/ move # NoMove \/ move.pc # None \/ touch # None \/ closer # NoClose
    PROVE  app \in AppRec
  <1>1. NoAfter.watch = FALSE /\ Quiet.pc = "idle" /\ NoMove.pc = None
    BY DEF NoAfter, Quiet, NoMove
  <1>2. Alive
    BY <1>1 DEF LifeInv, Running
  <1> QED
    BY <1>2 DEF Alive, TypeOK

\* Every step keeps the types.
LEMMA Typed ==
    ASSUME TypeOK, LifeInv, Next
    PROVE  TypeOK'
  <1>1. CASE Launch
    <2>1. app' \in AppRec
      BY <1>1 DEF Launch, TypeOK, AppRec
    <2>2. watched' \in SUBSET Nat
      <3>1. \A i \in DOMAIN cfg.runs : cfg.runs[i] \in Item
        BY DEF TypeOK
      <3> QED
        BY <1>1, <3>1 DEF Launch, Queued, Item
    <2>3. session' \in [Homes -> {None, "open"} \cup Ends]
      BY <1>1 DEF Launch, TypeOK
    <2>4. late' \in SUBSET Nat /\ lastEnd' \in Ends \cup {None, "open"}
      BY <1>1 DEF Launch
    <2>5. crossed' \in BOOLEAN /\ pausing' \in BOOLEAN
      BY <1>1 DEF Launch
    <2> QED
      BY <1>1, <2>1, <2>2, <2>5 DEF Launch, TypeOK
  <1>2. CASE Killed
    BY <1>2, Counted DEF TypeOK, Killed, Exit, Quiet
  <1>3. CASE WriteEnd
    <2>1. app \in AppRec /\ closer \in [home : Homes, reason : Ends]
      BY <1>3, LivesOn DEF WriteEnd, TypeOK
    <2>2. app' \in AppRec
      BY <1>3, <2>1 DEF WriteEnd, AppRec
    <2>3. session' \in [Homes -> {None, "open"} \cup Ends]
      BY <1>3 DEF WriteEnd, TypeOK
    <2>4. job' \in [game : Games, auto : BOOLEAN, stopped : BOOLEAN] \cup {NoJob}
      BY <1>3 DEF WriteEnd, TypeOK, Running
    <2>5. crossed' \in BOOLEAN /\ closer' = NoClose
      BY <1>3 DEF WriteEnd
    <2> QED
      BY <1>3, <2>2, <2>4 DEF WriteEnd, TypeOK
  <1>4. CASE Ended
    BY <1>4, LivesOn DEF TypeOK, AppRec, Ended, Exit, Quiet
  <1>5. CASE Touch
    BY <1>5, LivesOn, Counted DEF TypeOK, AppRec, Rest, Touch, history
  <1>6. CASE WriteTouch
    BY <1>6 DEF TypeOK, WriteTouch, history
  <1>7. CASE WatchStarts
    <2>1. after \in Rest
      BY <1>7 DEF WatchStarts, TypeOK, NoAfter
    <2>2. after' \in Rest /\ watched' \in SUBSET Nat
      BY <1>7, <2>1 DEF WatchStarts, Rest, TypeOK
    <2> QED
      BY <1>7, <2>2 DEF WatchStarts, TypeOK, history
  <1>8. CASE autoFinished
    <2>1. app \in AppRec /\ after \in Rest
      BY <1>8, LivesOn DEF autoFinished, TypeOK
    <2>2. /\ after.auto \in BOOLEAN /\ after.ok \in BOOLEAN /\ after.stopped \in BOOLEAN
          /\ app.fails \in Nat
      BY <2>1 DEF Rest, AppRec
    <2> DEFINE counts == after.auto /\ ~after.stopped
               pauses == counts /\ ~after.ok /\ app.fails + 1 >= MaxFails
    <2>3. /\ app' = CASE pauses -> [app EXCEPT !.fails = 0, !.next = "paused"]
                      [] counts /\ after.ok -> [app EXCEPT !.fails = 0, !.next = "now"]
                      [] counts /\ ~after.ok /\ ~pauses -> [app EXCEPT !.fails = @ + 1]
                      [] ~counts -> app
          /\ pausing' = (pauses \/ (pausing /\ ~(counts /\ after.ok)))
      BY <1>8 DEF autoFinished
    <2>4. \/ app' = [app EXCEPT !.fails = 0, !.next = "paused"]
          \/ app' = [app EXCEPT !.fails = 0, !.next = "now"]
          \/ app' = [app EXCEPT !.fails = @ + 1]
          \/ app' = app
      BY <2>2, <2>3
    <2>5. app' \in AppRec
      <3> HIDE DEF counts, pauses
      <3>1. \A n \in Nat : [app EXCEPT !.fails = n] \in AppRec
        BY <2>1 DEF AppRec
      <3>2. \A n \in Nat, p \in {"now", "paused"} : [app EXCEPT !.fails = n, !.next = p] \in AppRec
        BY <2>1 DEF AppRec
      <3>3. app.fails + 1 \in Nat /\ 0 \in Nat
        BY <2>2
      <3> QED
        BY <2>1, <2>4, <3>1, <3>2, <3>3
    <2>6. pausing' \in BOOLEAN
      BY <2>3
    <2> QED
      BY <1>8, <2>5 DEF autoFinished, TypeOK
  <1>9. CASE Cancel
    <2>1. app \in AppRec
      BY <1>9, LivesOn DEF Cancel
    <2>2. app' \in AppRec
      BY <1>9, <2>1 DEF Cancel, AppRec
    <2>3. job' \in [game : Games, auto : BOOLEAN, stopped : BOOLEAN] \cup {NoJob}
      BY <1>9 DEF Cancel, TypeOK, Running
    <2>4. cfg' \in [home : Homes, setup : BOOLEAN, auto : BOOLEAN, runs : Seq(Item)] /\ handedBack' \in BOOLEAN
      BY <1>9 DEF Cancel, TypeOK
    <2>5. used' \in [{"runs", "calls", "upsets"} -> Nat]
      BY <1>9, Counted DEF Cancel
    <2> QED
      BY <1>9, <2>2, <2>3, <2>4, <2>5 DEF Cancel, TypeOK
  <1>10. CASE RetrySetup
    <2>1. app \in AppRec
      BY <1>10, LivesOn DEF RetrySetup, Startable
    <2>2. app' \in AppRec
      BY <1>10, <2>1 DEF RetrySetup, beginSetup, AppRec
    <2>3. used' \in [{"runs", "calls", "upsets"} -> Nat]
      BY <1>10, Counted DEF RetrySetup
    <2> QED
      BY <1>10, <2>2, <2>3 DEF RetrySetup, TypeOK, threads, history
  <1>11. CASE Look
    <2>1. \A i \in DOMAIN cfg.runs : cfg.runs[i] \in Item
      BY DEF TypeOK
    <2>2. {cfg.runs[i].game : i \in DOMAIN cfg.runs} \in SUBSET Games
      BY <2>1 DEF Item
    <2>3. look' \in [pc : {"idle", "asking"}, tried : SUBSET Games, paused : BOOLEAN]
      BY <1>11, <2>2 DEF Look, Asking, TypeOK
    <2> QED
      BY <1>11, <2>3 DEF Look, TypeOK, history
  <1>12. CASE LookAgain
    BY <1>12, LivesOn DEF TypeOK, AppRec, Rest, LookAgain, Quiet, Overtaken
  <1>13. CASE AutoStarts
    <2>1. app \in AppRec
      BY <1>13, LivesOn DEF AutoStarts
    <2>2. app' \in AppRec /\ job' \in [game : Games, auto : BOOLEAN, stopped : BOOLEAN]
      BY <1>13, <2>1 DEF AutoStarts, startResim, AppRec
    <2>3. used' \in [{"runs", "calls", "upsets"} -> Nat]
      BY <1>13, Counted DEF AutoStarts
    <2>4. look' \in [pc : {"idle", "asking"}, tried : SUBSET Games, paused : BOOLEAN] /\ pausing' \in BOOLEAN
      BY <1>13 DEF AutoStarts, Overtaken, Quiet
    <2> QED
      BY <1>13, <2>2, <2>3, <2>4 DEF AutoStarts, TypeOK
  <1>14. CASE Due
    BY <1>14, LivesOn DEF TypeOK, AppRec, Rest, Due, threads
  <1>15. CASE moveHome
    <2>1. app \in AppRec /\ move \in [pc : {"saved", "followed"}, old : Homes, data : BOOLEAN]
      BY <1>15, LivesOn DEF moveHome, TypeOK, NoMove, None
    <2>2. app' \in AppRec
      BY <1>15, <2>1 DEF moveHome, AppRec, TypeOK
    <2>3. move' \in [pc : {"saved", "followed"}, old : Homes, data : BOOLEAN]
      BY <1>15, <2>1 DEF moveHome
    <2>4. session' \in [Homes -> {None, "open"} \cup Ends] /\ crossed' \in BOOLEAN
      BY <1>15 DEF moveHome, TypeOK
    <2> QED
      BY <1>15, <2>2, <2>3 DEF moveHome, TypeOK
  <1>16. CASE MoveTidies
    <2>1. app \in AppRec
      BY <1>16, LivesOn DEF MoveTidies, None
    <2>2. app' \in AppRec
      BY <1>16, <2>1 DEF MoveTidies, beginSetup, AppRec
    <2>3. session' \in [Homes -> {None, "open"} \cup Ends]
      BY <1>16 DEF MoveTidies, TypeOK
    <2> QED
      BY <1>16, <2>2, <2>3 DEF MoveTidies, TypeOK, history
  <1>17. CASE \E reason \in Ends : EndSession(reason)
    <2> PICK reason \in Ends : EndSession(reason)
      BY <1>17
    <2>1. app \in AppRec
      BY LivesOn DEF EndSession
    <2>2. app' \in AppRec
      BY <2>1 DEF EndSession, AppRec
    <2>3. closer' \in [home : Homes, reason : Ends]
      BY <2>1 DEF EndSession, AppRec
    <2>4. used' \in [{"runs", "calls", "upsets"} -> Nat]
      BY Counted DEF EndSession
    <2> QED
      BY <2>2, <2>3, <2>4 DEF EndSession, TypeOK, history
  <1>18. CASE \E g \in Games : StartResim(g)
    <2> PICK g \in Games : StartResim(g)
      BY <1>18
    <2>1. app \in AppRec
      BY LivesOn DEF StartResim, Startable
    <2>2. app' \in AppRec
      BY <2>1 DEF StartResim, startResim, AppRec
    <2>3. job' \in [game : Games, auto : BOOLEAN, stopped : BOOLEAN]
      BY DEF StartResim, startResim
    <2>4. used' \in [{"runs", "calls", "upsets"} -> Nat]
      BY Counted DEF StartResim
    <2> QED
      BY <2>2, <2>3, <2>4 DEF StartResim, TypeOK, history
  <1>19. CASE \E ok, taken \in BOOLEAN : RunEnds(ok, taken)
    <2> PICK ok \in BOOLEAN, taken \in BOOLEAN : RunEnds(ok, taken)
      BY <1>19
    <2>1. app \in AppRec
      BY LivesOn DEF RunEnds
    <2>2. app' \in AppRec
      BY <2>1 DEF RunEnds, AppRec
    <2>3. job \in [game : Games, auto : BOOLEAN, stopped : BOOLEAN] /\ used["runs"] \in Nat
      BY DEF RunEnds, Running, TypeOK
    <2>4. after' \in Rest
      BY <2>3 DEF RunEnds, Rest
    <2> DEFINE item == [game |-> job.game, job |-> used["runs"],
                        upload |-> IF taken THEN "queued" ELSE IF ok THEN "failed" ELSE None]
    <2>5. item \in Item
      BY <2>3 DEF Item
    <2>6. Kept(item, cfg.runs) \in Seq(Item)
      BY <2>5, KeepsTyped DEF TypeOK
    <2>7. cfg' = [cfg EXCEPT !.runs = Kept(item, cfg.runs)]
      BY DEF RunEnds, Kept
    <2> HIDE DEF item
    <2>8. cfg' \in [home : Homes, setup : BOOLEAN, auto : BOOLEAN, runs : Seq(Item)]
      BY <2>6, <2>7 DEF TypeOK
    <2> QED
      BY <2>2, <2>4, <2>8 DEF RunEnds, TypeOK, history
  <1>20. CASE \E b \in BOOLEAN : SetupEnds(b)
    BY <1>20, LivesOn DEF TypeOK, AppRec, Rest, SetupEnds, threads, history
  <1>21. CASE \E b \in BOOLEAN : SetAutoReplay(b)
    <2> PICK b \in BOOLEAN : SetAutoReplay(b)
      BY <1>21
    <2>1. app \in AppRec
      BY LivesOn DEF SetAutoReplay
    <2>2. app' \in AppRec
      BY <2>1 DEF SetAutoReplay, AppRec
    <2>3. cfg' \in [home : Homes, setup : BOOLEAN, auto : BOOLEAN, runs : Seq(Item)]
      BY DEF SetAutoReplay, TypeOK
    <2>4. used' \in [{"runs", "calls", "upsets"} -> Nat]
      BY Counted DEF SetAutoReplay
    <2>5. handedBack' \in BOOLEAN /\ pausing' \in BOOLEAN
      BY DEF SetAutoReplay, TypeOK
    <2> QED
      BY <2>2, <2>3, <2>4, <2>5 DEF SetAutoReplay, TypeOK, threads
  <1>22. CASE \E j \in watched : WatchExpires(j)
    BY <1>22 DEF TypeOK, WatchExpires, history
  <1>23. CASE \E j \in watched, state \in {"published", "failed"} : watchUpload(j, state)
    <2> PICK j \in watched, state \in {"published", "failed"} : watchUpload(j, state)
      BY <1>23
    <2> DEFINE Set(item) == IF item.job = j THEN [item EXCEPT !.upload = state] ELSE item
               settled == [i \in DOMAIN cfg.runs |-> Set(cfg.runs[i])]
    <2>1. cfg.runs \in Seq(Item)
      BY DEF TypeOK
    <2>2. \A item \in Item : Set(item) \in Item
      BY DEF Item
    <2> HIDE DEF Set
    <2>3. settled \in Seq(Item)
      BY <2>1, <2>2
    <2>4. cfg' = [cfg EXCEPT !.runs = settled]
      BY DEF watchUpload, Set
    <2> HIDE DEF settled
    <2>5. cfg' \in [home : Homes, setup : BOOLEAN, auto : BOOLEAN, runs : Seq(Item)]
      BY <2>3, <2>4 DEF TypeOK
    <2> QED
      BY <2>5 DEF watchUpload, TypeOK, history
  <1>24. CASE \E h \in Homes, data \in BOOLEAN : moveTo(h, data)
    <2> PICK h \in Homes, data \in BOOLEAN : moveTo(h, data)
      BY <1>24
    <2>1. cfg' \in [home : Homes, setup : BOOLEAN, auto : BOOLEAN, runs : Seq(Item)]
      BY DEF moveTo, TypeOK
    <2>2. move' \in [pc : {"saved", "followed"}, old : Homes, data : BOOLEAN]
      BY DEF moveTo, TypeOK
    <2>3. used' \in [{"runs", "calls", "upsets"} -> Nat]
      BY Counted DEF moveTo
    <2> QED
      BY <2>1, <2>3 DEF moveTo, TypeOK, history
  <1> QED
    BY <1>1, <1>2, <1>3, <1>4, <1>5, <1>6, <1>7, <1>8, <1>9, <1>10, <1>11, <1>12, <1>13, <1>14, <1>15,
       <1>16, <1>17, <1>18, <1>19, <1>20, <1>21, <1>22, <1>23, <1>24
    DEF Next, Process, Work, Uploads, Moves, Ends

\* Only a kill or an ended session takes the process away.
LEMMA Survives ==
    ASSUME TypeOK, LifeInv, Next
    PROVE  Alive' \/ Killed \/ Ended
  <1>1. CASE Launch
    <2>1. app'.mode # None
      BY <1>1 DEF Launch, None
    <2> QED
      BY <2>1 DEF Alive, Dead
  <1>2. CASE Killed
    BY <1>2
  <1>3. CASE WriteEnd
    <2>1. app \in AppRec
      BY <1>3, LivesOn DEF WriteEnd
    <2>2. "mode" \in DOMAIN app /\ app.mode # None
      BY <2>1 DEF AppRec, None
    <2>3. app'.mode = app.mode
      BY <1>3 DEF WriteEnd
    <2> QED
      BY <2>2, <2>3 DEF Alive, Dead
  <1>4. CASE Ended
    BY <1>4
  <1>5. CASE Touch
    BY <1>5 DEF Touch, Alive
  <1>6. CASE WriteTouch
    BY <1>6, LivesOn, DeadIsNot DEF WriteTouch, Alive
  <1>7. CASE WatchStarts
    BY <1>7, LivesOn, DeadIsNot DEF WatchStarts, Alive
  <1>8. CASE autoFinished
    <2>1. app \in AppRec
      BY <1>8, LivesOn DEF autoFinished
    <2>2. "mode" \in DOMAIN app /\ app.mode # None
      BY <2>1 DEF AppRec, None
    <2>3. app'.mode = app.mode
      BY <1>8 DEF autoFinished
    <2> QED
      BY <2>2, <2>3 DEF Alive, Dead
  <1>9. CASE Cancel
    BY <1>9, LivesOn, DeadIsNot DEF Cancel, Alive, AppRec
  <1>10. CASE RetrySetup
    BY <1>10, LivesOn, DeadIsNot DEF RetrySetup, beginSetup, Startable, Alive, AppRec
  <1>11. CASE Look
    BY <1>11 DEF Look, MayLook, Alive
  <1>12. CASE LookAgain
    BY <1>12, LivesOn, DeadIsNot DEF LookAgain, Alive, AppRec
  <1>13. CASE AutoStarts
    BY <1>13, LivesOn, DeadIsNot DEF AutoStarts, startResim, Alive, AppRec
  <1>14. CASE Due
    BY <1>14, LivesOn, DeadIsNot DEF Due, Alive, AppRec
  <1>15. CASE moveHome
    <2>1. app \in AppRec
      BY <1>15, LivesOn DEF moveHome, None
    <2>2. "mode" \in DOMAIN app /\ app.mode # None
      BY <2>1 DEF AppRec, None
    <2>3. app'.mode = app.mode
      BY <1>15 DEF moveHome
    <2> QED
      BY <2>2, <2>3 DEF Alive, Dead
  <1>16. CASE MoveTidies
    <2>1. app \in AppRec
      BY <1>16, LivesOn DEF MoveTidies, None
    <2>2. "mode" \in DOMAIN app /\ app.mode # None
      BY <2>1 DEF AppRec, None
    <2>3. app'.mode \in {app.mode, "setup"}
      BY <1>16 DEF MoveTidies, beginSetup
    <2> QED
      BY <2>2, <2>3 DEF Alive, Dead, None
  <1>17. CASE \E reason \in Ends : EndSession(reason)
    BY <1>17, LivesOn, DeadIsNot DEF EndSession, Alive, AppRec
  <1>18. CASE \E g \in Games : StartResim(g)
    BY <1>18, LivesOn, DeadIsNot DEF StartResim, startResim, Startable, Alive, AppRec
  <1>19. CASE \E ok, taken \in BOOLEAN : RunEnds(ok, taken)
    BY <1>19, LivesOn, DeadIsNot DEF RunEnds, Alive, AppRec
  <1>20. CASE \E b \in BOOLEAN : SetupEnds(b)
    BY <1>20, LivesOn, DeadIsNot DEF SetupEnds, Alive, AppRec
  <1>21. CASE \E b \in BOOLEAN : SetAutoReplay(b)
    <2> PICK b \in BOOLEAN : SetAutoReplay(b)
      BY <1>21
    <2>1. app \in AppRec
      BY LivesOn DEF SetAutoReplay
    <2>2. app' \in AppRec
      BY <2>1 DEF SetAutoReplay, AppRec
    <2> QED
      BY <2>2, DeadIsNot DEF Alive
  <1>22. CASE \E j \in watched : WatchExpires(j)
    BY <1>22 DEF WatchExpires, Alive
  <1>23. CASE \E j \in watched, state \in {"published", "failed"} : watchUpload(j, state)
    BY <1>23 DEF watchUpload, Alive
  <1>24. CASE \E h \in Homes, data \in BOOLEAN : moveTo(h, data)
    BY <1>24 DEF moveTo, Alive
  <1> QED
    BY <1>1, <1>2, <1>3, <1>4, <1>5, <1>6, <1>7, <1>8, <1>9, <1>10, <1>11, <1>12, <1>13, <1>14, <1>15,
       <1>16, <1>17, <1>18, <1>19, <1>20, <1>21, <1>22, <1>23, <1>24
    DEF Next, Process, Work, Uploads, Moves, Ends

\* A process that is gone left nothing running: its end clears all of it, and all that starts
\* anything is of a live one.
LEMMA LifeKept ==
    ASSUME TypeOK, LifeInv, Next
    PROVE  LifeInv'
  <1>1. CASE Killed \/ Ended
    BY <1>1 DEF Killed, Ended, Exit, LifeInv
  <1> QED
    BY <1>1, Survives DEF LifeInv

\* Only an end writes lastEnd, and what it writes is what the record then says (RecordInv).
LEMMA EndKept ==
    ASSUME TypeOK, LifeInv, RecordInv, Next
    PROVE  EndIsTold'
  <1>1. CASE Killed \/ Ended
    BY <1>1 DEF Killed, Ended, Exit, RecordInv, EndIsTold
  <1> QED
    BY <1>1, Survives DEF EndIsTold

\* The mode is not left while the job runs, nor is a job started in another mode.
LEMMA RunningKept ==
    ASSUME TypeOK, LifeInv, RunningInv, Next
    PROVE  RunningInv'
  <1>1. CASE Launch
    BY <1>1 DEF Launch, RunningInv, LifeInv, Running
  <1>2. CASE Killed
    BY <1>2 DEF Killed, Exit, RunningInv, Running
  <1>3. CASE WriteEnd
    BY <1>3 DEF WriteEnd, RunningInv, Running
  <1>4. CASE Ended
    BY <1>4 DEF Ended, Exit, RunningInv, Running
  <1>5. CASE Touch
    BY <1>5 DEF Touch, RunningInv, Running
  <1>6. CASE WriteTouch
    BY <1>6 DEF WriteTouch, RunningInv, Running
  <1>7. CASE WatchStarts
    BY <1>7 DEF WatchStarts, RunningInv, Running
  <1>8. CASE autoFinished
    BY <1>8 DEF autoFinished, RunningInv, Running
  <1>9. CASE Cancel
    BY <1>9 DEF Cancel, RunningInv, Running
  <1>10. CASE RetrySetup
    BY <1>10 DEF RetrySetup, beginSetup, RunningInv, Running, threads
  <1>11. CASE Look
    BY <1>11 DEF Look, RunningInv, Running
  <1>12. CASE LookAgain
    BY <1>12 DEF LookAgain, RunningInv, Running
  <1>13. CASE AutoStarts
    BY <1>13 DEF AutoStarts, startResim, RunningInv
  <1>14. CASE Due
    BY <1>14 DEF Due, RunningInv, Running, threads
  <1>15. CASE moveHome
    BY <1>15 DEF moveHome, RunningInv, Running
  <1>16. CASE MoveTidies
    BY <1>16 DEF MoveTidies, beginSetup, RunningInv, Running
  <1>17. CASE \E reason \in Ends : EndSession(reason)
    BY <1>17 DEF EndSession, RunningInv, Running
  <1>18. CASE \E g \in Games : StartResim(g)
    BY <1>18 DEF StartResim, startResim, RunningInv
  <1>19. CASE \E ok, taken \in BOOLEAN : RunEnds(ok, taken)
    BY <1>19 DEF RunEnds, RunningInv, Running
  <1>20. CASE \E b \in BOOLEAN : SetupEnds(b)
    BY <1>20 DEF SetupEnds, RunningInv, Running, threads
  <1>21. CASE \E b \in BOOLEAN : SetAutoReplay(b)
    BY <1>21 DEF SetAutoReplay, RunningInv, Running, threads
  <1>22. CASE \E j \in watched : WatchExpires(j)
    BY <1>22 DEF WatchExpires, RunningInv, Running
  <1>23. CASE \E j \in watched, state \in {"published", "failed"} : watchUpload(j, state)
    BY <1>23 DEF watchUpload, RunningInv, Running
  <1>24. CASE \E h \in Homes, data \in BOOLEAN : moveTo(h, data)
    BY <1>24 DEF moveTo, RunningInv, Running
  <1> QED
    BY <1>1, <1>2, <1>3, <1>4, <1>5, <1>6, <1>7, <1>8, <1>9, <1>10, <1>11, <1>12, <1>13, <1>14, <1>15,
       <1>16, <1>17, <1>18, <1>19, <1>20, <1>21, <1>22, <1>23, <1>24
    DEF Next, Process, Work, Uploads, Moves, Ends

\* A stop of a run of the loop's own turns the switch off; a games list is asked for with the
\* switch on and outside a pause, and a run, a stop or the switch overtakes the answer.
LEMMA SwitchKept ==
    ASSUME TypeOK, LifeInv, RunningInv, SwitchInv, Next
    PROVE  SwitchInv'
  <1>1. CASE Launch
    BY <1>1 DEF Launch, SwitchInv, Running
  <1>2. CASE Killed
    BY <1>2 DEF Killed, Exit, Quiet, SwitchInv
  <1>3. CASE WriteEnd
    BY <1>3 DEF WriteEnd, SwitchInv, LifeInv, Running
  <1>4. CASE Ended
    BY <1>4 DEF Ended, Exit, Quiet, SwitchInv
  <1>5. CASE Touch
    BY <1>5 DEF Touch, SwitchInv, Running, history
  <1>6. CASE WriteTouch
    BY <1>6 DEF WriteTouch, SwitchInv, LifeInv, Running, history
  <1>7. CASE WatchStarts
    BY <1>7 DEF WatchStarts, SwitchInv, Alive, Running, history
  <1>8. CASE autoFinished
    BY <1>8, LivesOn DEF autoFinished, SwitchInv, LifeInv, Running, AppRec
  <1>9. CASE Cancel
    BY <1>9 DEF Cancel, SwitchInv, Running, TypeOK
  <1>10. CASE RetrySetup
    BY <1>10 DEF RetrySetup, beginSetup, Startable, SwitchInv, Running, threads, history
  <1>11. CASE Look
    BY <1>11 DEF Look, Asking, MayLook, RunningInv, SwitchInv, Running, history
  <1>12. CASE LookAgain
    BY <1>12 DEF LookAgain, Quiet, Overtaken, SwitchInv
  <1>13. CASE AutoStarts
    BY <1>13 DEF AutoStarts, Quiet, Overtaken, SwitchInv
  <1>14. CASE Due
    BY <1>14 DEF Due, SwitchInv, Running, threads
  <1>15. CASE moveHome
    <2>1. app \in AppRec
      BY <1>15, LivesOn DEF moveHome, None
    <2>2. app'.next = app.next
      BY <1>15 DEF moveHome
    <2>3. Alive
      BY <2>1, DeadIsNot DEF Alive
    <2> QED
      BY <1>15, <2>3 DEF moveHome, SwitchInv, Running
  <1>16. CASE MoveTidies
    <2>1. app \in AppRec
      BY <1>16, LivesOn DEF MoveTidies, None
    <2>2. app'.next = app.next
      BY <1>16 DEF MoveTidies, beginSetup
    <2>3. Alive
      BY <2>1, DeadIsNot DEF Alive
    <2> QED
      BY <1>16, <2>2, <2>3 DEF MoveTidies, SwitchInv, Running, history
  <1>17. CASE \E reason \in Ends : EndSession(reason)
    BY <1>17 DEF EndSession, SwitchInv, Running, history
  <1>18. CASE \E g \in Games : StartResim(g)
    BY <1>18 DEF StartResim, startResim, Startable, SwitchInv, history
  <1>19. CASE \E ok, taken \in BOOLEAN : RunEnds(ok, taken)
    BY <1>19 DEF RunEnds, SwitchInv, LifeInv, Running, history
  <1>20. CASE \E b \in BOOLEAN : SetupEnds(b)
    BY <1>20 DEF SetupEnds, SwitchInv, Running, threads, history
  <1>21. CASE \E b \in BOOLEAN : SetAutoReplay(b)
    BY <1>21 DEF SetAutoReplay, SwitchInv, Running, TypeOK, threads
  <1>22. CASE \E j \in watched : WatchExpires(j)
    BY <1>22 DEF WatchExpires, SwitchInv, Running, history
  <1>23. CASE \E j \in watched, state \in {"published", "failed"} : watchUpload(j, state)
    BY <1>23 DEF watchUpload, SwitchInv, Running, history
  <1>24. CASE \E h \in Homes, data \in BOOLEAN : moveTo(h, data)
    BY <1>24 DEF moveTo, SwitchInv, Running, history
  <1> QED
    BY <1>1, <1>2, <1>3, <1>4, <1>5, <1>6, <1>7, <1>8, <1>9, <1>10, <1>11, <1>12, <1>13, <1>14, <1>15,
       <1>16, <1>17, <1>18, <1>19, <1>20, <1>21, <1>22, <1>23, <1>24
    DEF Next, Process, Work, Uploads, Moves, Ends

\* The record is written by the heartbeat, a closer or a move, each for the folder it is about;
\* where two cross, crossed says so.
LEMMA RecordKept ==
    ASSUME TypeOK, LifeInv, RecordInv, Next
    PROVE  RecordInv'
  <1>1. CASE Launch
    BY <1>1 DEF Launch, RecordInv, TypeOK
  <1>2. CASE Killed
    BY <1>2 DEF Killed, Exit, RecordInv, Alive, NoMove
  <1>3. CASE WriteEnd
    <2>1. app \in AppRec /\ Alive
      BY <1>3, LivesOn, DeadIsNot DEF WriteEnd, Alive
    <2>2. closer.home \in Homes /\ closer.reason \in Ends
      BY <1>3 DEF WriteEnd, TypeOK
    <2>3. /\ app'.home = app.home
          /\ app'.ended = IF app.ended = None THEN closer.reason ELSE app.ended
      BY <1>3 DEF WriteEnd
    <2>4. closer.reason # None
      BY <2>2 DEF Ends, None
    <2>5. /\ session' = IF app.ended = None THEN [session EXCEPT ![closer.home] = closer.reason] ELSE session
          /\ crossed' = (crossed \/ (app.ended = None /\ closer.home # app.home))
          /\ UNCHANGED <<cfg, move>>
      BY <1>3 DEF WriteEnd
    <2>6. cfg.home \in Homes /\ DOMAIN session = Homes
      BY DEF TypeOK
    <2> QED
      BY <2>1, <2>3, <2>4, <2>5, <2>6 DEF RecordInv
  <1>4. CASE Ended
    BY <1>4 DEF Ended, Exit, RecordInv, Alive, NoMove
  <1>5. CASE Touch
    BY <1>5 DEF Touch, RecordInv, history
  <1>6. CASE WriteTouch
    BY <1>6 DEF WriteTouch, RecordInv, LifeInv, history
  <1>7. CASE WatchStarts
    BY <1>7 DEF WatchStarts, RecordInv, Alive, history
  <1>8. CASE autoFinished
    BY <1>8 DEF autoFinished, RecordInv, LifeInv
  <1>9. CASE Cancel
    BY <1>9 DEF Cancel, RecordInv
  <1>10. CASE RetrySetup
    BY <1>10 DEF RetrySetup, beginSetup, Startable, RecordInv, threads, history
  <1>11. CASE Look
    BY <1>11 DEF Look, MayLook, RecordInv, history
  <1>12. CASE LookAgain
    BY <1>12 DEF LookAgain, Quiet, RecordInv, LifeInv
  <1>13. CASE AutoStarts
    BY <1>13 DEF AutoStarts, startResim, Startable, RecordInv
  <1>14. CASE Due
    BY <1>14 DEF Due, RecordInv, threads
  <1>15. CASE moveHome
    <2>1. app \in AppRec /\ move \in [pc : {"saved", "followed"}, old : Homes, data : BOOLEAN]
      BY <1>15, LivesOn DEF moveHome, TypeOK, NoMove, None
    <2>2. cfg.home \in Homes /\ DOMAIN session = Homes
      BY DEF TypeOK
    <2>3. app'.home = cfg.home /\ app'.ended = app.ended
      BY <1>15 DEF moveHome
    <2>4. move'.pc = "followed" /\ move'.old = move.old
      BY <1>15 DEF moveHome
    <2>5. app.ended = None => session'[cfg.home] = "open"
      BY <1>15, <2>2 DEF moveHome
    <2>6. app.ended # None => crossed'
      BY <1>15 DEF moveHome
    <2>7. move.pc # None /\ cfg' = cfg
      BY <1>15 DEF moveHome, None
    <2> QED
      BY <2>3, <2>4, <2>5, <2>6, <2>7 DEF RecordInv
  <1>16. CASE MoveTidies
    <2>1. app \in AppRec /\ move.old \in Homes
      BY <1>16, LivesOn DEF MoveTidies, TypeOK, NoMove, None
    <2>2. cfg.home \in Homes /\ DOMAIN session = Homes
      BY DEF TypeOK
    <2>3. app'.home = app.home /\ app'.ended = app.ended
      BY <1>16 DEF MoveTidies, beginSetup
    <2>4. move.old # cfg.home /\ move.pc # "saved" /\ move.pc # None
      BY <1>16 DEF MoveTidies, RecordInv, None
    <2>5. session'[cfg.home] = session[cfg.home]
      BY <1>16, <2>4 DEF MoveTidies
    <2>6. Alive
      BY <2>1, DeadIsNot DEF Alive
    <2>7. move'.pc = None /\ UNCHANGED <<cfg, crossed>>
      BY <1>16 DEF MoveTidies, NoMove, history
    <2> QED
      BY <2>3, <2>4, <2>5, <2>6, <2>7 DEF RecordInv
  <1>17. CASE \E reason \in Ends : EndSession(reason)
    BY <1>17 DEF EndSession, RecordInv, history
  <1>18. CASE \E g \in Games : StartResim(g)
    BY <1>18 DEF StartResim, startResim, Startable, RecordInv, history
  <1>19. CASE \E ok, taken \in BOOLEAN : RunEnds(ok, taken)
    <2>1. app \in AppRec /\ Alive
      BY <1>19, LivesOn, DeadIsNot DEF RunEnds, Alive
    <2>2. app'.home = app.home /\ app'.ended = app.ended
      BY <1>19 DEF RunEnds
    <2>3. cfg'.home = cfg.home
      BY <1>19 DEF RunEnds
    <2>4. UNCHANGED <<session, move, crossed>>
      BY <1>19 DEF RunEnds, history
    <2> QED
      BY <2>1, <2>2, <2>3, <2>4 DEF RecordInv
  <1>20. CASE \E b \in BOOLEAN : SetupEnds(b)
    BY <1>20 DEF SetupEnds, RecordInv, threads, history
  <1>21. CASE \E b \in BOOLEAN : SetAutoReplay(b)
    BY <1>21 DEF SetAutoReplay, RecordInv, threads
  <1>22. CASE \E j \in watched : WatchExpires(j)
    BY <1>22 DEF WatchExpires, RecordInv, history
  <1>23. CASE \E j \in watched, state \in {"published", "failed"} : watchUpload(j, state)
    BY <1>23 DEF watchUpload, RecordInv, history
  <1>24. CASE \E h \in Homes, data \in BOOLEAN : moveTo(h, data)
    BY <1>24 DEF moveTo, RecordInv
  <1> QED
    BY <1>1, <1>2, <1>3, <1>4, <1>5, <1>6, <1>7, <1>8, <1>9, <1>10, <1>11, <1>12, <1>13, <1>14, <1>15,
       <1>16, <1>17, <1>18, <1>19, <1>20, <1>21, <1>22, <1>23, <1>24
    DEF Next, Process, Work, Uploads, Moves, Ends

\* What is queued in a history: of each part of it, and of a run put in front of it.
LEMMA QueuedIn ==
    ASSUME NEW h, NEW j
    PROVE  j \in Queued(h) <=> \E i \in DOMAIN h : h[i].upload = "queued" /\ h[i].job = j
  BY DEF Queued

\* A row that reads queued is put in front with its watch to come, and settled by its watch; a
\* launch watches all of them.
LEMMA UploadsKept ==
    ASSUME TypeOK, LifeInv, UploadsFollowed, Next
    PROVE  UploadsFollowed'
  <1>1. CASE Launch
    BY <1>1 DEF Launch, UploadsFollowed
  <1>2. CASE Killed
    BY <1>2 DEF Killed, Exit, UploadsFollowed, Alive
  <1>3. CASE WriteEnd
    BY <1>3, LivesOn, DeadIsNot DEF WriteEnd, UploadsFollowed, Alive
  <1>4. CASE Ended
    BY <1>4 DEF Ended, Exit, UploadsFollowed, Alive
  <1>5. CASE Touch
    BY <1>5 DEF Touch, UploadsFollowed
  <1>6. CASE WriteTouch
    BY <1>6 DEF WriteTouch, UploadsFollowed, Alive
  <1>7. CASE WatchStarts
    BY <1>7 DEF WatchStarts, UploadsFollowed, Alive
  <1>8. CASE autoFinished
    BY <1>8, LivesOn, DeadIsNot DEF autoFinished, UploadsFollowed, Alive
  <1>9. CASE Cancel
    BY <1>9 DEF Cancel, UploadsFollowed
  <1>10. CASE RetrySetup
    BY <1>10 DEF RetrySetup, Startable, UploadsFollowed, threads
  <1>11. CASE Look
    BY <1>11 DEF Look, MayLook, UploadsFollowed
  <1>12. CASE LookAgain
    BY <1>12, LivesOn, DeadIsNot DEF LookAgain, UploadsFollowed, Alive
  <1>13. CASE AutoStarts
    BY <1>13 DEF AutoStarts, Startable, UploadsFollowed
  <1>14. CASE Due
    BY <1>14 DEF Due, UploadsFollowed, threads
  <1>15. CASE moveHome
    <2>1. Alive
      BY <1>15, LivesOn, DeadIsNot DEF moveHome, Alive, None
    <2> QED
      BY <1>15, <2>1 DEF moveHome, UploadsFollowed
  <1>16. CASE MoveTidies
    <2>1. Alive
      BY <1>16, LivesOn, DeadIsNot DEF MoveTidies, Alive, None
    <2> QED
      BY <1>16, <2>1 DEF MoveTidies, UploadsFollowed
  <1>17. CASE \E reason \in Ends : EndSession(reason)
    BY <1>17 DEF EndSession, UploadsFollowed
  <1>18. CASE \E g \in Games : StartResim(g)
    BY <1>18 DEF StartResim, Startable, UploadsFollowed
  <1>19. CASE \E ok, taken \in BOOLEAN : RunEnds(ok, taken)
    <2> PICK ok \in BOOLEAN, taken \in BOOLEAN : RunEnds(ok, taken)
      BY <1>19
    <2> DEFINE item == [game |-> job.game, job |-> used["runs"],
                        upload |-> IF taken THEN "queued" ELSE IF ok THEN "failed" ELSE None]
    <2>1. cfg.runs \in Seq(Item) /\ Alive
      BY LivesOn, DeadIsNot DEF TypeOK, RunEnds, Alive
    <2>2. cfg'.runs = Kept(item, cfg.runs)
      BY DEF RunEnds, Kept
    <2>3. /\ after = NoAfter /\ watched' = watched /\ late' = late
          /\ after'.watch = taken /\ after'.job = used["runs"]
      BY DEF RunEnds
    <2>4. item.job = used["runs"] /\ (item.upload = "queued" => taken)
      BY DEF None
    <2>5. \A j \in Queued(Kept(item, cfg.runs)) : j \in Queued(cfg.runs) \/ (taken /\ j = used["runs"])
      <3> HIDE DEF item
      <3>1. \A i \in DOMAIN Kept(item, cfg.runs) :
                 Kept(item, cfg.runs)[i] = item \/ \E k \in DOMAIN cfg.runs : Kept(item, cfg.runs)[i] = cfg.runs[k]
        BY <2>1, KeptFrom
      <3> QED
        BY <2>4, <3>1, QueuedIn
    <2> HIDE DEF item
    <2> QED
      BY <2>1, <2>2, <2>3, <2>5 DEF UploadsFollowed, NoAfter
  <1>20. CASE \E b \in BOOLEAN : SetupEnds(b)
    BY <1>20 DEF SetupEnds, UploadsFollowed, threads
  <1>21. CASE \E b \in BOOLEAN : SetAutoReplay(b)
    BY <1>21 DEF SetAutoReplay, UploadsFollowed, threads
  <1>22. CASE \E j \in watched : WatchExpires(j)
    BY <1>22 DEF WatchExpires, UploadsFollowed
  <1>23. CASE \E j \in watched, state \in {"published", "failed"} : watchUpload(j, state)
    <2> PICK k \in watched, state \in {"published", "failed"} : watchUpload(k, state)
      BY <1>23
    <2> DEFINE Set(item) == IF item.job = k THEN [item EXCEPT !.upload = state] ELSE item
    <2>1. cfg.runs \in Seq(Item) /\ Alive
      BY DEF TypeOK, watchUpload
    <2>2. cfg'.runs = [i \in DOMAIN cfg.runs |-> Set(cfg.runs[i])]
      BY DEF watchUpload, TypeOK
    <2>3. \A item \in Item : Set(item).upload = "queued" => item.job # k /\ Set(item) = item
      BY DEF Item
    <2> HIDE DEF Set
    <2>4. \A j \in Queued(cfg'.runs) : j \in Queued(cfg.runs) /\ j # k
      BY <2>1, <2>2, <2>3, QueuedIn
    <2> QED
      BY <2>4 DEF UploadsFollowed, watchUpload
  <1>24. CASE \E h \in Homes, data \in BOOLEAN : moveTo(h, data)
    BY <1>24 DEF moveTo, UploadsFollowed
  <1> QED
    BY <1>1, <1>2, <1>3, <1>4, <1>5, <1>6, <1>7, <1>8, <1>9, <1>10, <1>11, <1>12, <1>13, <1>14, <1>15,
       <1>16, <1>17, <1>18, <1>19, <1>20, <1>21, <1>22, <1>23, <1>24
    DEF Next, Process, Work, Uploads, Moves, Ends

\* The inductive invariant holds of every state the app reaches: it is true of a first start, kept
\* by every step, and by a step that changes nothing.
THEOREM FogOfWarAlways == Spec => []IInv
  <1>1. Init => IInv
    <2> SUFFICES ASSUME Init PROVE IInv
      OBVIOUS
    <2>1. ~Alive /\ ~Running
      BY DEF Init, Alive, Running
    <2>2. SwitchInv
      BY DEF Init, SwitchInv, Quiet
    <2>3. RecordInv
      BY <2>1 DEF Init, RecordInv, NoMove
    <2> QED
      BY <2>1, <2>2, <2>3, Initially DEF IInv, RunningInv, UploadsFollowed, EndIsTold, Init
  <1>2. IInv /\ [Next]_vars => IInv'
    <2> SUFFICES ASSUME IInv, [Next]_vars PROVE IInv'
      OBVIOUS
    <2>1. CASE Next
      BY <2>1, Typed, LifeKept, RunningKept, SwitchKept, RecordKept, UploadsKept, EndKept DEF IInv
    <2>2. CASE UNCHANGED vars
      BY <2>2 DEF vars, threads, history, IInv, TypeOK, LifeInv, RunningInv, SwitchInv, RecordInv,
                  UploadsFollowed, EndIsTold, Alive, Running
    <2> QED
      BY <2>1, <2>2
  <1> QED
    BY <1>1, <1>2, PTL DEF Spec

\* No upload is lost sight of (runJob, watchUpload, startup): whatever ends the process between an
\* upload, its row in the history and its watch, for any history length.
THEOREM UploadsAreFollowed == Spec => []UploadsFollowed
  <1>1. IInv => UploadsFollowed
    BY DEF IInv
  <1> QED
    BY <1>1, FogOfWarAlways, PTL

\* The record tells the next launch how the last run ended (session.go), with any number of
\* heartbeats, closers and folder moves in any order.
THEOREM EndIsAlwaysTold == Spec => []EndIsTold
  <1>1. IInv => EndIsTold
    BY DEF IInv
  <1> QED
    BY <1>1, FogOfWarAlways, PTL

\* Auto-replay starts nothing after a stop handed control back, nor from a look made in a pause
\* (autoStep, Cancel, autoFinished): a step that starts one of its runs is AutoStarts, which waits
\* for a games list, and SwitchInv says what can be true while one is waited for.
THEOREM AutoObeys == Spec => AutoIsObedient
  <1>1. IInv /\ [Next]_vars => [Running' /\ ~Running /\ job'.auto => ~handedBack /\ ~(look.paused /\ pausing)]_vars
    <2> SUFFICES ASSUME IInv, Next, Running', ~Running, job'.auto
                 PROVE  ~handedBack /\ ~(look.paused /\ pausing)
      OBVIOUS
    <2>1. ~look.paused /\ (look.pc = "asking" => ~handedBack)
      BY DEF IInv, SwitchInv
    <2>2. CASE Process
      BY <2>2 DEF Process, Launch, Killed, WriteEnd, Ended, Exit, Touch, WriteTouch, EndSession, Running
    <2>3. CASE Work
      <3>1. CASE AutoStarts
        BY <2>1, <3>1 DEF AutoStarts
      <3>2. CASE \E g \in Games : StartResim(g)
        BY <3>2 DEF StartResim, startResim
      <3>3. CASE WatchStarts \/ autoFinished \/ Cancel \/ Look \/ LookAgain
        BY <3>3 DEF WatchStarts, autoFinished, Cancel, Look, LookAgain, Running
      <3>4. CASE RetrySetup \/ Due \/ \E b \in BOOLEAN : SetupEnds(b) \/ SetAutoReplay(b)
        BY <3>4 DEF RetrySetup, Due, SetupEnds, SetAutoReplay, threads, Running
      <3>5. CASE \E ok, taken \in BOOLEAN : RunEnds(ok, taken)
        BY <3>5 DEF RunEnds
      <3> QED
        BY <2>3, <3>1, <3>2, <3>3, <3>4, <3>5 DEF Work
    <2>4. CASE Uploads \/ Moves
      BY <2>4 DEF Uploads, WatchExpires, watchUpload, Moves, moveHome, MoveTidies, moveTo, Running
    <2> QED
      BY <2>2, <2>3, <2>4 DEF Next
  <1> QED
    BY <1>1, FogOfWarAlways, PTL DEF Spec, AutoIsObedient
=============================================================================
