----------------------------- MODULE MCJobQueue -----------------------------
(***************************************************************************)
(* Instances of JobQueue for TLC: every RPC, in any order, on one game and *)
(* two rows (a job and its retry, its duplicate, or the app run it came    *)
(* from).  MCIngestSystem's instances have two games.                      *)
(***************************************************************************)
EXTENDS JobQueue

\* Game 2 is an 8v8 lava game of today, game 1 a smaller unmodded one that ended later.
MCPlayers == [g \in Games |-> IF g = 2 THEN 16 ELSE 2]
MCEndUnix == [g \in Games |-> IF g = 2 THEN 10 ELSE 20 + g]
=============================================================================
