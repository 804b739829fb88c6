--------------------------- MODULE MCIngestSystem ---------------------------
(***************************************************************************)
(* Instances of IngestSystem for TLC.                                      *)
(***************************************************************************)
EXTENDS IngestSystem, TLC

\* Daemon "big" has the memory an 8v8 lava game wants, "small" has not.
MCMemOf == [d \in Resimmers |-> IF d = "big" THEN 2 ELSE IF d = "small" THEN 1 ELSE 0]

\* Game 2 is the larger one, game 1 ended later.
MCPlayers == [g \in Games |-> IF g = 2 THEN 16 ELSE 2]
MCEndUnix == [g \in Games |-> IF g = 2 THEN 10 ELSE 20 + g]

\* Re-sim daemons with the same memory may trade places: no operator chooses
\* between daemons.
Interchangeable ==
    {p \in Permutations(Resimmers) : \A d \in Resimmers : MemOf[p[d]] = MemOf[d]}
=============================================================================
