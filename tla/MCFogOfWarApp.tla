--------------------------- MODULE MCFogOfWarApp ----------------------------
(***************************************************************************)
(* Instances of FogOfWarApp for TLC.                                       *)
(***************************************************************************)
EXTENDS FogOfWarApp, TLC

\* Games are interchangeable; the only temporal property is about single steps.
MCSymmetry == Permutations(Games)
=============================================================================
