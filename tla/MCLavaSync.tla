----------------------------- MODULE MCLavaSync -----------------------------
(***************************************************************************)
(* Instances of LavaSync for TLC.  Batches of two, three games: a full     *)
(* batch, a last one, and a head that never loads with two behind it.      *)
(***************************************************************************)
EXTENDS LavaSync
=============================================================================
