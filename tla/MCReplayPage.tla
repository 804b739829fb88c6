---------------------------- MODULE MCReplayPage ----------------------------
(***************************************************************************)
(* Instances of ReplayPage for TLC: "ranged" is an ordinary replay, "whole" *)
(* is served by a host that ignores Range, "small" fits in the first read, *)
(* "unrun" has nothing published.                                          *)
(***************************************************************************)
EXTENDS ReplayPage, TLC
=============================================================================
