---------------------------- MODULE MCSummaryHub ----------------------------
(***************************************************************************)
(* Instances of SummaryHub for TLC: two summaries of one version, and two  *)
(* daemons of that version with one slot each, so that a third request for *)
(* work is queued or refused.                                              *)
(***************************************************************************)
EXTENDS SummaryHub

MCVersionOf == [k \in Keys |-> 1]
MCLinkVersion == [l \in Links |-> 1]
MCSlots == [l \in Links |-> 1]
=============================================================================
