---------------------------- MODULE MCLobbySync ----------------------------
(***************************************************************************)
(* Instances of LobbySync for TLC: two lobbies of two players each.        *)
(***************************************************************************)
EXTENDS LobbySync, TLC

MCRoster == [l \in Lobbies |-> {10 * l + 1, 10 * l + 2}]

\* Syncs are interchangeable, and no run here has a temporal property.
MCSymmetry == Permutations(Syncs)
=============================================================================
