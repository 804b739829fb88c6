------------------------------ MODULE MCViewer -------------------------------
(***************************************************************************)
(* The browser's two asynchronous pages, one family of behaviours each:    *)
(* the replay page with replays opened one over the other, and the landing *)
(* page's lists over replies that cross.                                   *)
(***************************************************************************)
EXTENDS ReplayPage, Listing

VARIABLE family

\* Two games ended at once; the newer of them may be mirrored late.
MCEndUnix == <<40, 30, 30, 20, 10>>
MCCount == <<2, 2, 2, 3, 4>>
MCFlagged == {3, 5}

ViewerInit == family \in {"replay", "lists"} /\ Init /\ ListInit

ViewerNext ==
    \/ family = "replay" /\ Next /\ UNCHANGED <<family, listVars>>
    \/ family = "lists" /\ ListNext /\ UNCHANGED <<family, vars>>

ViewerSpec == ViewerInit /\ [][ViewerNext]_<<family, vars, listVars>>
=============================================================================
