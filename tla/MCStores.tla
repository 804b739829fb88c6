------------------------------ MODULE MCStores -------------------------------
(***************************************************************************)
(* Two stores that processes change while others do and are killed at it,  *)
(* one family of behaviours each: the catalog with the bucket behind it    *)
(* (one game with two full views, a spectator's and a re-simulation's, and *)
(* a player's own), and an engine's data directory under two processes.    *)
(***************************************************************************)
EXTENDS Catalog, DataDir

VARIABLE family

MCGameOf == [c \in Captures |-> "g"]
MCMapOf == [g \in Games |-> "m"]
MCSettingsOf == [c \in Captures |-> IF c = "player" THEN "lava" ELSE "mods"]
MCAllyOf == [c \in Captures |-> IF c = "player" THEN "a1" ELSE None]

\* Two builds that share a pool file.
MCFilesOf == [b \in Builds |-> {b, "shared"}]

StoresInit ==
    /\ family \in {"catalog", "folder"}
    /\ Init /\ (family # "catalog" => row = [g \in Games |-> NoRow])
    /\ DirInit /\ (family # "folder" => folder.cfg = "user" /\ folder.packages = <<"b1">>)

StoresNext ==
    \/ family = "catalog" /\ Next /\ UNCHANGED <<family, dirVars>>
    \/ family = "folder" /\ DirNext /\ UNCHANGED <<family, vars>>

StoresSpec == StoresInit /\ [][StoresNext]_<<family, vars, dirVars>>
=============================================================================
