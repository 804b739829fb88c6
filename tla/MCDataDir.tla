------------------------------ MODULE MCDataDir ------------------------------
(***************************************************************************)
(* Instances of DataDir for TLC.                                           *)
(***************************************************************************)
EXTENDS DataDir

MCFilesOf == [b \in Builds |-> {b, "shared"}]
=============================================================================
