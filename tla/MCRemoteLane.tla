------------------------------ MODULE MCRemoteLane ------------------------------
(* Instances of RemoteLane for TLC.                                           *)
EXTENDS RemoteLane, TLC
=============================================================================
