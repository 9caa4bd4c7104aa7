----------------------------- MODULE MCGrpcPool -----------------------------
(* GrpcPool for TLC: the instances are chosen in the .cfg files.            *)
EXTENDS GrpcPool
=============================================================================
