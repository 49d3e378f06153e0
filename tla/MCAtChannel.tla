------------------------------ MODULE MCAtChannel ------------------------------
(* Values of AtChannel's constants for TLC. *)
EXTENDS AtChannel, TLC

MCOnlyOk == {"OK"}
MCManu   == {""}
=============================================================================
