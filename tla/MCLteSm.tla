------------------------------- MODULE MCLteSm -------------------------------
(* LteSm for TLC: limits of a few steps, in the configurations. *)
EXTENDS LteSm
=============================================================================
