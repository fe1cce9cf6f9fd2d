----------------------------- MODULE MCFiles -----------------------------
(* Files.tla for TLC.                                                     *)
EXTENDS Files
==========================================================================
