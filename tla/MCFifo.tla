------------------------------ MODULE MCFifo ------------------------------
(* Fifo.tla for TLC.                                                      *)
EXTENDS Fifo
===========================================================================
