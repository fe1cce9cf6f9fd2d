----------------------------- MODULE MCDbCalls -----------------------------
(* DbCalls.tla for TLC: a small int, a departure and a row beyond it.      *)
EXTENDS DbCalls
=============================================================================
