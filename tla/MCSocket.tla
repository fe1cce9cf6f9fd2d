----------------------------- MODULE MCSocket -----------------------------
(* Socket.tla for TLC.                                                    *)
EXTENDS Socket
===========================================================================
