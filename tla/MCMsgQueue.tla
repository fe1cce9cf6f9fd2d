---------------------------- MODULE MCMsgQueue ----------------------------
(* MsgQueue.tla for TLC.                                                  *)
EXTENDS MsgQueue
===========================================================================
