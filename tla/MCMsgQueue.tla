----------------------------- MODULE MCMsgQueue -----------------------------
(***************************************************************************)
(* Three producers on a ring of two slots, so that the ring wraps and is   *)
(* full while a message is worked on.                                      *)
(***************************************************************************)
EXTENDS MsgQueue
=============================================================================
