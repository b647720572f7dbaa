---------------------------- MODULE MCMsgBuffer ----------------------------
(***************************************************************************)
(* Three threads (application, server and client) on a pool of slots.      *)
(***************************************************************************)
EXTENDS MsgBuffer
=============================================================================
