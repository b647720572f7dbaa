----------------------------- MODULE MCUdpLink -----------------------------
(***************************************************************************)
(* Host 0 sends to two peers, in turn and twice in a row, and to itself.   *)
(***************************************************************************)
EXTENDS UdpLink

MCScript == <<1, 2, 0, 1>>
=============================================================================
