--------------------------- MODULE MCPageCache ---------------------------
(***************************************************************************)
(* A cache that is smaller than the set of pages the program uses.         *)
(***************************************************************************)
EXTENDS PageCache
=============================================================================
