------------------------------ MODULE NoValue ------------------------------
(***************************************************************************)
(* The value that stands for the absence of one: a null column, an answer  *)
(* that never arrives, a screen that shows nothing.  The parts that are    *)
(* checked together share it.                                              *)
(***************************************************************************)
CONSTANT None
=============================================================================
