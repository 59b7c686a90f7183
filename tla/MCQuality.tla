----------------------------- MODULE MCQuality ------------------------------
(***************************************************************************)
(* Instance of Quality: two threads.                                       *)
(***************************************************************************)
EXTENDS Quality

CONSTANTS t1, t2
=============================================================================
