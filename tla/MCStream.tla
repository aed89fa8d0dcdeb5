------------------------------ MODULE MCStream ------------------------------
(* The stream with a few bytes: every interleaving of one writer and one   *)
(* reader is explored.                                                     *)
EXTENDS DynamicByteArrayInputStream
=============================================================================
