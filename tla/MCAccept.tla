------------------------------ MODULE MCAccept ------------------------------
(* Two user threads that accept, and as many connections as it takes for   *)
(* one to be taken by the wrong thread.                                    *)
EXTENDS ServerAccept
=============================================================================
