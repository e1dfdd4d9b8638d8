-------------------------------- MODULE MCLog --------------------------------
(* Log on two threads, two days of two ticks and a few lines. *)
EXTENDS Log
=============================================================================
