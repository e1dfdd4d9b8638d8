----------------------------- MODULE MCWebQueue -----------------------------
(* WebQueue on a small instance; the bounds are in the configurations. *)
EXTENDS WebQueue
=============================================================================
