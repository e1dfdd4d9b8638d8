----------------------------- MODULE MCDownload -----------------------------
(* Download with a few descriptors, hosts and pages. *)
EXTENDS Download

MCDescs == 3..5     \* 0, 1 and 2 are the standard streams
=============================================================================
