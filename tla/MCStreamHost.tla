--------------------------- MODULE MCStreamHost ---------------------------
(* The streaming host on a small instance. *)
EXTENDS StreamHost
===========================================================================
