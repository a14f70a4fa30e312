----------------------------- MODULE MCBitrate -----------------------------
(* The bitrate controller on a small instance: 1 unit is 20 kbps.  The hook *)
(* tasks are interchangeable.                                               *)
EXTENDS Bitrate, TLC
HookSymmetry == Permutations(Hooks)
============================================================================
