----------------------------- MODULE MCHubRegistry -----------------------------
(* HubRegistry for TLC: symmetry of the interchangeable model values.        *)
EXTENDS HubRegistry, TLC

Symmetry == Permutations(Conns) \cup Permutations(Admins)
================================================================================
