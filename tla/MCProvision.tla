------------------------------ MODULE MCProvision ------------------------------
(* Provision for TLC: one laptop with a MAC address and one without.          *)
EXTENDS Provision
================================================================================
