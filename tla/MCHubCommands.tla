----------------------------- MODULE MCHubCommands -----------------------------
(* HubCommands for TLC.                                                       *)
EXTENDS HubCommands
================================================================================
