---- MODULE MCStreamSession ----
\* Instances of StreamSession for TLC.
EXTENDS StreamSession
====
