---- MODULE MCKeyFrames ----
\* Instances of KeyFrames for TLC.
EXTENDS KeyFrames
====
