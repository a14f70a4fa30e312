---- MODULE MCVideoStream ----
\* Instances of VideoStream for TLC: blocks of at most three shards, frames of
\* one block (1 data + 1 parity) and of two (2 + 1 and 1 + 1).
EXTENDS VideoStream
====
