------------------------------ MODULE FrameFate ------------------------------
(***************************************************************************)
(* What the video transport promises about the frames the host sends: a     *)
(* frame of which something arrives is either handed over whole or reported *)
(* lost, once and for good.  It promises no order, and nothing about a      *)
(* frame of which no shard arrives.                                         *)
(***************************************************************************)
EXTENDS Integers

CONSTANT MaxFrames   \* bound: frames sent

VARIABLES count,     \* frames sent, numbered 1 .. count
          fate       \* what became of each frame

fateVars == <<count, fate>>

FateInit ==
    /\ count = 0
    /\ fate = [n \in 1 .. MaxFrames |-> "open"]

Send ==
    /\ count < MaxFrames
    /\ count' = count + 1
    /\ UNCHANGED fate

\* One turn of the receive loop settles some frames: any number are given up,
\* at most one is completed.
Settle(S, D) ==
    /\ S \cap D = {}
    /\ \A n \in S \cup D : n <= count /\ fate[n] = "open"
    /\ fate' = [n \in DOMAIN fate |-> IF n \in S THEN "lost"
                                      ELSE IF n \in D THEN "delivered" ELSE fate[n]]
    /\ UNCHANGED count

FateNext ==
    \/ Send
    \/ \E S \in SUBSET (1 .. count) :
          \/ Settle(S, {})
          \/ \E n \in (1 .. count) \ S : Settle(S, {n})

FateSpec == FateInit /\ [][FateNext]_fateVars
=============================================================================
