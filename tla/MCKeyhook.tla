------------------------------- MODULE MCKeyhook -------------------------------
(* Keyhook for TLC: one key, which auto-repeats, and one button.              *)
EXTENDS Keyhook

\* What tells states apart.  No guard and no invariant reads ldown; once `ended`
\* is set, which is for good, none reads rdown or more of out than its length.
Seen == <<gate, owned, phys, hook, side, admin,
          IF ended THEN Len(out) ELSE <<out, rdown>>>>
================================================================================
