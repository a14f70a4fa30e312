------------------------------ MODULE ControlLock ------------------------------
(***************************************************************************)
(* What the hub promises about control sessions: for every laptop a lock   *)
(* that at most one administrator holds.  The holder may take it again,    *)
(* only the holder gives it back, and the hub may revoke it (the laptop's  *)
(* connection ended).  HubRegistry is shown to implement this module.      *)
(***************************************************************************)
CONSTANTS Agents, Admins, None

VARIABLE holder      \* holder[a]: the administrator in control of a, or None

Init == holder = [a \in Agents |-> None]

\* A request succeeds when nobody, or the requester itself, is in control.
Acquire(m, a) ==
  /\ holder[a] \in {None, m}
  /\ holder' = [holder EXCEPT ![a] = m]

\* The holder gives control back.
Release(m, a) ==
  /\ holder[a] = m
  /\ holder' = [holder EXCEPT ![a] = None]

\* The hub takes control away because the laptop went offline.
Revoke(a) ==
  /\ holder[a] # None
  /\ holder' = [holder EXCEPT ![a] = None]

Next == \E a \in Agents :
          \/ Revoke(a)
          \/ \E m \in Admins : Acquire(m, a) \/ Release(m, a)

Spec == Init /\ [][Next]_holder
================================================================================
