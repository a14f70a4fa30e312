------------------------------- MODULE Provision -------------------------------
(***************************************************************************)
(* How a laptop gets and keeps its identity (kmc-hub: routes::provision,   *)
(* db::get_or_create_laptop, verify_agent; kmc-agent: main, provision.rs,  *)
(* the reconnect loop of run.rs).                                          *)
(*                                                                         *)
(* An identity (agent_id with its provision_token) is the number of its    *)
(* row among all rows ever made: uuids and tokens only have to differ.     *)
(* Faults (a crash of the agent, a lost answer, a network error, a failed  *)
(* write or removal of the state file, an outage or a reset of the hub)    *)
(* may happen MaxFaults times in all, so that liveness speaks of what      *)
(* follows the last of them.                                               *)
(***************************************************************************)
EXTENDS Naturals, FiniteSets

CONSTANTS
  Machines,   \* laptops with a network card; each is its own MAC address
  NoMac,      \* laptops on which no MAC address is found
  Delays,     \* attempts of one provision() call (6 in the code)
  MaxFaults,  \* bound on the faults of a behaviour
  MaxRows     \* bound on the rows ever made

ASSUME ProvisionConstants ==
  /\ Machines \cap NoMac = {}
  /\ Delays \in Nat \ {0} /\ MaxFaults \in Nat /\ MaxRows \in Nat

Laptops == Machines \cup NoMac
None == 0      \* no identity, or a fallback one with an empty token
Torn == MaxRows + 1    \* a state file cut off by a crash: not parsable

VARIABLES
  db,       \* laptops table: rows [mac, id, name]
  made,     \* rows ever made, over all resets
  hubup, faults,
  file,     \* state file
  mem,      \* the identity in memory
  pc, tries,
  mac,      \* the MAC this provision() call reports
  got,      \* the answer of the hub not yet saved
  booting   \* provision() was called by main, not by the reconnect loop

hubVars == <<db, made, hubup>>
vars == <<hubVars, faults, file, mem, pc, tries, mac, got, booting>>

Ids == {row.id : row \in db}

Init ==
  /\ db = {} /\ made = 0 /\ hubup = TRUE /\ faults = 0
  /\ file  = [m \in Laptops |-> None]
  /\ mem   = [m \in Laptops |-> None]
  /\ pc    = [m \in Laptops |-> "off"]
  /\ tries = [m \in Laptops |-> 0]
  /\ mac   = [m \in Laptops |-> <<m, 0>>]
  /\ got   = [m \in Laptops |-> None]
  /\ booting = [m \in Laptops |-> TRUE]

Goto(m, from, to) ==
  /\ pc[m] = from
  /\ pc' = [pc EXCEPT ![m] = to]

Fault == faults < MaxFaults /\ faults' = faults + 1

--------------------------------------------------------------------------------
(* provision::provision *)

Boot(m) ==
  /\ Goto(m, "off", "load")
  /\ booting' = [booting EXCEPT ![m] = TRUE]
  /\ UNCHANGED <<hubVars, faults, file, mem, tries, mac, got>>

\* Where provision() returns to with an identity: main starts the reconnect
\* loop, the loop itself sleeps first.
Resume(m) == IF booting[m] THEN "connect" ELSE "sleep"

\* A readable state file is taken as it is.
LoadFile(m) ==
  /\ pc[m] = "load"
  /\ file[m] \notin {None, Torn}
  /\ mem' = [mem EXCEPT ![m] = file[m]]
  /\ pc' = [pc EXCEPT ![m] = Resume(m)]
  /\ UNCHANGED <<hubVars, faults, file, tries, mac, got, booting>>

\* Mutant of PickMac: the placeholder is used on every laptop.
PickPlaceholder(m) ==
  /\ Goto(m, "load", "try")
  /\ file[m] \in {None, Torn}
  /\ mac' = [mac EXCEPT ![m] = <<m, made + 1>>]
  /\ tries' = [tries EXCEPT ![m] = 0]
  /\ UNCHANGED <<hubVars, faults, file, mem, got, booting>>

\* No file, or one that does not parse: collect the MAC address.  Without one
\* a random placeholder is made up for this call.
PickMac(m) ==
  /\ Goto(m, "load", "try")
  /\ file[m] \in {None, Torn}
  /\ mac' = [mac EXCEPT ![m] = IF m \in NoMac THEN <<m, made + 1>> ELSE <<m, 0>>]
  /\ tries' = [tries EXCEPT ![m] = 0]
  /\ UNCHANGED <<hubVars, faults, file, mem, got, booting>>

\* Mutant of GetOrCreate: rows are numbered from the count itself, and a MAC
\* seen before gets a second row with the name of the last one.
CreateRenumbered(addr) ==
  /\ made < MaxRows
  /\ IF \E row \in db : row.mac = addr
       THEN UNCHANGED <<db, made>>
       ELSE /\ db' = db \cup {[mac |-> addr, id |-> made + 1,
                               name |-> IF db = {} THEN 1 ELSE Cardinality(db)]}
            /\ made' = made + 1

\* db::get_or_create_laptop, under the db lock: the row of this MAC, or a new
\* row called student-<count + 1>.
GetOrCreate(addr) ==
  \/ (\E row \in db : row.mac = addr) /\ UNCHANGED <<db, made>>
  \/ /\ ~(\E row \in db : row.mac = addr)
     /\ made < MaxRows
     /\ db' = db \cup {[mac |-> addr, id |-> made + 1, name |-> Cardinality(db) + 1]}
     /\ made' = made + 1

\* POST /provision was answered.
TryOk(m) ==
  /\ Goto(m, "try", "save")
  /\ hubup
  /\ GetOrCreate(mac[m])
  /\ \E row \in db' : row.mac = mac[m] /\ got' = [got EXCEPT ![m] = row.id]
  /\ UNCHANGED <<hubup, faults, file, mem, tries, mac, booting>>

\* An attempt failed.  After the last one provision() returns a fallback
\* identity, which is not saved: main's run() refuses it and the process
\* ends, the reconnect loop keeps the identity it had and tries again.
AttemptFailed(m) ==
  IF tries[m] + 1 < Delays
    THEN /\ tries' = [tries EXCEPT ![m] = @ + 1]
         /\ UNCHANGED pc
    ELSE /\ tries' = [tries EXCEPT ![m] = 0]
         /\ pc' = [pc EXCEPT ![m] = IF booting[m] THEN "exited" ELSE "sleep"]

\* The hub is not reachable.
TryFails(m) ==
  /\ pc[m] = "try"
  /\ ~hubup
  /\ AttemptFailed(m)
  /\ UNCHANGED <<hubVars, faults, file, mem, mac, got, booting>>

\* The request was lost, or the hub made the row and the answer was lost.
TryLost(m) ==
  /\ pc[m] = "try"
  /\ hubup
  /\ Fault
  /\ GetOrCreate(mac[m]) \/ UNCHANGED <<db, made>>
  /\ AttemptFailed(m)
  /\ UNCHANGED <<hubup, file, mem, mac, got, booting>>

\* save_state, then the identity is in use.
Save(m) ==
  /\ Goto(m, "save", Resume(m))
  /\ file' = [file EXCEPT ![m] = got[m]]
  /\ mem' = [mem EXCEPT ![m] = got[m]]
  /\ got' = [got EXCEPT ![m] = None]
  /\ UNCHANGED <<hubVars, faults, tries, mac, booting>>

\* The file cannot be written, and may have been cut off: provision() fails.
SaveFails(m) ==
  /\ Goto(m, "save", IF booting[m] THEN "exited" ELSE "sleep")
  /\ Fault
  /\ got' = [got EXCEPT ![m] = None]
  /\ \E left \in {file[m], Torn} : file' = [file EXCEPT ![m] = left]
  /\ UNCHANGED <<hubVars, mem, tries, mac, booting>>

--------------------------------------------------------------------------------
(* run::run *)

HelloOk(m) ==
  /\ Goto(m, "connect", "serving")
  /\ hubup
  /\ mem[m] \in Ids
  /\ UNCHANGED <<hubVars, faults, file, mem, tries, mac, got, booting>>

\* verify_agent finds no row: the hub closes the connection during hello.
HelloRejected(m) ==
  /\ Goto(m, "connect", "drop")
  /\ hubup
  /\ mem[m] \notin Ids
  /\ UNCHANGED <<hubVars, faults, file, mem, tries, mac, got, booting>>

\* A network error, or a proxy closing, during hello: is_auth_failure takes
\* it for a rejection as well.
HelloBroken(m) ==
  /\ Goto(m, "connect", "drop")
  /\ hubup
  /\ Fault
  /\ UNCHANGED <<hubVars, file, mem, tries, mac, got, booting>>

ConnectFails(m) ==
  /\ Goto(m, "connect", "sleep")
  /\ ~hubup
  /\ UNCHANGED <<hubVars, faults, file, mem, tries, mac, got, booting>>

\* The state file is removed and provision() called again.
DropState(m) ==
  /\ Goto(m, "drop", "load")
  /\ file' = [file EXCEPT ![m] = None]
  /\ booting' = [booting EXCEPT ![m] = FALSE]
  /\ UNCHANGED <<hubVars, faults, mem, tries, mac, got>>

\* The file cannot be removed, which nobody looks at: provision() finds it again.
DropFails(m) ==
  /\ Goto(m, "drop", "load")
  /\ Fault
  /\ booting' = [booting EXCEPT ![m] = FALSE]
  /\ UNCHANGED <<hubVars, file, mem, tries, mac, got>>

\* Mutant of Wake: a failed re-provisioning ends the loop.
WakeOnce(m) ==
  /\ Goto(m, "sleep", IF file[m] = None THEN "exited" ELSE "connect")
  /\ UNCHANGED <<hubVars, faults, file, mem, tries, mac, got, booting>>

\* 5 s later.
Wake(m) ==
  /\ Goto(m, "sleep", "connect")
  /\ UNCHANGED <<hubVars, faults, file, mem, tries, mac, got, booting>>

\* The connection ends because the hub went away.
HubLost(m) ==
  /\ Goto(m, "serving", "sleep")
  /\ ~hubup
  /\ UNCHANGED <<hubVars, faults, file, mem, tries, mac, got, booting>>

\* The network fails: no connection or no hello sent, or an established
\* connection ends.
ConnLost(m) ==
  /\ pc[m] \in {"connect", "serving"}
  /\ Fault
  /\ pc' = [pc EXCEPT ![m] = "sleep"]
  /\ UNCHANGED <<hubVars, file, mem, tries, mac, got, booting>>

\* The laptop goes down; a write in progress may be cut off.
Crash(m) ==
  /\ pc[m] \notin {"off", "exited"}
  /\ Fault
  /\ pc' = [pc EXCEPT ![m] = "off"]
  /\ mem' = [mem EXCEPT ![m] = None]
  /\ got' = [got EXCEPT ![m] = None]
  /\ \/ UNCHANGED file
     \/ pc[m] = "save" /\ file' = [file EXCEPT ![m] = Torn]
  /\ UNCHANGED <<hubVars, tries, mac, booting>>

--------------------------------------------------------------------------------
(* The hub process *)

HubStops ==
  /\ hubup /\ Fault
  /\ hubup' = FALSE
  /\ UNCHANGED <<db, made, file, mem, pc, tries, mac, got, booting>>

\* The database volume is replaced while the hub is down.
HubReset ==
  /\ ~hubup /\ db # {} /\ Fault
  /\ db' = {}
  /\ UNCHANGED <<made, hubup, file, mem, pc, tries, mac, got, booting>>

HubStarts ==
  /\ ~hubup
  /\ hubup' = TRUE
  /\ UNCHANGED <<db, made, faults, file, mem, pc, tries, mac, got, booting>>

--------------------------------------------------------------------------------
\* What the agent does by itself.
AgentStep(m) ==
  \/ LoadFile(m) \/ PickMac(m) \/ TryOk(m) \/ TryFails(m) \/ Save(m)
  \/ HelloOk(m) \/ HelloRejected(m) \/ ConnectFails(m) \/ DropState(m)
  \/ Wake(m) \/ HubLost(m)

FaultStep(m) ==
  \/ TryLost(m) \/ SaveFails(m) \/ HelloBroken(m) \/ DropFails(m)
  \/ ConnLost(m) \/ Crash(m)

Next ==
  \/ \E m \in Laptops : Boot(m) \/ AgentStep(m) \/ FaultStep(m)
  \/ HubStops \/ HubReset \/ HubStarts

\* A running agent goes on, and a stopped hub is started again; nobody has to
\* boot a laptop, and no fault has to happen.
Fairness == (\A m \in Laptops : WF_vars(AgentStep(m))) /\ WF_vars(HubStarts)

Spec     == Init /\ [][Next]_vars
FairSpec == Spec /\ Fairness
--------------------------------------------------------------------------------
(* Properties *)

Labels == {"off", "load", "try", "save", "connect", "drop", "sleep", "serving", "exited"}

\* Every variable keeps the shape of the table, the file and the process.
TypeOK ==
  /\ db \subseteq [mac : Laptops \X (0..MaxRows + 1), id : 1..MaxRows, name : 1..MaxRows]
  /\ made \in 0..MaxRows /\ hubup \in BOOLEAN /\ faults \in 0..MaxFaults
  /\ file \in [Laptops -> 0..Torn] /\ mem \in [Laptops -> 0..MaxRows]
  /\ pc \in [Laptops -> Labels] /\ tries \in [Laptops -> 0..Delays - 1]
  /\ mac \in [Laptops -> Laptops \X (0..MaxRows + 1)]
  /\ got \in [Laptops -> 0..MaxRows] /\ booting \in [Laptops -> BOOLEAN]

\* One row per MAC address and one name per row (db.rs:43): students are told
\* apart by the name, and count + 1 only works while no row is ever deleted.
RowsDistinct ==
  \A r1, r2 \in db : r1 # r2 => r1.mac # r2.mac /\ r1.id # r2.id /\ r1.name # r2.name

\* The identity a laptop with a MAC address takes is that of its own row, and no
\* other, as far as the hub has it (spec.md:45): when it dropped its state file
\* for what was a network error or could not drop it, when it crashed at any point
\* of provisioning and lost memory, file or both, and when the hub made its row but
\* the answer was lost.  So it never trades an identity the hub knows for another.
IdentityStable ==
  [][\A m \in Machines :
        mem'[m] \notin {None, mem[m]} =>
          \A row \in db : row.mac[1] = m <=> row.id = mem'[m]]_vars

\* A laptop in the reconnect loop with an identity is served again, whatever
\* happened to the hub's database (run.rs:26): the loop never gives up, unless
\* the laptop itself goes down.
LoopReconnects ==
  \A m \in Laptops : pc[m] \in {"connect", "sleep", "drop"} ~> pc[m] \in {"serving", "off"}
================================================================================
