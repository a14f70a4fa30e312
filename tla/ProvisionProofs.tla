---------------------------- MODULE ProvisionProofs ----------------------------
(***************************************************************************)
(* Proofs about Provision for every set of laptops and every bound on the  *)
(* attempts, the faults and the rows.  RowsOK is what makes count + 1 a    *)
(* fresh name and the next number a fresh identity; IdentityOK says that   *)
(* the hub is only asked by a laptop without a readable state file, and    *)
(* OwnRow whose row the identity in a state file, in memory or in an       *)
(* unsaved answer is, and that a file or an answer is not behind the row.  *)
(***************************************************************************)
EXTENDS Provision, FiniteSetTheorems, TLAPS

\* No row is deleted but by a reset of the whole table, so the names in use are
\* 1 to the number of rows, and no identity is above the number ever made.
RowsOK ==
  /\ IsFiniteSet(db) /\ Cardinality(db) <= made
  /\ \A row \in db : row.name <= Cardinality(db) /\ row.id <= made

\* The MAC a laptop with a network card always reports.
Card(m) == <<m, 0>>

\* Which identities a laptop can hold.
IdentityOK ==
  \A m \in Laptops :
    /\ mac[m][1] = m /\ (m \in Machines => mac[m] = Card(m))
    /\ got[m] # None => pc[m] = "save"
    /\ mem[m] <= made /\ got[m] <= made /\ (file[m] <= made \/ file[m] = Torn)
    /\ pc[m] \in {"try", "save"} => file[m] \in {None, Torn}

\* The identity a machine holds in its file, in memory or in an answer is that of
\* its own row, if the hub has a row of it; the rows of a machine are those of its
\* card, and what its file or an answer says, if it says anything, is that row.
OwnRow ==
  \A m \in Machines : \A row \in db :
    /\ row.id \in {mem[m], file[m], got[m]} => row.mac = Card(m)
    /\ row.mac[1] = m => row.mac = Card(m)
    /\ row.mac = Card(m) => /\ got[m] \in {None, row.id}
                            /\ file[m] \in {None, Torn, row.id}

\* The inductive invariant.
IInv == TypeOK /\ RowsOK /\ RowsDistinct /\ IdentityOK /\ OwnRow

\* An empty table and laptops that were never started satisfy it.
LEMMA InitInv == Init => IInv
<1> SUFFICES ASSUME Init PROVE IInv
  OBVIOUS
<1> USE ProvisionConstants DEF Init
<1>1. TypeOK
  BY DEF TypeOK, None, Torn, Labels
<1>2. RowsOK
  BY FS_EmptySet DEF RowsOK
<1>3. RowsDistinct /\ IdentityOK /\ OwnRow
  BY DEF RowsDistinct, IdentityOK, OwnRow, Card, Laptops, None
<1> QED
  BY <1>1, <1>2, <1>3 DEF IInv

--------------------------------------------------------------------------------
(* get_or_create_laptop *)

Rows == [mac : Laptops \X (0..MaxRows + 1), id : 1..MaxRows, name : 1..MaxRows]

\* The table keeps its shape and its rows stay apart; what is added is one row,
\* with a new identity, of a MAC that had none.
LEMMA TableStep ==
  ASSUME TypeOK, RowsOK, RowsDistinct,
         NEW addr \in Laptops \X (0..MaxRows + 1), GetOrCreate(addr) \/ UNCHANGED <<db, made>>
  PROVE  /\ db' \subseteq Rows /\ made' \in 0..MaxRows /\ RowsOK' /\ RowsDistinct'
         /\ made <= made'
         /\ \A row \in db' : row \in db \/ (row.mac = addr /\ row.id = made + 1)
<1> USE ProvisionConstants
<1>1. CASE UNCHANGED <<db, made>>
  BY <1>1 DEF TypeOK, RowsOK, RowsDistinct, Rows
<1>2. CASE ~ UNCHANGED <<db, made>>
  <2> DEFINE n == Cardinality(db) + 1
             new == [mac |-> addr, id |-> made + 1, name |-> n]
  <2>1. /\ ~(\E row \in db : row.mac = addr)
        /\ made < MaxRows /\ made' = made + 1 /\ db' = db \cup {new}
    BY <1>2 DEF GetOrCreate
  <2>2. Cardinality(db) \in Nat /\ made \in Nat
    BY FS_CardinalityType DEF RowsOK, TypeOK
  <2>3. new \in Rows
    BY <2>1, <2>2 DEF Rows, RowsOK, TypeOK
  <2>4. db \subseteq Rows
    BY DEF TypeOK, Rows
  <2>5. new \notin db
    BY <2>1
  <2>6. IsFiniteSet(db') /\ Cardinality(db') = n
    BY <2>1, <2>5, FS_AddElement DEF RowsOK
  <2>7. \A row \in db : row.name < n /\ row.id < made + 1 /\ row.mac # addr
    BY <2>1, <2>2, <2>4 DEF RowsOK, Rows
  <2>8. new.mac = addr /\ new.id = made + 1 /\ new.name = n
    OBVIOUS
  <2> HIDE DEF new
  <2>9. RowsOK'
    <3>1. n \in Nat /\ n <= made + 1
      BY <2>2 DEF RowsOK
    <3>2. \A row \in db : row.name \in Nat /\ row.id \in Nat
      BY <2>4 DEF Rows
    <3>3. \A row \in db' : row.name <= n /\ row.id <= made + 1
      BY <2>1, <2>2, <2>7, <2>8, <3>1, <3>2
    <3> QED BY <2>1, <2>6, <3>1, <3>3 DEF RowsOK
  <2>10. RowsDistinct'
    BY <2>1, <2>7, <2>8, <2>2, <2>4 DEF RowsDistinct, Rows
  <2> QED
    BY <2>1, <2>2, <2>3, <2>4, <2>8, <2>9, <2>10 DEF TypeOK
<1> QED
  BY <1>1, <1>2

--------------------------------------------------------------------------------
\* The table, the state files and the agents keep their types.
LEMMA TypeStep == IInv /\ [Next]_vars => TypeOK'
<1> SUFFICES ASSUME TypeOK, RowsOK, RowsDistinct, [Next]_vars PROVE TypeOK'
  BY DEF IInv
<1> USE ProvisionConstants DEF TypeOK, Labels, Goto, Fault, Resume, AttemptFailed, hubVars,
        None, Torn
<1>1. ASSUME NEW m \in Laptops, Boot(m) PROVE TypeOK'
  BY <1>1 DEF Boot
<1>2. ASSUME NEW m \in Laptops, LoadFile(m) PROVE TypeOK'
  <2>1. file[m] \in 0..MaxRows
    <3>1. file[m] \in 0..MaxRows + 1 /\ file[m] # MaxRows + 1 /\ MaxRows \in Nat
      BY <1>2 DEF LoadFile
    <3> QED BY <3>1
  <2> QED BY <1>2, <2>1 DEF LoadFile
<1>3. ASSUME NEW m \in Laptops, PickMac(m) PROVE TypeOK'
  BY <1>3 DEF PickMac
<1>4. ASSUME NEW m \in Laptops, TryOk(m) PROVE TypeOK'
  <2>1. db' \subseteq Rows /\ made' \in 0..MaxRows
    BY <1>4, TableStep DEF TryOk
  <2>2. got' \in [Laptops -> 0..MaxRows]
    BY <1>4, <2>1 DEF TryOk, Rows
  <2> QED BY <1>4, <2>1, <2>2 DEF TryOk, Rows
<1>23. ASSUME NEW m \in Laptops, AttemptFailed(m)
       PROVE  pc' \in [Laptops -> Labels] /\ tries' \in [Laptops -> 0..Delays - 1]
  <2>0. /\ pc \in [Laptops -> Labels] /\ tries \in [Laptops -> 0..Delays - 1]
        /\ Delays \in Nat /\ Delays > 0 /\ 0 \in 0..Delays - 1
        /\ "exited" \in Labels /\ "sleep" \in Labels
    OBVIOUS
  <2> HIDE DEF TypeOK, Labels
  <2>1. CASE tries[m] + 1 < Delays
    <3>1. tries[m] + 1 \in 0..Delays - 1
      BY <2>0, <2>1
    <3> QED BY <1>23, <2>0, <2>1, <3>1
  <2>2. CASE ~(tries[m] + 1 < Delays)
    BY <1>23, <2>0, <2>2
  <2> QED BY <2>1, <2>2
<1>5. ASSUME NEW m \in Laptops, TryFails(m) PROVE TypeOK'
  <2>1. pc' \in [Laptops -> Labels] /\ tries' \in [Laptops -> 0..Delays - 1]
    BY <1>5, <1>23 DEF TryFails
  <2>2. UNCHANGED <<db, made, hubup, faults, file, mem, mac, got, booting>>
    BY <1>5 DEF TryFails
  <2> QED BY <2>1, <2>2
<1>6. ASSUME NEW m \in Laptops, TryLost(m) PROVE TypeOK'
  <2>1. db' \subseteq Rows /\ made' \in 0..MaxRows
    BY <1>6, TableStep DEF TryLost
  <2>2. pc' \in [Laptops -> Labels] /\ tries' \in [Laptops -> 0..Delays - 1]
    BY <1>6, <1>23 DEF TryLost
  <2>3. faults' \in 0..MaxFaults /\ UNCHANGED <<hubup, file, mem, mac, got, booting>>
    BY <1>6 DEF TryLost
  <2> QED BY <2>1, <2>2, <2>3 DEF Rows
<1>7. ASSUME NEW m \in Laptops, Save(m) PROVE TypeOK'
  BY <1>7 DEF Save
<1>8. ASSUME NEW m \in Laptops, SaveFails(m) PROVE TypeOK'
  BY <1>8 DEF SaveFails
<1>9. ASSUME NEW m \in Laptops, HelloOk(m) PROVE TypeOK'
  BY <1>9 DEF HelloOk
<1>10. ASSUME NEW m \in Laptops, HelloRejected(m) PROVE TypeOK'
  BY <1>10 DEF HelloRejected
<1>11. ASSUME NEW m \in Laptops, HelloBroken(m) PROVE TypeOK'
  BY <1>11 DEF HelloBroken
<1>12. ASSUME NEW m \in Laptops, ConnectFails(m) PROVE TypeOK'
  BY <1>12 DEF ConnectFails
<1>13. ASSUME NEW m \in Laptops, DropState(m) PROVE TypeOK'
  BY <1>13 DEF DropState
<1>22. ASSUME NEW m \in Laptops, DropFails(m) PROVE TypeOK'
  BY <1>22 DEF DropFails
<1>14. ASSUME NEW m \in Laptops, Wake(m) PROVE TypeOK'
  BY <1>14 DEF Wake
<1>15. ASSUME NEW m \in Laptops, HubLost(m) PROVE TypeOK'
  BY <1>15 DEF HubLost
<1>16. ASSUME NEW m \in Laptops, ConnLost(m) PROVE TypeOK'
  BY <1>16 DEF ConnLost
<1>17. ASSUME NEW m \in Laptops, Crash(m) PROVE TypeOK'
  BY <1>17 DEF Crash
<1>18. CASE HubStops
  <2>1. faults' \in 0..MaxFaults
    BY <1>18 DEF HubStops
  <2> QED BY <1>18, <2>1 DEF HubStops
<1>19. CASE HubReset
  BY <1>19 DEF HubReset
<1>20. CASE HubStarts
  BY <1>20 DEF HubStarts
<1>21. CASE UNCHANGED vars
  BY <1>21 DEF vars
<1> HIDE DEF TypeOK
<1> QED
  BY <1>1, <1>2, <1>3, <1>4, <1>5, <1>6, <1>7, <1>8, <1>9, <1>10, <1>11, <1>12,
     <1>13, <1>14, <1>15, <1>16, <1>17, <1>18, <1>19, <1>20, <1>21,
     <1>22 DEF Next,
     AgentStep, FaultStep

--------------------------------------------------------------------------------
\* Only get_or_create_laptop and a reset change the table.
LEMMA RowsStep == IInv /\ [Next]_vars => RowsOK' /\ RowsDistinct'
<1> SUFFICES ASSUME TypeOK, RowsOK, RowsDistinct, [Next]_vars
             PROVE  RowsOK' /\ RowsDistinct'
  BY DEF IInv
<1>1. ASSUME NEW m \in Laptops, TryOk(m) PROVE RowsOK' /\ RowsDistinct'
  BY <1>1, TableStep DEF TryOk, TypeOK
<1>2. ASSUME NEW m \in Laptops, TryLost(m) PROVE RowsOK' /\ RowsDistinct'
  BY <1>2, TableStep DEF TryLost, TypeOK
<1>3. CASE HubReset
  BY <1>3, FS_EmptySet DEF HubReset, RowsOK, RowsDistinct, TypeOK
<1>4. CASE UNCHANGED <<db, made>>
  BY <1>4 DEF RowsOK, RowsDistinct
<1> QED
  BY <1>1, <1>2, <1>3, <1>4 DEF Next, AgentStep, FaultStep, vars, hubVars, Boot,
     LoadFile, PickMac, TryFails, Save, SaveFails, HelloOk, HelloRejected,
     HelloBroken, ConnectFails, DropState, DropFails, Wake, HubLost, ConnLost, Crash, HubStops,
     HubStarts

--------------------------------------------------------------------------------
\* A laptop leaves the file it dropped and the identity a crash took alone until
\* provision() has an answer, and only an answer or its file gives it another.
LEMMA IdentityStep == IInv /\ [Next]_vars => IdentityOK'
<1> SUFFICES ASSUME TypeOK, RowsOK, RowsDistinct, IdentityOK, [Next]_vars PROVE IdentityOK'
  BY DEF IInv
<1> USE ProvisionConstants DEF TypeOK, IdentityOK, Goto, Resume, AttemptFailed, hubVars,
        None, Torn, Card, Laptops
<1>1. ASSUME NEW m \in Laptops, Boot(m) PROVE IdentityOK'
  BY <1>1 DEF Boot
<1>2. ASSUME NEW m \in Laptops, LoadFile(m) PROVE IdentityOK'
  BY <1>2 DEF LoadFile
<1>3. ASSUME NEW m \in Laptops, PickMac(m) PROVE IdentityOK'
  BY <1>3 DEF PickMac
<1>4. ASSUME NEW m \in Laptops, TryOk(m) PROVE IdentityOK'
  <2>1. made' \in Nat /\ made <= made' /\ RowsOK'
    BY <1>4, TableStep DEF TryOk
  <2>2. PICK row \in db' : got' = [got EXCEPT ![m] = row.id]
    BY <1>4 DEF TryOk
  <2>3. row.id \in 1..MaxRows /\ row.id <= made'
    <3>1. row \in Rows
      BY <1>4, <2>2, TableStep DEF TryOk
    <3> QED BY <2>1, <2>2, <3>1 DEF RowsOK, Rows
  <2> QED BY <1>4, <2>1, <2>2, <2>3 DEF TryOk
<1>5. ASSUME NEW m \in Laptops, TryFails(m) PROVE IdentityOK'
  BY <1>5 DEF TryFails
<1>6. ASSUME NEW m \in Laptops, TryLost(m) PROVE IdentityOK'
  <2>1. made' \in Nat /\ made <= made'
    BY <1>6, TableStep DEF TryLost
  <2> QED BY <1>6, <2>1 DEF TryLost
<1>7. ASSUME NEW m \in Laptops, Save(m) PROVE IdentityOK'
  BY <1>7 DEF Save
<1>8. ASSUME NEW m \in Laptops, SaveFails(m) PROVE IdentityOK'
  <2>1. PICK left \in {file[m], Torn} : file' = [file EXCEPT ![m] = left]
    BY <1>8 DEF SaveFails
  <2>2. \A k \in Laptops : file'[k] = file[k] \/ file'[k] = Torn
    BY <2>1
  <2>3. \A k \in Laptops : got'[k] = None \/ (got'[k] = got[k] /\ pc'[k] = pc[k])
    BY <1>8 DEF SaveFails
  <2>4. \A k \in Laptops :
          pc'[k] \in {"sleep", "exited"} \/ (pc'[k] = pc[k] /\ file'[k] = file[k])
    BY <1>8, <2>1 DEF SaveFails
  <2>5. UNCHANGED <<mac, mem, made>>
    BY <1>8 DEF SaveFails
  <2> QED BY <2>2, <2>3, <2>4, <2>5
<1>9. ASSUME NEW m \in Laptops, HelloOk(m) PROVE IdentityOK'
  BY <1>9 DEF HelloOk
<1>10. ASSUME NEW m \in Laptops, HelloRejected(m) PROVE IdentityOK'
  BY <1>10 DEF HelloRejected
<1>11. ASSUME NEW m \in Laptops, HelloBroken(m) PROVE IdentityOK'
  BY <1>11 DEF HelloBroken
<1>12. ASSUME NEW m \in Laptops, ConnectFails(m) PROVE IdentityOK'
  BY <1>12 DEF ConnectFails
<1>13. ASSUME NEW m \in Laptops, DropState(m) PROVE IdentityOK'
  BY <1>13 DEF DropState
<1>22. ASSUME NEW m \in Laptops, DropFails(m) PROVE IdentityOK'
  BY <1>22 DEF DropFails
<1>14. ASSUME NEW m \in Laptops, Wake(m) PROVE IdentityOK'
  BY <1>14 DEF Wake
<1>15. ASSUME NEW m \in Laptops, HubLost(m) PROVE IdentityOK'
  BY <1>15 DEF HubLost
<1>16. ASSUME NEW m \in Laptops, ConnLost(m) PROVE IdentityOK'
  BY <1>16 DEF ConnLost
<1>17. ASSUME NEW m \in Laptops, Crash(m) PROVE IdentityOK'
  BY <1>17 DEF Crash
<1>18. CASE HubStops
  BY <1>18 DEF HubStops
<1>19. CASE HubReset
  BY <1>19 DEF HubReset
<1>20. CASE HubStarts
  BY <1>20 DEF HubStarts
<1>21. CASE UNCHANGED vars
  BY <1>21 DEF vars
<1> HIDE DEF IdentityOK
<1> QED
  BY <1>1, <1>2, <1>3, <1>4, <1>5, <1>6, <1>7, <1>8, <1>9, <1>10, <1>11, <1>12,
     <1>13, <1>14, <1>15, <1>16, <1>17, <1>18, <1>19, <1>20, <1>21,
     <1>22 DEF Next,
     AgentStep, FaultStep

\* Rows of a machine's MAC are only made for the machine itself, which waits for
\* the answer and holds none; a new row has a number nobody holds yet.
LEMMA OwnRowStep == IInv /\ [Next]_vars => OwnRow'
<1> SUFFICES ASSUME TypeOK, RowsOK, RowsDistinct, IdentityOK, OwnRow, [Next]_vars
             PROVE  OwnRow'
  BY DEF IInv
<1> USE ProvisionConstants DEF OwnRow, Card, None, hubVars
<1>0. ASSUME NEW m \in Laptops, pc[m] = "try",
             GetOrCreate(mac[m]) \/ UNCHANGED <<db, made>>,
             NEW k \in Machines, NEW row \in db'
      PROVE  /\ row.id \in {mem[k], file[k], got[k]} => row.mac = Card(k)
             /\ row.mac[1] = k => row.mac = Card(k)
             /\ row.mac = Card(k) => /\ got[k] \in {None, row.id}
                                     /\ file[k] \in {None, Torn, row.id}
  <2>1. db' \subseteq Rows /\ (row \in db \/ (row.mac = mac[m] /\ row.id = made + 1))
    BY <1>0, TableStep DEF TypeOK
  <2>2. CASE row \in db
    BY <2>2
  <2>3. CASE row.mac = mac[m] /\ row.id = made + 1
    <3>1. row.id \notin {mem[k], file[k], got[k]}
      BY <2>1, <2>3 DEF IdentityOK, TypeOK, Rows, Torn, Laptops
    <3>2. row.mac[1] = k => /\ row.mac = Card(k) /\ got[k] = None
                            /\ file[k] \in {None, Torn}
      <4>1. /\ mac[m][1] = m /\ got[m] = None /\ file[m] \in {None, Torn}
            /\ m \in Machines => mac[m] = Card(m)
        BY <1>0 DEF IdentityOK
      <4> QED BY <2>3, <4>1
    <3>3. Card(k)[1] = k
      OBVIOUS
    <3> QED BY <3>1, <3>2, <3>3
  <2> QED BY <2>1, <2>2, <2>3
<1>1. ASSUME NEW m \in Laptops, LoadFile(m) PROVE OwnRow'
  BY <1>1 DEF LoadFile, TypeOK, Laptops
<1>2. ASSUME NEW m \in Laptops, TryOk(m) PROVE OwnRow'
  <2>1. PICK r \in db' : r.mac = mac[m] /\ got' = [got EXCEPT ![m] = r.id]
    BY <1>2 DEF TryOk
  <2>2. RowsDistinct'
    BY <1>2, TableStep DEF TryOk, TypeOK
  <2>3. SUFFICES ASSUME NEW k \in Machines, NEW row \in db'
        PROVE  /\ row.id \in {mem'[k], file'[k], got'[k]} => row.mac = Card(k)
               /\ row.mac[1] = k => row.mac = Card(k)
               /\ row.mac = Card(k) => /\ got'[k] \in {None, row.id}
                                       /\ file'[k] \in {None, Torn, row.id}
    OBVIOUS
  <2>4. /\ row.id \in {mem[k], file[k], got[k]} => row.mac = Card(k)
        /\ row.mac[1] = k => row.mac = Card(k)
        /\ row.mac = Card(k) => /\ got[k] \in {None, row.id}
                                /\ file[k] \in {None, Torn, row.id}
    BY <1>2, <1>0 DEF TryOk, Goto
  <2>5. mem' = mem /\ file' = file
    BY <1>2 DEF TryOk
  <2>6. CASE k = m
    <3>1. got'[k] = r.id /\ r.mac = Card(k)
      BY <2>1, <2>6 DEF IdentityOK, TypeOK, Laptops
    <3>2. row.id = r.id => row = r
      BY <2>2 DEF RowsDistinct
    <3>3. row.mac = Card(k) => row = r
      BY <2>2, <3>1 DEF RowsDistinct
    <3> QED BY <2>4, <2>5, <3>1, <3>2, <3>3
  <2>7. CASE k # m
    BY <2>1, <2>4, <2>5, <2>7 DEF TypeOK, Laptops
  <2> QED BY <2>6, <2>7
<1>3. ASSUME NEW m \in Laptops, TryLost(m) PROVE OwnRow'
  BY <1>3, <1>0 DEF TryLost
<1>4. ASSUME NEW m \in Laptops, Save(m) PROVE OwnRow'
  BY <1>4 DEF Save, TypeOK, Laptops
<1>5. ASSUME NEW m \in Laptops, SaveFails(m) PROVE OwnRow'
  BY <1>5 DEF SaveFails, TypeOK, Torn, Laptops
<1>6. ASSUME NEW m \in Laptops, DropState(m) PROVE OwnRow'
  BY <1>6 DEF DropState, TypeOK, Laptops
<1>7. ASSUME NEW m \in Laptops, Crash(m) PROVE OwnRow'
  BY <1>7 DEF Crash, TypeOK, Torn, Laptops
<1>8. CASE HubReset
  BY <1>8 DEF HubReset
<1>9. CASE UNCHANGED <<db, mem, file, got>>
  BY <1>9
<1> HIDE DEF OwnRow
<1> QED
  BY <1>1, <1>2, <1>3, <1>4, <1>5, <1>6, <1>7, <1>8, <1>9 DEF Next, AgentStep,
     FaultStep, vars, Boot, PickMac, TryFails, HelloOk, HelloRejected, HelloBroken,
     ConnectFails, DropFails, Wake, HubLost, ConnLost, HubStops, HubStarts

--------------------------------------------------------------------------------
\* The five conjuncts together are an invariant of every behaviour.
LEMMA Invariance == Spec => []IInv
<1>1. IInv /\ [Next]_vars => IInv'
  BY TypeStep, RowsStep, IdentityStep, OwnRowStep DEF IInv
<1> QED
  BY InitInv, <1>1, PTL DEF Spec

\* The laptops table, the state files and the agents keep their types.
THEOREM TypeCorrect == Spec => []TypeOK
<1>1. IInv => TypeOK
  BY DEF IInv
<1> QED
  BY Invariance, <1>1, PTL

\* get_or_create_laptop never gives two laptops one name or one identity, and no
\* MAC two rows, for any number of laptops, lost answers and resets.
THEOREM RowsStayDistinct == Spec => []RowsDistinct
<1>1. IInv => RowsDistinct
  BY DEF IInv
<1> QED
  BY Invariance, <1>1, PTL

\* Whatever crashes, lost answers, torn, dropped and undropped state files and
\* resets came before, the identity a laptop with a MAC address takes is that of
\* its own row at the hub and of no other, as far as the hub has it.
THEOREM IdentityIsStable == Spec => IdentityStable
<1> DEFINE P == \A m \in Machines :
                  mem'[m] \notin {None, mem[m]} =>
                    \A row \in db : row.mac[1] = m <=> row.id = mem'[m]
<1>1. ASSUME IInv, [Next]_vars PROVE P
  <2> USE DEF IInv
  <2>0. ASSUME NEW m \in Machines, NEW id \in {file[m], got[m]}, id \notin {None, Torn},
               NEW row \in db
        PROVE  row.mac[1] = m <=> row.id = id
    <3>1. /\ row.id \in {mem[m], file[m], got[m]} => row.mac = Card(m)
          /\ row.mac[1] = m => row.mac = Card(m)
          /\ row.mac = Card(m) => /\ got[m] \in {None, row.id}
                                  /\ file[m] \in {None, Torn, row.id}
      BY <1>1 DEF OwnRow
    <3>2. Card(m)[1] = m
      BY DEF Card
    <3> QED BY <2>0, <3>1, <3>2
  <2>1. ASSUME NEW m \in Laptops, LoadFile(m) PROVE P
    <3>1. mem' = [mem EXCEPT ![m] = file[m]] /\ file[m] \notin {None, Torn}
      BY <2>1 DEF LoadFile
    <3>2. \A k \in Machines : mem'[k] # mem[k] => k = m /\ mem'[k] = file[k]
      BY <1>1, <3>1 DEF TypeOK, Laptops
    <3> QED BY <2>0, <3>1, <3>2
  <2>2. ASSUME NEW m \in Laptops, Save(m) PROVE P
    <3>1. mem' = [mem EXCEPT ![m] = got[m]] /\ got[m] # Torn
      BY <1>1, <2>2, ProvisionConstants DEF Save, TypeOK, Torn
    <3>2. \A k \in Machines : mem'[k] # mem[k] => k = m /\ mem'[k] = got[k]
      BY <1>1, <3>1 DEF TypeOK, Laptops
    <3> QED BY <2>0, <3>1, <3>2
  <2>3. ASSUME NEW m \in Laptops, Crash(m) PROVE P
    BY <1>1, <2>3 DEF Crash, TypeOK, Laptops
  <2>4. CASE UNCHANGED mem
    BY <2>4
  <2> HIDE DEF P
  <2> QED
    BY <1>1, <2>1, <2>2, <2>3, <2>4 DEF Next, AgentStep, FaultStep, vars, hubVars,
       Boot, PickMac, TryOk, TryFails, TryLost, SaveFails, HelloOk, HelloRejected,
       HelloBroken, ConnectFails, DropState, DropFails, Wake, HubLost, ConnLost,
       HubStops, HubReset, HubStarts
<1> QED
  BY Invariance, <1>1, PTL DEF Spec, IdentityStable
================================================================================
