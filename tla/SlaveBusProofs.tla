----------------------------- MODULE SlaveBusProofs ----------------------------
(***************************************************************************)
(* Proofs about the station addresses, for any number of slaves: what the   *)
(* renumbering by position leaves on the bus, whatever it found there.      *)
(***************************************************************************)
EXTENDS SlaveBus, TLAPS

USE BusAssumption

\* The object of slave i has been given its address.
Given(i) == pc = "ready" \/ i < index \/ (i = index /\ pc = "verify")

\* The renumbering goes through the ring in order.
OrderInv ==
  pc # "dead" =>
    /\ \A i \in Indices : slaveAddr[i] = IF Given(i) THEN Base + i ELSE NoAddress
    /\ newSlaveAddr =
         IF pc = "ready" THEN Base + Managed
         ELSE IF pc = "verify" THEN Base + index + 1 ELSE Base + index
    /\ pc = "count" => index = 0

\* An object has its slave's address or none; a slave that was given an address
\* has it still, or lost its power since.
AddressInv ==
  /\ \A i \in Indices : slaveAddr[i] \in {NoAddress, Base + i}
  /\ pc # "dead" => \A i \in Indices : Given(i) => station[i] \in {NoAddress, Base + i}

Inv == TypeOK /\ OrderInv /\ AddressInv

--------------------------------------------------------------------------------
\* Auto-increment addressing reaches the slave at the position and no other.
LEMMA PositionIsUnique ==
  ASSUME NEW index0 \in Positions, reach \in 0 .. OnBus
  PROVE  TakesPositional(index0) = IF index0 < reach THEN {index0} ELSE {}
<1>1. ASSUME NEW p \in Positions
      PROVE  (AutoIncrementStart(index0) + p) % Width = 0 <=> p = index0
  <2>1. AutoIncrementStart(index0) = IF index0 = 0 THEN 0 ELSE Width - index0
    BY DEF AutoIncrementStart, Positions
  <2>2. CASE index0 = 0
    BY <2>1, <2>2 DEF Positions
  <2>3. CASE index0 # 0 /\ p < index0
    <3>1. Width - index0 + p \in 1 .. Width - 1
      BY <2>3 DEF Positions
    <3>2. (Width - index0 + p) % Width = Width - index0 + p
      BY <3>1
    <3>3. QED
      BY <2>1, <2>3, <3>1, <3>2 DEF Positions
  <2>4. CASE index0 # 0 /\ p >= index0
    <3>1. p - index0 \in 0 .. Width - 1
      BY <2>4 DEF Positions
    <3>2. (Width + (p - index0)) % Width = p - index0
      BY <3>1
    <3>3. Width - index0 + p = Width + (p - index0)
      BY DEF Positions
    <3>4. QED
      BY <2>1, <2>4, <3>1, <3>2, <3>3 DEF Positions
  <2>5. QED
    BY <2>2, <2>3, <2>4 DEF Positions
<1>2. 0 .. reach - 1 \subseteq Positions
  BY DEF Positions
<1>3. QED
  BY <1>1, <1>2 DEF TakesPositional, Positions

\* Whatever addresses the slaves have when the process starts.
LEMMA InitInv == Init => Inv
BY DEF Init, Inv, TypeOK, OrderInv, AddressInv, Given, Indices, Positions, Addresses, NoAddress,
   Untouched

\* The slaves that take an access are slaves of the bus.
LEMMA TakersAreSlaves ==
  ASSUME NEW addr \in Addresses, reach \in 0 .. OnBus
  PROVE  TakesConfigured(addr) \in SUBSET Positions
BY DEF TakesConfigured, Positions

\* Every datagram, and everything that happens to the slaves between datagrams,
\* keeps the invariant.
LEMMA StepInv == Inv /\ [Next]_vars => Inv'
<1> SUFFICES ASSUME Inv, [Next]_vars PROVE Inv'
  OBVIOUS
<1> USE DEF Inv
<1>1. ASSUME Throws, reach' = reach PROVE Inv'
  BY <1>1 DEF Throws, TypeOK, OrderInv, AddressInv
<1>2. CASE NumSlaves
  <2>1. CASE reach < Managed
    BY <1>1, <1>2, <2>1 DEF NumSlaves
  <2>2. CASE ~(reach < Managed)
    BY <1>2, <2>2 DEF NumSlaves, TypeOK, OrderInv, AddressInv, Given
  <2>3. QED
    BY <2>1, <2>2
<1>3. CASE Identify
  <2>1. CASE TakesPositional(index) = {}
    BY <1>1, <1>3, <2>1 DEF Identify
  <2>2. CASE TakesPositional(index) # {}
    BY <1>3, <2>2 DEF Identify, TypeOK, OrderInv, AddressInv, Given
  <2>3. QED
    BY <2>1, <2>2
<1>4. CASE SetAddress
  <2>1. CASE TakesPositional(index) = {}
    BY <1>1, <1>4, <2>1 DEF SetAddress
  <2>2. CASE TakesPositional(index) # {}
    <3>1. index \in Positions /\ index \in Indices /\ TakesPositional(index) = {index}
      <4>1. index \in Positions /\ reach \in 0 .. OnBus
        BY DEF TypeOK, Indices, Positions
      <4>2. QED
        BY <2>2, <4>1, PositionIsUnique DEF TypeOK
    <3>2. newSlaveAddr = Base + index
      BY <1>4 DEF SetAddress, OrderInv
    <3>3. /\ pc = "address" /\ pc' = "verify"
          /\ slaveAddr' = [slaveAddr EXCEPT ![index] = Base + index]
          /\ station' = [p \in Positions |-> IF p = index THEN Base + index ELSE station[p]]
          /\ newSlaveAddr' = Base + index + 1
          /\ UNCHANGED <<index, touched, reach>>
      BY <1>4, <2>2, <3>1, <3>2 DEF SetAddress, NextAddress
    <3>4. TypeOK'
      BY <3>1, <3>3 DEF TypeOK, Indices, Addresses, Positions
    <3>5. OrderInv'
      BY <3>1, <3>3 DEF OrderInv, Given, TypeOK, Indices
    <3>6. AddressInv'
      BY <3>1, <3>3 DEF AddressInv, Given, TypeOK, Indices, Positions
    <3>7. QED
      BY <3>4, <3>5, <3>6
  <2>3. QED
    BY <2>1, <2>2
<1>5. CASE Verify
  <2>1. CASE TakesConfigured(slaveAddr[index]) = {}
    BY <1>1, <1>5, <2>1 DEF Verify
  <2>2. CASE TakesConfigured(slaveAddr[index]) # {} /\ index + 1 < Managed
    <3>1. /\ pc = "verify" /\ pc' = "identify" /\ index' = index + 1
          /\ index \in Indices /\ index + 1 \in Indices
          /\ UNCHANGED <<newSlaveAddr, slaveAddr, station, touched, reach>>
      BY <1>5, <2>2 DEF Verify, TypeOK, Indices
    <3>2. \A i \in Indices : Given(i)' <=> Given(i)
      BY <3>1 DEF Given, Indices
    <3>3. TypeOK'
      BY <3>1 DEF TypeOK
    <3>4. OrderInv'
      <4>1. newSlaveAddr' = Base + (index + 1)
        BY <3>1 DEF OrderInv, Indices
      <4>2. \A i \in Indices : slaveAddr'[i] = IF Given(i)' THEN Base + i ELSE NoAddress
        BY <3>1, <3>2 DEF OrderInv
      <4>3. QED
        BY <3>1, <4>1, <4>2 DEF OrderInv
    <3>5. AddressInv'
      BY <3>1, <3>2 DEF AddressInv
    <3>6. QED
      BY <3>3, <3>4, <3>5
  <2>3. CASE TakesConfigured(slaveAddr[index]) # {} /\ ~(index + 1 < Managed)
    BY <1>5, <2>3 DEF Verify, TypeOK, OrderInv, AddressInv, Given, Indices
  <2>4. QED
    BY <2>1, <2>2, <2>3
<1>6. ASSUME NEW i \in Indices, Access(i) PROVE Inv'
  <2>1. CASE TakesConfigured(slaveAddr[i]) = {}
    BY <1>1, <1>6, <2>1 DEF Access
  <2>2. CASE TakesConfigured(slaveAddr[i]) # {}
    <3>1. TakesConfigured(slaveAddr[i]) \in SUBSET Positions
      BY TakersAreSlaves DEF TypeOK
    <3>2. QED
      BY <1>6, <2>2, <3>1 DEF Access, TypeOK, OrderInv, AddressInv, Given
  <2>3. QED
    BY <2>1, <2>2
<1>7. CASE CableChanges
  BY <1>7 DEF CableChanges, TypeOK, OrderInv, AddressInv, Given
<1>8. ASSUME NEW p \in Positions, PowerCycle(p) PROVE Inv'
  BY <1>8 DEF PowerCycle, TypeOK, OrderInv, AddressInv, Given, Addresses, NoAddress, Indices, Positions
<1>9. CASE Restart
  <2>1. /\ pc' = "count" /\ index' = 0 /\ newSlaveAddr' = Base
        /\ slaveAddr' = [i \in Indices |-> NoAddress]
        /\ touched' = Untouched /\ reach' = reach
    BY <1>9 DEF Restart
  <2>2. station' \in [Positions -> Addresses]
    <3>1. PICK p, q \in Positions :
            station' = [station EXCEPT ![p] = station[q], ![q] = station[p]]
      BY <1>9 DEF Restart
    <3>2. QED
      BY <3>1 DEF TypeOK
  <2>3. \A i \in Indices : ~Given(i)'
    BY <2>1 DEF Given, Indices
  <2>4. TypeOK'
    <3>1. 0 \in Indices /\ Base \in Base .. Base + Managed
      BY DEF Indices
    <3>2. slaveAddr' \in [Indices -> Addresses]
      BY <2>1 DEF Addresses, NoAddress
    <3>3. touched' \in [object : Indices \cup {-1}, slaves : SUBSET Positions]
      BY <2>1 DEF Untouched
    <3>4. QED
      BY <2>1, <2>2, <3>1, <3>2, <3>3 DEF TypeOK
  <2>5. OrderInv' /\ AddressInv'
    BY <2>1, <2>3 DEF OrderInv, AddressInv
  <2>6. QED
    BY <2>4, <2>5
<1>10. CASE UNCHANGED vars
  BY <1>10 DEF vars, TypeOK, OrderInv, AddressInv, Given
<1>11. QED
  BY <1>2, <1>3, <1>4, <1>5, <1>6, <1>7, <1>8, <1>9, <1>10 DEF Next

--------------------------------------------------------------------------------
\* The renumbering is in order and on the bus, in every reachable state.
THEOREM Inductive == Spec => []Inv
  BY InitInv, StepInv, PTL DEF Spec

\* Every variable keeps its type; the static address never leaves its range.
THEOREM TypeCorrect == Spec => []TypeOK
<1>1. Inv => TypeOK
  BY DEF Inv
<1>2. QED
  BY Inductive, <1>1, PTL

\* Two objects never have the same station address.
THEOREM AddressesDiffer == Spec => []ObjectsDoNotShareAddresses
<1>1. Inv => ObjectsDoNotShareAddresses
  BY DEF Inv, AddressInv, ObjectsDoNotShareAddresses, Indices, NoAddress
<1>2. QED
  BY Inductive, <1>1, PTL

\* With every slave of the bus managed, an access that returns was taken by the
\* slave of its object and by no other.
THEOREM OwnSlave == Managed = OnBus => (Spec => []AccessReachesOwnSlave)
<1> SUFFICES ASSUME Managed = OnBus PROVE Spec => []AccessReachesOwnSlave
  OBVIOUS
<1>1. Init => AccessReachesOwnSlave
  BY DEF Init, AccessReachesOwnSlave, Untouched
<1>2. Inv /\ AccessReachesOwnSlave /\ [Next]_vars => AccessReachesOwnSlave'
  <2> SUFFICES ASSUME Inv, AccessReachesOwnSlave, [Next]_vars PROVE AccessReachesOwnSlave'
    OBVIOUS
  <2>1. ASSUME NEW i \in Indices, Access(i) PROVE AccessReachesOwnSlave'
    <3>1. CASE TakesConfigured(slaveAddr[i]) = {}
      BY <2>1, <3>1 DEF Access, Throws, AccessReachesOwnSlave
    <3>2. CASE TakesConfigured(slaveAddr[i]) # {}
      <4>1. pc = "ready" /\ touched' = [object |-> i, slaves |-> TakesConfigured(slaveAddr[i])]
        BY <2>1, <3>2 DEF Access
      <4>2. slaveAddr[i] = Base + i
        BY <4>1 DEF Inv, OrderInv, Given
      <4>3. \A p \in 0 .. reach - 1 : station[p] = Base + i => p = i
        BY <4>1 DEF Inv, AddressInv, TypeOK, Given, Indices, NoAddress
      <4>4. TakesConfigured(slaveAddr[i]) = {i}
        BY <3>2, <4>2, <4>3 DEF TakesConfigured
      <4>5. QED
        BY <4>1, <4>4 DEF AccessReachesOwnSlave
    <3>3. QED
      BY <3>1, <3>2
  <2>2. CASE NumSlaves \/ Identify \/ SetAddress \/ Verify \/ CableChanges
             \/ (\E p \in Positions : PowerCycle(p)) \/ UNCHANGED vars
    BY <2>2 DEF NumSlaves, Identify, SetAddress, Verify, CableChanges, PowerCycle, Throws,
       vars, AccessReachesOwnSlave
  <2>3. CASE Restart
    BY <2>3 DEF Restart, Untouched, AccessReachesOwnSlave
  <2>4. QED
    BY <2>1, <2>2, <2>3 DEF Next
<1>3. QED
  BY Inductive, <1>1, <1>2, PTL DEF Spec
================================================================================
