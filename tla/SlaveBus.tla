-------------------------------- MODULE SlaveBus -------------------------------
(***************************************************************************)
(* How EtherCAT::Slave finds its slave: NumSlaves counts the slaves with a  *)
(* broadcast, the constructor reads the slave at a position of the ring and *)
(* gives it a station address, and every later access names that address.   *)
(*                                                                         *)
(* The slaves keep their address when the process ends, until they lose     *)
(* power; between processes they may be plugged in another order.  A break  *)
(* in the cable cuts off the slaves behind it, from which no answer comes:  *)
(* the working counter is zero and the access throws, which ends the        *)
(* process.  Each datagram is a step, and it passes the slaves in order.    *)
(***************************************************************************)
EXTENDS Integers, FiniteSets

CONSTANTS
  OnBus,     \* how many slaves are plugged in
  Managed,   \* FLEXPICKER_SLAVES
  Base,      \* SLAVEADDR_BASE
  Width      \* bound: the values of the 16-bit address field

ASSUME BusAssumption ==
  /\ OnBus \in Nat \ {0} /\ Managed \in 1 .. OnBus
  /\ Base \in Nat \ {0} /\ Width \in Nat /\ Width >= Base + Managed /\ Width >= OnBus

Positions == 0 .. OnBus - 1
Indices   == 0 .. Managed - 1
NoAddress == 0      \* the register after power-on
Addresses == 0 .. Base + Managed - 1

VARIABLES
  pc,            \* where the Master's constructor is
  index,         \* the slave under construction
  newSlaveAddr,  \* the static member of Slave
  slaveAddr,     \* the address of each Slave object
  station,       \* the station address register of each slave
  reach,         \* how many slaves are in front of the first break
  touched        \* the object that made the last access, the slaves that took it

vars == <<pc, index, newSlaveAddr, slaveAddr, station, reach, touched>>

Untouched == [object |-> -1, slaves |-> {}]

\* The slaves still have the addresses of an earlier process, in any order.
Init ==
  /\ pc = "count" /\ index = 0
  /\ newSlaveAddr = Base
  /\ slaveAddr = [i \in Indices |-> NoAddress]
  /\ station \in [Positions -> Addresses]
  /\ reach = OnBus
  /\ touched = Untouched

--------------------------------------------------------------------------------
(* Faulty variants, for mutation analysis.                                     *)

\* The constructor does not write the address, it trusts the one it reads back.
SetAddressUnwritten ==
  /\ pc = "address"
  /\ slaveAddr' = [slaveAddr EXCEPT ![index] = newSlaveAddr]
  /\ newSlaveAddr' = newSlaveAddr + 1
  /\ pc' = "verify"
  /\ UNCHANGED <<index, station, reach, touched>>

\* The next address is taken after the verification, and not at all if it throws.
NextAddressKept(a) == a

--------------------------------------------------------------------------------
(* The datagrams.                                                              *)

\* DatagramAPRD and APWR: the address field starts at minus the position.
AutoIncrementStart(position) == (-position) % Width

\* Each slave adds one to the field; the one that found zero takes the access.
TakesPositional(position) ==
  {p \in 0 .. reach - 1 : (AutoIncrementStart(position) + p) % Width = 0}

\* DatagramFPRD and FPWR: every slave with that address takes the access.
TakesConfigured(addr) == {p \in 0 .. reach - 1 : station[p] = addr}

NextAddress(a) == a + 1

\* out_of_range or SlaveException, which nothing catches.
Throws == pc' = "dead" /\ UNCHANGED <<index, newSlaveAddr, slaveAddr, station, touched>>

--------------------------------------------------------------------------------
(* The constructors of Master and Slave.                                       *)

\* "There are less slaves than expected..."
NumSlaves ==
  /\ pc = "count"
  /\ IF reach < Managed
     THEN Throws
     ELSE pc' = "identify" /\ UNCHANGED <<index, newSlaveAddr, slaveAddr, station, touched>>
  /\ UNCHANGED reach

\* The type, the revision and so on, by position.
Identify ==
  /\ pc = "identify"
  /\ IF TakesPositional(index) = {}
     THEN Throws
     ELSE pc' = "address" /\ UNCHANGED <<index, newSlaveAddr, slaveAddr, station, touched>>
  /\ UNCHANGED reach

SetAddress ==
  /\ pc = "address"
  /\ IF TakesPositional(index) = {}
     THEN Throws
     ELSE /\ station' = [p \in Positions |->
                           IF p \in TakesPositional(index) THEN newSlaveAddr ELSE station[p]]
          /\ slaveAddr' = [slaveAddr EXCEPT ![index] = newSlaveAddr]
          /\ newSlaveAddr' = NextAddress(newSlaveAddr)
          /\ pc' = "verify"
          /\ UNCHANGED <<index, touched>>
  /\ UNCHANGED reach

\* "Setting station address failed."
Verify ==
  /\ pc = "verify"
  /\ IF TakesConfigured(slaveAddr[index]) = {}
     THEN Throws
     ELSE /\ IF index + 1 < Managed
             THEN pc' = "identify" /\ index' = index + 1
             ELSE pc' = "ready" /\ UNCHANGED index
          /\ UNCHANGED <<newSlaveAddr, slaveAddr, station, touched>>
  /\ UNCHANGED reach

\* ReadByte to WriteWord, ReadData and WriteData, once the Master is built.
Access(i) ==
  /\ pc = "ready"
  /\ IF TakesConfigured(slaveAddr[i]) = {}
     THEN Throws
     ELSE /\ touched' = [object |-> i, slaves |-> TakesConfigured(slaveAddr[i])]
          /\ UNCHANGED <<pc, index, newSlaveAddr, slaveAddr, station>>
  /\ UNCHANGED reach

--------------------------------------------------------------------------------
(* The world.                                                                  *)

CableChanges ==
  /\ reach' \in 0 .. OnBus
  /\ reach' # reach
  /\ UNCHANGED <<pc, index, newSlaveAddr, slaveAddr, station, touched>>

PowerCycle(p) ==
  /\ station[p] # NoAddress
  /\ station' = [station EXCEPT ![p] = NoAddress]
  /\ UNCHANGED <<pc, index, newSlaveAddr, slaveAddr, reach, touched>>

\* The process dies at any time and is started again; two slaves may have been
\* exchanged meanwhile.
Restart ==
  /\ pc' = "count" /\ index' = 0
  /\ newSlaveAddr' = Base
  /\ slaveAddr' = [i \in Indices |-> NoAddress]
  /\ touched' = Untouched
  /\ \E p, q \in Positions :
       station' = [station EXCEPT ![p] = station[q], ![q] = station[p]]
  /\ UNCHANGED reach

Next ==
  \/ NumSlaves \/ Identify \/ SetAddress \/ Verify \/ (\E i \in Indices : Access(i))
  \/ CableChanges \/ (\E p \in Positions : PowerCycle(p)) \/ Restart

Spec == Init /\ [][Next]_vars

--------------------------------------------------------------------------------
(* Properties.                                                                 *)

TypeOK ==
  /\ pc \in {"count", "identify", "address", "verify", "ready", "dead"}
  /\ index \in Indices
  /\ newSlaveAddr \in Base .. Base + Managed
  /\ slaveAddr \in [Indices -> Addresses]
  /\ station \in [Positions -> Addresses]
  /\ reach \in 0 .. OnBus
  /\ touched \in [object : Indices \cup {-1}, slaves : SUBSET Positions]

\* An access that returns was taken by the slave the object was made for and by no
\* other, whatever addresses earlier processes left on the slaves and whatever
\* happens to the cable and to their power.
AccessReachesOwnSlave ==
  touched.object # -1 => touched.slaves = {touched.object}

\* While the slaves are renumbered one after the other, those already done keep
\* their address to themselves among the done ones: two objects never share one.
ObjectsDoNotShareAddresses ==
  \A i, j \in Indices :
    i # j /\ slaveAddr[i] # NoAddress => slaveAddr[i] # slaveAddr[j]
================================================================================
