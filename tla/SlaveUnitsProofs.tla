---------------------------- MODULE SlaveUnitsProofs ---------------------------
(***************************************************************************)
(* Proofs about a SyncManager and an FMMU of a slave, for any addresses,    *)
(* lengths and values: what the objects know of the registers.              *)
(***************************************************************************)
EXTENDS SlaveUnits, TLAPS

\* TypeOK of SlaveUnits with what the objects know of the registers: each
\* conjunct is inductive only beside the type of the records.
Knowledge ==
  /\ SM!TypeOK /\ FM!TypeOK
  /\ CopyIsTrue /\ CopyFollowsRegisters /\ FoundActiveIsRefused

\* The objects know nothing before they are built.
LEMMA InitKnows == Init => Knowledge
BY DEF Init, Knowledge, SM!Init, FM!Init, SM!TypeOK, FM!TypeOK, CopyIsTrue, FM!CopyIsTrue,
   CopyFollowsRegisters, SM!CopyFollowsRegisters, FoundActiveIsRefused, SM!FoundActiveIsRefused

\* No operation on the FMMU separates the copy from the registers, and none
\* changes the registers of an FMMU that stays active.
LEMMA FMMUStep ==
  ASSUME FM!TypeOK, FM!CopyIsTrue, FM!Operation
  PROVE  /\ FM!TypeOK' /\ FM!CopyIsTrue'
         /\ fmmuReg.enabled /\ fmmuReg'.enabled => fmmuReg' = fmmuReg
<1> USE DEF FM!TypeOK, FM!CopyIsTrue, FM!Registers
<1>1. ASSUME NEW field \in Fields, NEW value \in Values, FM!SetField(field, value)
      PROVE  /\ FM!TypeOK' /\ FM!CopyIsTrue'
             /\ fmmuReg.enabled /\ fmmuReg'.enabled => fmmuReg' = fmmuReg
  BY <1>1 DEF FM!SetField
<1>2. ASSUME NEW active \in BOOLEAN, FM!ReadActive(active) \/ FM!WriteActive(active)
      PROVE  /\ FM!TypeOK' /\ FM!CopyIsTrue'
             /\ fmmuReg.enabled /\ fmmuReg'.enabled => fmmuReg' = fmmuReg
  BY <1>2 DEF FM!ReadActive, FM!WriteActive
<1>3. CASE FM!Enable \/ FM!Disable
  BY <1>3 DEF FM!Enable, FM!Disable
<1>4. QED
  BY <1>1, <1>2, <1>3 DEF FM!Operation

\* No operation on the SyncManager separates mode, direction and flags from the
\* registers, nor makes an object forget that it was found active.
LEMMA SyncManagerStep ==
  ASSUME SM!TypeOK, SM!CopyFollowsRegisters, SM!FoundActiveIsRefused, SM!Operation
  PROVE  SM!TypeOK' /\ SM!CopyFollowsRegisters' /\ SM!FoundActiveIsRefused'
<1> USE DEF SM!TypeOK, SM!CopyFollowsRegisters, SM!FoundActiveIsRefused, SM!Registers,
            SM!OpModes, SM!Directions
<1> DEFINE Kept == SM!TypeOK' /\ SM!CopyFollowsRegisters' /\ SM!FoundActiveIsRefused'
<1>1. ASSUME NEW addr \in Addresses, SM!StartAddr(addr)
      PROVE  Kept
  <2>1. CASE smReg' = [smReg EXCEPT !.startAddr = addr] /\ UNCHANGED smKnown
    <3>1. smReg' \in SM!Registers /\ sm' \in SM!Registers
      BY <1>1, <2>1 DEF SM!StartAddr
    <3>2. sm'.startAddr = smReg'.startAddr
      BY <1>1, <2>1 DEF SM!StartAddr
    <3>3. QED
      BY <1>1, <2>1, <3>1, <3>2 DEF SM!StartAddr
  <2>2. CASE smKnown' = FALSE /\ UNCHANGED smReg
    BY <1>1, <2>2 DEF SM!StartAddr
  <2>3. QED
    BY <1>1, <2>1, <2>2 DEF SM!StartAddr
<1>2. ASSUME NEW length \in Lengths, SM!Length(length)
      PROVE  Kept
  <2>1. CASE smReg' = [smReg EXCEPT !.length = length] /\ UNCHANGED smKnown
    <3>1. smReg' \in SM!Registers /\ sm' \in SM!Registers
      BY <1>2, <2>1 DEF SM!Length
    <3>2. sm'.length = smReg'.length
      BY <1>2, <2>1 DEF SM!Length
    <3>3. QED
      BY <1>2, <2>1, <3>1, <3>2 DEF SM!Length
  <2>2. CASE smKnown' = FALSE /\ UNCHANGED smReg
    BY <1>2, <2>2 DEF SM!Length
  <2>3. QED
    BY <1>2, <2>1, <2>2 DEF SM!Length
<1>3. ASSUME NEW newMode \in SM!OpModes, SM!OperationMode(newMode)
      PROVE  Kept
  BY <1>3 DEF SM!OperationMode
<1>4. ASSUME NEW dir \in SM!Directions, SM!TransferDirection(dir)
      PROVE  Kept
  BY <1>4 DEF SM!TransferDirection
<1>5. ASSUME NEW user \in SM!Users, NEW on \in BOOLEAN, SM!Interrupt(user, on)
      PROVE  Kept
  BY <1>5 DEF SM!Interrupt
<1>6. ASSUME NEW user \in SM!Users, NEW on \in BOOLEAN, SM!Latch(user, on)
      PROVE  Kept
  BY <1>6 DEF SM!Latch
<1>7. CASE SM!Enable
  BY <1>7 DEF SM!Enable
<1>8. CASE SM!Disable
  BY <1>8 DEF SM!Disable
<1>9. QED
  BY <1>1, <1>2, <1>3, <1>4, <1>5, <1>6, <1>7, <1>8 DEF SM!Operation, SM!Configure

\* Building the objects, ending the process and every operation keep what the
\* objects know, and an FMMU that stays active keeps its registers.
LEMMA StepKnows ==
  ASSUME Knowledge, [Next]_vars
  PROVE  /\ Knowledge'
         /\ fmmuReg.enabled /\ fmmuReg'.enabled => fmmuReg' = fmmuReg
<1> USE DEF Knowledge, CopyIsTrue, CopyFollowsRegisters, FoundActiveIsRefused
<1> DEFINE SMKept == SM!TypeOK' /\ SM!CopyFollowsRegisters' /\ SM!FoundActiveIsRefused'
           FMKept == FM!TypeOK' /\ FM!CopyIsTrue'
           Fixed == fmmuReg.enabled /\ fmmuReg'.enabled => fmmuReg' = fmmuReg
<1>1. CASE InitUnits
  BY <1>1 DEF InitUnits, SM!Construct, FM!Construct, SM!TypeOK, FM!TypeOK, FM!CopyIsTrue,
     SM!CopyFollowsRegisters, SM!FoundActiveIsRefused
<1>2. CASE ProcessEnds
  BY <1>2 DEF ProcessEnds, SM!ProcessEnds, FM!ProcessEnds, SM!smVars, FM!fmmuVars,
     SM!TypeOK, FM!TypeOK, FM!CopyIsTrue, SM!CopyFollowsRegisters, SM!FoundActiveIsRefused
<1>3. CASE SM!Operation /\ UNCHANGED fmmuVars
  <2>1. SMKept
    BY <1>3, SyncManagerStep
  <2>2. built' = built
    BY <1>3 DEF SM!Operation, SM!Configure, SM!StartAddr, SM!Length, SM!OperationMode,
       SM!TransferDirection, SM!Interrupt, SM!Latch, SM!Enable, SM!Disable
  <2>3. FMKept /\ Fixed
    BY <1>3, <2>2 DEF fmmuVars, FM!TypeOK, FM!CopyIsTrue
  <2>4. QED
    BY <2>1, <2>3
<1>4. CASE FM!Operation /\ UNCHANGED smVars
  <2>1. FMKept /\ Fixed
    BY <1>4, FMMUStep
  <2>2. built' = built
    BY <1>4 DEF FM!Operation, FM!SetField, FM!ReadActive, FM!WriteActive, FM!Enable, FM!Disable
  <2>3. SMKept
    BY <1>4, <2>2 DEF smVars, SM!TypeOK, SM!CopyFollowsRegisters, SM!FoundActiveIsRefused
  <2>4. QED
    BY <2>1, <2>3
<1>5. CASE UNCHANGED vars
  BY <1>5 DEF vars, smVars, fmmuVars, SM!TypeOK, FM!TypeOK, FM!CopyIsTrue,
     SM!CopyFollowsRegisters, SM!FoundActiveIsRefused
<1>6. QED
  BY <1>1, <1>2, <1>3, <1>4, <1>5 DEF Next, Configure

--------------------------------------------------------------------------------
\* What the objects know holds in every reachable state.
THEOREM Inductive == Spec => []Knowledge
<1>1. Knowledge /\ [Next]_vars => Knowledge'
  BY StepKnows
<1>2. QED
  BY InitKnows, <1>1, PTL DEF Spec

\* Registers and copies keep their types.
THEOREM TypeCorrect == Spec => []TypeOK
<1>1. Knowledge => TypeOK
  BY DEF Knowledge, TypeOK
<1>2. QED
  BY Inductive, <1>1, PTL

\* An FMMU object is never wrong about its FMMU.
THEOREM CopyTrue == Spec => []CopyIsTrue
<1>1. Knowledge => CopyIsTrue
  BY DEF Knowledge
<1>2. QED
  BY Inductive, <1>1, PTL

\* A SyncManager object is never wrong about mode, direction and flags, and about
\* start address and length only after a write that no slave answered.
THEOREM CopyFollows == Spec => []CopyFollowsRegisters
<1>1. Knowledge => CopyFollowsRegisters
  BY DEF Knowledge
<1>2. QED
  BY Inductive, <1>1, PTL

\* A SyncManager found active is refused until it was disabled.
THEOREM FoundActive == Spec => []FoundActiveIsRefused
<1>1. Knowledge => FoundActiveIsRefused
  BY DEF Knowledge
<1>2. QED
  BY Inductive, <1>1, PTL

\* The mapping of an FMMU that stays active does not change, because the enable
\* bit every setter is guarded with is the register's.
THEOREM MappingFixed == Spec => ActiveMappingIsFixed
<1> DEFINE Fixed == fmmuReg.enabled /\ fmmuReg'.enabled => fmmuReg' = fmmuReg
<1>1. Knowledge /\ [Next]_vars => [Fixed]_<<built, FM!fmmuVars>>
  BY StepKnows
<1>2. Spec => [][Fixed]_<<built, FM!fmmuVars>>
  BY Inductive, <1>1, PTL DEF Spec
<1>3. QED
  BY <1>2 DEF ActiveMappingIsFixed, FM!ActiveMappingIsFixed
================================================================================
