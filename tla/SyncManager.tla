------------------------------ MODULE SyncManager ------------------------------
(***************************************************************************)
(* EtherCAT::SyncManager, its configuration half: one SyncManager of a      *)
(* slave, the registers it stands for and the copy of them the object       *)
(* keeps.  A register access that no slave answers throws and has no        *)
(* effect: each operation has that outcome too.  The registers outlive the  *)
(* process.  Nothing but this object touches them, so the read-modify-write *)
(* of a control byte is one step.  An operation that throws before its      *)
(* first access, or returns at once, changes nothing and is no action.      *)
(***************************************************************************)
EXTENDS Naturals

CONSTANTS Addresses, Lengths   \* the values asked for

VARIABLES
  smReg,   \* the SyncManager's registers in the slave
  sm,      \* the members of the object that copy them
  built,   \* is there an object?
  smKnown, \* has every write of StartAddr and Length been answered?
  smOwn    \* did this object activate the SyncManager?

smVars == <<smReg, sm, smKnown, smOwn>>

OpModes    == {"Buffered", "Mailbox"}
Directions == {"Read", "Write"}
Users      == {"ECAT", "PDI"}

\* startAddr, length; the bits of CONTROL and of ACTIVATE.
Registers ==
  [startAddr : Addresses, length : Lengths, opmode : OpModes, direction : Directions,
   intr : SUBSET Users, latch : SUBSET Users, enabled : BOOLEAN]

\* An earlier process may have left anything the constructor accepts.
Init ==
  /\ smReg \in Registers
  /\ sm = smReg
  /\ built = FALSE /\ smKnown = TRUE /\ smOwn = FALSE

--------------------------------------------------------------------------------
(* Faulty variants, for mutation analysis.                                     *)

\* The copy is set before the register is written, as StartAddr and Length do.
OperationModeEarly(newMode) ==
  /\ built /\ ~sm.enabled
  /\ sm' = [sm EXCEPT !.opmode = newMode]
  /\ smReg' \in {smReg, [smReg EXCEPT !.opmode = newMode]}
  /\ UNCHANGED <<built, smKnown, smOwn>>

\* The constructor does not read the ACTIVATE register.
ConstructInactive ==
  /\ ~built
  /\ sm' = [smReg EXCEPT !.enabled = FALSE]
  /\ built' = TRUE /\ smKnown' = TRUE /\ smOwn' = FALSE
  /\ UNCHANGED smReg

--------------------------------------------------------------------------------
\* The constructor copies the registers; when an access throws there is no object.
Construct ==
  /\ ~built
  /\ sm' = smReg
  /\ built' = TRUE /\ smKnown' = TRUE /\ smOwn' = FALSE
  /\ UNCHANGED smReg

\* The process ends, or dies of an exception.
ProcessEnds ==
  /\ built
  /\ built' = FALSE
  /\ UNCHANGED smVars

\* StartAddr and Length set the copy first: it stays when the write throws.
StartAddr(addr) ==
  /\ built /\ ~sm.enabled
  /\ sm' = [sm EXCEPT !.startAddr = addr]
  /\ \/ smReg' = [smReg EXCEPT !.startAddr = addr] /\ UNCHANGED smKnown
     \/ smKnown' = FALSE /\ UNCHANGED smReg
  /\ UNCHANGED <<built, smOwn>>

Length(length) ==
  /\ built /\ ~sm.enabled
  /\ sm' = [sm EXCEPT !.length = length]
  /\ \/ smReg' = [smReg EXCEPT !.length = length] /\ UNCHANGED smKnown
     \/ smKnown' = FALSE /\ UNCHANGED smReg
  /\ UNCHANGED <<built, smOwn>>

\* The others write the register first, and throw before the copy is set.
OperationMode(newMode) ==
  /\ built /\ ~sm.enabled
  /\ smReg' = [smReg EXCEPT !.opmode = newMode]
  /\ sm' = [sm EXCEPT !.opmode = newMode]
  /\ UNCHANGED <<built, smKnown, smOwn>>

TransferDirection(dir) ==
  /\ built /\ ~sm.enabled
  /\ smReg' = [smReg EXCEPT !.direction = dir]
  /\ sm' = [sm EXCEPT !.direction = dir]
  /\ UNCHANGED <<built, smKnown, smOwn>>

\* ECATInterrupt and PDIInterrupt.
Interrupt(user, on) ==
  /\ built /\ ~sm.enabled
  /\ LET intr == (smReg.intr \ {user}) \cup (IF on THEN {user} ELSE {})
     IN smReg' = [smReg EXCEPT !.intr = intr]
  /\ sm' = [sm EXCEPT !.intr = IF on THEN @ \cup {user} ELSE @ \ {user}]
  /\ UNCHANGED <<built, smKnown, smOwn>>

\* ECATLatch and PDILatch.
Latch(user, on) ==
  /\ built /\ ~sm.enabled
  /\ LET latch == (smReg.latch \ {user}) \cup (IF on THEN {user} ELSE {})
     IN smReg' = [smReg EXCEPT !.latch = latch]
  /\ sm' = [sm EXCEPT !.latch = IF on THEN @ \cup {user} ELSE @ \ {user}]
  /\ UNCHANGED <<built, smKnown, smOwn>>

\* Enable ends with enabled = false.
Enable ==
  /\ built /\ ~sm.enabled
  /\ smReg' = [smReg EXCEPT !.enabled = TRUE]
  /\ sm' = [sm EXCEPT !.enabled = FALSE]
  /\ smOwn' = TRUE
  /\ UNCHANGED <<built, smKnown>>

Disable ==
  /\ built /\ sm.enabled
  /\ smReg' = [smReg EXCEPT !.enabled = FALSE]
  /\ sm' = [sm EXCEPT !.enabled = FALSE]
  /\ UNCHANGED <<built, smKnown, smOwn>>

Configure ==
  \/ (\E addr \in Addresses : StartAddr(addr))
  \/ (\E length \in Lengths : Length(length))
  \/ (\E newMode \in OpModes : OperationMode(newMode))
  \/ (\E dir \in Directions : TransferDirection(dir))
  \/ (\E user \in Users, on \in BOOLEAN : Interrupt(user, on) \/ Latch(user, on))

Operation == Configure \/ Enable \/ Disable

Next == Construct \/ ProcessEnds \/ Operation

Spec == Init /\ [][Next]_<<built, smVars>>

--------------------------------------------------------------------------------
(* Properties.                                                                 *)

TypeOK ==
  /\ smReg \in Registers /\ sm \in Registers
  /\ built \in BOOLEAN /\ smKnown \in BOOLEAN /\ smOwn \in BOOLEAN

\* The mode and the direction the mailbox operations decide on, and the flags,
\* are the register's, also after accesses that threw; so are the start address
\* and the length once no write of them was lost.
CopyFollowsRegisters ==
  built =>
    /\ sm.opmode = smReg.opmode /\ sm.direction = smReg.direction
    /\ sm.intr = smReg.intr /\ sm.latch = smReg.latch
    /\ smKnown => sm.startAddr = smReg.startAddr /\ sm.length = smReg.length

\* A SyncManager an earlier process left active is not reconfigured under the
\* slave: the object refuses until Disable has reached the register.
FoundActiveIsRefused ==
  built /\ smReg.enabled /\ ~smOwn => sm.enabled

\* "Tried to change StartAddr when SyncManager enabled": the object of an active
\* SyncManager refuses changes.
ActiveIsRefused ==
  built /\ smReg.enabled => sm.enabled
================================================================================
