---------------------------------- MODULE FMMU ---------------------------------
(***************************************************************************)
(* EtherCAT::FMMU: one FMMU of a slave, its registers and the copy of them  *)
(* the object keeps.  As in SyncManager.tla an access that no slave answers *)
(* throws, here always before anything changed, and the registers outlive   *)
(* the process.                                                            *)
(***************************************************************************)
EXTENDS Naturals

CONSTANTS
  Fields,  \* the registers that describe the mapping: LogicalStart, Length,
           \* LogicalStartBit, LogicalStopBit, PhysicalStart, PhysicalStartBit
  Values   \* what is written to them

VARIABLES
  fmmuReg,  \* the FMMU's registers in the slave
  fmmu,     \* the members of the object that copy them
  built     \* is there an object?

fmmuVars == <<fmmuReg, fmmu>>

Registers ==
  [map : [Fields -> Values], readActive : BOOLEAN, writeActive : BOOLEAN, enabled : BOOLEAN]

Init ==
  /\ fmmuReg \in Registers
  /\ fmmu = fmmuReg
  /\ built = FALSE

--------------------------------------------------------------------------------
(* Faulty variants, for mutation analysis.                                     *)

\* Enable forgets that the FMMU is active, as SyncManager::Enable does.
EnableForgets ==
  /\ built /\ ~fmmu.enabled
  /\ fmmuReg' = [fmmuReg EXCEPT !.enabled = TRUE]
  /\ UNCHANGED <<built, fmmu>>

\* ReadActive writes the whole type register.
ReadActiveOnly(active) ==
  /\ built /\ ~fmmu.enabled
  /\ fmmuReg' = [fmmuReg EXCEPT !.readActive = active, !.writeActive = FALSE]
  /\ fmmu' = [fmmu EXCEPT !.readActive = active]
  /\ UNCHANGED built

--------------------------------------------------------------------------------
Construct ==
  /\ ~built
  /\ fmmu' = fmmuReg
  /\ built' = TRUE
  /\ UNCHANGED fmmuReg

ProcessEnds ==
  /\ built
  /\ built' = FALSE
  /\ UNCHANGED fmmuVars

\* The six setters of the mapping: the register, then the copy.
SetField(field, value) ==
  /\ built /\ ~fmmu.enabled
  /\ fmmuReg' = [fmmuReg EXCEPT !.map[field] = value]
  /\ fmmu' = [fmmu EXCEPT !.map[field] = value]
  /\ UNCHANGED built

\* A read-modify-write of the type register.
ReadActive(active) ==
  /\ built /\ ~fmmu.enabled
  /\ fmmuReg' = [fmmuReg EXCEPT !.readActive = active]
  /\ fmmu' = [fmmu EXCEPT !.readActive = active]
  /\ UNCHANGED built

WriteActive(active) ==
  /\ built /\ ~fmmu.enabled
  /\ fmmuReg' = [fmmuReg EXCEPT !.writeActive = active]
  /\ fmmu' = [fmmu EXCEPT !.writeActive = active]
  /\ UNCHANGED built

Enable ==
  /\ built /\ ~fmmu.enabled
  /\ fmmuReg' = [fmmuReg EXCEPT !.enabled = TRUE]
  /\ fmmu' = [fmmu EXCEPT !.enabled = TRUE]
  /\ UNCHANGED built

Disable ==
  /\ built /\ fmmu.enabled
  /\ fmmuReg' = [fmmuReg EXCEPT !.enabled = FALSE]
  /\ fmmu' = [fmmu EXCEPT !.enabled = FALSE]
  /\ UNCHANGED built

Operation ==
  \/ (\E field \in Fields, value \in Values : SetField(field, value))
  \/ (\E active \in BOOLEAN : ReadActive(active) \/ WriteActive(active))
  \/ Enable \/ Disable

Next == Construct \/ ProcessEnds \/ Operation

Spec == Init /\ [][Next]_<<built, fmmuVars>>

--------------------------------------------------------------------------------
(* Properties.                                                                 *)

TypeOK == fmmuReg \in Registers /\ fmmu \in Registers /\ built \in BOOLEAN

\* The object never loses track of the FMMU: what it knows of it, the enable bit
\* it guards every setter with included, is what the slave holds, across failed
\* accesses and restarts of the process.
CopyIsTrue == built => fmmu = fmmuReg

\* The mapping of an active FMMU never changes under the process data that is
\* going through it: between frames it is either switched off or left alone.
ActiveMappingIsFixed ==
  [][fmmuReg.enabled /\ fmmuReg'.enabled => fmmuReg' = fmmuReg]_<<built, fmmuVars>>
================================================================================
