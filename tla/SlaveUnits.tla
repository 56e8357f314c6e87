------------------------------- MODULE SlaveUnits ------------------------------
(***************************************************************************)
(* A SyncManager and an FMMU of one slave, as Slave::Init builds them: the  *)
(* objects come and go together with the process, and one thread works on   *)
(* both, in any order.                                                     *)
(***************************************************************************)
CONSTANTS Addresses, Lengths, Fields, Values

VARIABLES built, smReg, sm, smKnown, smOwn, fmmuReg, fmmu

SM == INSTANCE SyncManager
FM == INSTANCE FMMU

smVars   == <<smReg, sm, smKnown, smOwn>>
fmmuVars == <<fmmuReg, fmmu>>
vars == <<built, smVars, fmmuVars>>

Init == SM!Init /\ FM!Init

\* Slave::Init: the SyncManagers first, then the FMMUs.
InitUnits == SM!Construct /\ FM!Construct

ProcessEnds == SM!ProcessEnds /\ FM!ProcessEnds

Configure ==
  \/ SM!Operation /\ UNCHANGED fmmuVars
  \/ FM!Operation /\ UNCHANGED smVars

Next == InitUnits \/ ProcessEnds \/ Configure

Spec == Init /\ [][Next]_vars

--------------------------------------------------------------------------------
(* The properties of the two components.                                       *)

TypeOK == SM!TypeOK /\ FM!TypeOK

\* SyncManager.tla: mode, direction and flags follow the registers.
CopyFollowsRegisters == SM!CopyFollowsRegisters

\* SyncManager.tla: one left active by an earlier process is not reconfigured.
FoundActiveIsRefused == SM!FoundActiveIsRefused

\* SyncManager.tla: "Tried to change StartAddr when SyncManager enabled".
ActiveIsRefused == SM!ActiveIsRefused

\* FMMU.tla: the object never loses track of the FMMU.
CopyIsTrue == FM!CopyIsTrue

\* FMMU.tla: an active mapping does not change.
ActiveMappingIsFixed == FM!ActiveMappingIsFixed
================================================================================
