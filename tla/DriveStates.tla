------------------------------ MODULE DriveStates ------------------------------
(***************************************************************************)
(* The AX2000 drive behind an axis, as SwitchOn and EnableOperation of      *)
(* Flexpicker::VelocityController see it: a CiA 402 state machine that      *)
(* follows the control word and shows its state in the status word.         *)
(***************************************************************************)

\* The bits of the status word in each state of the drive (CiA 402).
StatusWord ==
  [disabled |-> {},
   ready    |-> {"readyToSwitchOn"},
   on       |-> {"readyToSwitchOn", "switchedOn"},
   enabled  |-> {"readyToSwitchOn", "switchedOn", "operationEnabled"},
   fault    |-> {"fault"}]

\* The drive's reaction to a control word.  No control word this class sends
\* resets a fault.
Follow(d, word) ==
  IF d = "fault" THEN "fault"
  ELSE IF d = "disabled" \/ "switchOn" \notin word THEN "ready"
  ELSE IF d \in {"on", "enabled"} /\ "enableOperation" \in word THEN "enabled"
  ELSE "on"
================================================================================
