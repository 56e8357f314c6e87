------------------------------- MODULE MCFlexDrive ------------------------------
(***************************************************************************)
(* One axis for TLC: a velocity beyond the limit and a stop, and limits of  *)
(* each kind, within, below zero and not a number.                         *)
(***************************************************************************)
EXTENDS FlexDrive

MCSpeeds == {-MaxVelocity, 0}
MCLimits == {-MaxVelocity, VelocityLimit, NaN}
================================================================================
