-------------------------------- MODULE ALStates -------------------------------
(***************************************************************************)
(* The states of a slave's EtherCAT state machine (AL states), the hops it  *)
(* allows and the hops EtherCAT::Slave asks for.  State BOOT is left out,   *)
(* as no caller asks for it.                                                *)
(***************************************************************************)
EXTENDS Integers

States == {"INIT", "PREOP", "SAFEOP", "OP"}
Rank == [INIT |-> 0, PREOP |-> 1, SAFEOP |-> 2, OP |-> 3]

--------------------------------------------------------------------------------
(* A faulty variant, for mutation analysis.                                    *)

\* The check before the request misses the hop from INIT to SAFEOP.
InvalidHopMissed(from, new) ==
  (from = "INIT" /\ new = "OP") \/ (from = "PREOP" /\ new = "OP")

--------------------------------------------------------------------------------
\* One hop up, or any number down.
Reachable(from, new) == Rank[new] <= Rank[from] + 1

\* The hops ChangeState and ChangeStateASync throw for.
InvalidHop(from, new) ==
  \/ from = "INIT" /\ new \in {"SAFEOP", "OP"}
  \/ from = "PREOP" /\ new = "OP"
================================================================================
