------------------------------- MODULE SlaveState ------------------------------
(***************************************************************************)
(* EtherCAT::Slave, the part that follows a slave's AL state machine: Init, *)
(* ChangeState, ChangeStateASync, ClearErrors and awaitALChange.  The       *)
(* object caches the state it believes the slave to be in.                  *)
(*                                                                         *)
(* The slave runs on its own: it takes up a request written to AL_CONTROL,  *)
(* accepts or refuses it, and may fall back to a lower state by itself.     *)
(* Each access to a register is a datagram, a step of its own; a datagram   *)
(* no slave answers makes the access throw.  The read-modify-write of       *)
(* AL_CONTROL is one step: nothing but this object writes that register.    *)
(* State BOOT is left out, as no caller asks for it.                        *)
(***************************************************************************)
EXTENDS Integers, ALStates

VARIABLES
  pc,         \* where the calling thread is
  call,       \* newState and clearErrors of the ChangeState under way
  state,      \* Slave::state, "unset" before Init
  returned,   \* the last ChangeState that returned, if it did not throw
  disturbed,  \* has anything but Init and ChangeState acted on the slave?
  alState, alError,   \* AL_STATUS: the state bits and the error bit
  alControl,          \* AL_CONTROL: the state bits and the acknowledge bit
  requested,          \* was AL_CONTROL written and not yet taken up?
  alEvent             \* the AL status bit of ECAT_EVENT_REQUEST

callVars  == <<pc, call, returned>>
slaveVars == <<alState, alError, alControl, requested, alEvent>>
vars == <<callVars, state, disturbed, slaveVars>>

NoCall == [state |-> "none", ack |-> FALSE]

\* The slave may be in any state an earlier master left it in.
Init ==
  /\ pc = "start" /\ call = NoCall /\ state = "unset"
  /\ returned = NoCall /\ disturbed = FALSE
  /\ alState \in States /\ alError \in BOOLEAN
  /\ alControl \in [state : States, ack : BOOLEAN]
  /\ requested = FALSE /\ alEvent \in BOOLEAN

--------------------------------------------------------------------------------
(* Faulty variants, for mutation analysis.                                     *)

\* Init reads another register than AL_STATUS: the event bit stays.
InitObjectKeepsEvent ==
  /\ pc = "start"
  /\ state' = alState
  /\ pc' = "idle"
  /\ UNCHANGED <<call, returned, disturbed, slaveVars>>

\* The cached state is set without comparing the status.
CompareNothing ==
  /\ pc = "status"
  /\ alEvent' = FALSE
  /\ state' = call.state /\ returned' = call
  /\ pc' = "idle"
  /\ UNCHANGED <<call, disturbed, alState, alError, alControl, requested>>

\* The loop waits for the bit to be clear.
AwaitClear ==
  /\ pc = "await"
  /\ ~alEvent
  /\ pc' = "status"
  /\ UNCHANGED <<call, state, returned, disturbed, slaveVars>>

--------------------------------------------------------------------------------
(* The object.                                                                 *)

\* Init reads AL_STATUS, which clears the event bit, and looks at the state bits
\* only.
InitObject ==
  /\ pc = "start"
  /\ state' = alState
  /\ alEvent' = FALSE
  /\ pc' = "idle"
  /\ UNCHANGED <<call, returned, disturbed, alState, alError, alControl, requested>>

\* Replace the state bits; the acknowledge bit, once set, is written back.
Request(new, ack) ==
  /\ alControl' = [state |-> new, ack |-> alControl.ack \/ ack]
  /\ requested' = TRUE
  /\ UNCHANGED <<alState, alError, alEvent>>

ChangeStateEarlyReturn ==
  /\ pc = "idle"
  /\ \E ack \in BOOLEAN : returned' = [state |-> state, ack |-> ack]
  /\ UNCHANGED <<pc, call, state, disturbed, slaveVars>>

ChangeState ==
  /\ pc = "idle"
  /\ \E new \in States \ {state}, ack \in BOOLEAN :
       /\ ~InvalidHop(state, new)
       /\ Request(new, ack)
       /\ call' = [state |-> new, ack |-> ack]
  /\ returned' = NoCall
  /\ pc' = "await"
  /\ UNCHANGED <<state, disturbed>>

\* awaitALChange polls until the event bit is set.
AwaitALChange ==
  /\ pc = "await"
  /\ alEvent
  /\ pc' = "status"
  /\ UNCHANGED <<call, state, returned, disturbed, slaveVars>>

\* Reading AL_STATUS clears the event bit.  Another state than the one asked
\* for: "State transition failed".
CompareStatus ==
  /\ pc = "status"
  /\ alEvent' = FALSE
  /\ IF alState = call.state
     THEN state' = call.state /\ returned' = call
     ELSE UNCHANGED <<state, returned>>
  /\ pc' = "idle"
  /\ UNCHANGED <<call, disturbed, alState, alError, alControl, requested>>

\* As ChangeState, without the wait: the cached state stays what it was.
ChangeStateASync ==
  /\ pc = "idle"
  /\ \E new \in States \ {state} : ~InvalidHop(state, new) /\ Request(new, FALSE)
  /\ disturbed' = TRUE
  /\ UNCHANGED <<callVars, state>>

ClearErrors ==
  /\ pc = "idle"
  /\ Request(alControl.state, TRUE)
  /\ disturbed' = TRUE
  /\ UNCHANGED <<callVars, state>>

\* No slave answers a datagram of the call: the access throws out_of_range.
AccessThrows ==
  /\ pc \in {"await", "status"}
  /\ pc' = "idle"
  /\ disturbed' = TRUE
  /\ UNCHANGED <<call, state, returned, slaveVars>>

--------------------------------------------------------------------------------
(* The slave.                                                                  *)

\* A slave that shows an error ignores requests until one acknowledges it.
Ignores == alError /\ ~alControl.ack

IgnoreRequest ==
  /\ requested /\ Ignores
  /\ requested' = FALSE
  /\ UNCHANGED <<callVars, state, disturbed, alState, alError, alControl, alEvent>>

AcceptRequest ==
  /\ requested /\ ~Ignores
  /\ Reachable(alState, alControl.state)
  /\ alState' = alControl.state
  /\ alError' = FALSE
  /\ alEvent' = TRUE
  /\ requested' = FALSE
  /\ UNCHANGED <<callVars, state, disturbed, alControl>>

\* Its configuration is incomplete, or the hop is not allowed.
RefuseRequest ==
  /\ requested /\ ~Ignores
  /\ Rank[alControl.state] > Rank[alState]
  /\ alError' = TRUE
  /\ alEvent' = TRUE
  /\ requested' = FALSE
  /\ UNCHANGED <<callVars, state, disturbed, alState, alControl>>

\* A watchdog or an application error takes the slave down.
FallBack ==
  /\ \E s \in States : Rank[s] < Rank[alState] /\ alState' = s
  /\ alError' = TRUE
  /\ alEvent' = TRUE
  /\ disturbed' = TRUE
  /\ UNCHANGED <<callVars, state, alControl, requested>>

--------------------------------------------------------------------------------
CallProgress == AwaitALChange \/ CompareStatus

Object ==
  \/ InitObject \/ ChangeStateEarlyReturn \/ ChangeState \/ CallProgress
  \/ ChangeStateASync \/ ClearErrors \/ AccessThrows

TakeUp == IgnoreRequest \/ AcceptRequest \/ RefuseRequest

Next == Object \/ TakeUp \/ FallBack

Spec == Init /\ [][Next]_vars

\* The thread goes on polling, and the slave takes up every request.
FairSpec == Spec /\ WF_vars(CallProgress) /\ WF_vars(TakeUp)

--------------------------------------------------------------------------------
(* Properties.                                                                 *)

TypeOK ==
  /\ pc \in {"start", "idle", "await", "status"}
  /\ call \in [state : States \cup {"none"}, ack : BOOLEAN]
  /\ state \in States \cup {"unset"} /\ (state = "unset" <=> pc = "start")
  /\ returned \in [state : States \cup {"none"}, ack : BOOLEAN]
  /\ disturbed \in BOOLEAN
  /\ alState \in States /\ alError \in BOOLEAN
  /\ alControl \in [state : States, ack : BOOLEAN]
  /\ requested \in BOOLEAN /\ alEvent \in BOOLEAN

\* Between calls the cached state is the slave's, also after a refused
\* transition, whatever state and event bit an earlier master left: the early
\* return and the hop check of ChangeState decide on the truth.
CachedStateIsTrue == pc = "idle" /\ ~disturbed => state = alState

\* A request is one the slave's state machine allows from the state it is in.
RequestsAreAllowed ==
  requested /\ ~disturbed => Reachable(alState, alControl.state)

\* "State transition failed" is thrown only when the slave refused: never for
\* the event of an earlier transition, nor before the slave has looked at it.
FailureMeansRefusal ==
  [][pc = "status" /\ pc' = "idle" /\ ~disturbed' /\ alState # call.state => alError]_vars

\* A call on a slave that listens returns: awaitALChange sees an event.  The
\* slave listens when it shows no error or the request acknowledges it.
CallOnListeningSlaveReturns ==
  (pc = "await" /\ ~Ignores) ~> pc = "idle"

\* "First, clear errors and go to the INIT state" (Master::Setup): when
\* ChangeState(INIT, true) has returned, the slave is in INIT without an error.
SetupClearsErrors ==
  pc = "idle" /\ ~disturbed /\ returned = [state |-> "INIT", ack |-> TRUE]
    => alState = "INIT" /\ ~alError

--------------------------------------------------------------------------------
(* The inductive invariant: what an undisturbed slave is about while a call is *)
(* under way.                                                                  *)

\* The slave has taken the request up and shows what became of it.
Answered ==
  /\ ~requested
  /\ alState = call.state \/ (alState = state /\ alError)

CallInv ==
  ~disturbed =>
    /\ pc = "start" => ~requested
    /\ pc = "idle" => state = alState /\ ~requested /\ ~alEvent
    /\ pc \in {"await", "status"} =>
         call.state \in States /\ ~InvalidHop(state, call.state)
    /\ pc = "await" =>
         \/ /\ requested /\ ~alEvent
            /\ alState = state /\ alControl.state = call.state
         \/ Answered
    /\ pc = "status" => Answered

IInv == TypeOK /\ CallInv
================================================================================
