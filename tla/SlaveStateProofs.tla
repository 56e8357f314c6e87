---------------------------- MODULE SlaveStateProofs ---------------------------
(***************************************************************************)
(* Proofs about the AL state machine of EtherCAT::Slave, for any sequence   *)
(* of calls and any interleaving with the slave.                            *)
(***************************************************************************)
EXTENDS SlaveState, TLAPS

\* What ChangeState lets through, the slave's state machine allows.
LEMMA CheckedHopsAreReachable ==
  ASSUME NEW from \in States, NEW new \in States, ~InvalidHop(from, new)
  PROVE  Reachable(from, new)
BY DEF States, InvalidHop, Reachable, Rank

\* The invariant holds whatever state an earlier master left the slave in.
LEMMA InitInv == Init => IInv
<1> SUFFICES ASSUME Init PROVE IInv
  OBVIOUS
<1>1. NoCall \in [state : States \cup {"none"}, ack : BOOLEAN]
  BY DEF NoCall
<1>2. requested \in BOOLEAN /\ disturbed \in BOOLEAN
  BY Zenon DEF Init
<1>3. TypeOK
  BY <1>1, <1>2 DEF Init, TypeOK
<1>4. CallInv
  BY DEF Init, CallInv
<1> QED
  BY <1>3, <1>4 DEF IInv

\* Every step of the object and of the slave keeps the invariant.
LEMMA StepInv == IInv /\ [Next]_vars => IInv'
<1> SUFFICES ASSUME IInv, [Next]_vars PROVE IInv'
  OBVIOUS
<1> USE DEF IInv, TypeOK, CallInv, Answered, NoCall
<1>1. CASE InitObject
  <2>1. state' # "unset" /\ state' \in States
    BY <1>1 DEF InitObject, States
  <2>2. alEvent' \in BOOLEAN
    BY <1>1, Zenon DEF InitObject
  <2>3. TypeOK'
    BY <1>1, <2>1, <2>2 DEF InitObject
  <2>4. CallInv'
    BY <1>1 DEF InitObject
  <2> QED
    BY <2>3, <2>4
<1>2. CASE ChangeStateEarlyReturn
  <2>1. returned' \in [state : States \cup {"none"}, ack : BOOLEAN]
    BY <1>2 DEF ChangeStateEarlyReturn
  <2>2. TypeOK'
    BY <1>2, <2>1 DEF ChangeStateEarlyReturn, slaveVars
  <2>3. CallInv'
    BY <1>2 DEF ChangeStateEarlyReturn, slaveVars
  <2> QED
    BY <2>2, <2>3
<1>3. CASE ChangeState
  BY <1>3 DEF ChangeState, Request
<1>4. CASE AwaitALChange
  <2>1. ~disturbed => Answered
    BY <1>4 DEF AwaitALChange
  <2>2. TypeOK'
    BY <1>4 DEF AwaitALChange, slaveVars
  <2>3. CallInv'
    BY <1>4, <2>1 DEF AwaitALChange, slaveVars
  <2> QED
    BY <2>2, <2>3
<1>5. CASE CompareStatus
  <2>1. alEvent' \in BOOLEAN
    BY <1>5, Zenon DEF CompareStatus
  <2>2. state' \in States \cup {"unset"} /\ state' # "unset"
    <3>1. CASE alState = call.state
      BY <1>5, <3>1 DEF CompareStatus, States
    <3>2. CASE alState # call.state
      BY <1>5, <3>2 DEF CompareStatus
    <3> QED
      BY <3>1, <3>2
  <2>3. returned' \in [state : States \cup {"none"}, ack : BOOLEAN]
    BY <1>5 DEF CompareStatus
  <2>4. TypeOK'
    BY <1>5, <2>1, <2>2, <2>3 DEF CompareStatus
  <2>5. CallInv'
    <3>1. CASE alState = call.state
      BY <1>5, <3>1 DEF CompareStatus
    <3>2. CASE alState # call.state
      BY <1>5, <3>2 DEF CompareStatus
    <3> QED
      BY <3>1, <3>2
  <2> QED
    BY <2>4, <2>5
<1>6. CASE ChangeStateASync
  BY <1>6 DEF ChangeStateASync, Request, callVars
<1>7. CASE ClearErrors
  BY <1>7 DEF ClearErrors, Request, callVars
<1>8. CASE AccessThrows
  BY <1>8 DEF AccessThrows, slaveVars
<1>9. CASE IgnoreRequest
  BY <1>9 DEF IgnoreRequest, Ignores, callVars
<1>10. CASE AcceptRequest
  BY <1>10 DEF AcceptRequest, callVars
<1>11. CASE RefuseRequest
  BY <1>11 DEF RefuseRequest, callVars
<1>12. CASE FallBack
  BY <1>12 DEF FallBack, callVars
<1>13. CASE UNCHANGED vars
  BY <1>13 DEF vars, callVars, slaveVars
<1> QED
  BY <1>1, <1>2, <1>3, <1>4, <1>5, <1>6, <1>7, <1>8, <1>9, <1>10, <1>11, <1>12, <1>13
  DEF Next, Object, CallProgress, TakeUp

\* The invariant holds in every reachable state.
THEOREM Inductive == Spec => []IInv
BY InitInv, StepInv, PTL DEF Spec

\* Every variable keeps its type.
THEOREM TypeCorrect == Spec => []TypeOK
<1>1. IInv => TypeOK
  BY DEF IInv
<1> QED
  BY Inductive, <1>1, PTL

\* Between calls the state ChangeState decides on is the slave's.
THEOREM CacheIsTrue == Spec => []CachedStateIsTrue
<1>1. IInv => CachedStateIsTrue
  BY DEF IInv, CallInv, CachedStateIsTrue
<1> QED
  BY Inductive, <1>1, PTL

\* The slave is never asked for a hop its state machine forbids.
THEOREM NoForbiddenRequest == Spec => []RequestsAreAllowed
<1>1. IInv => RequestsAreAllowed
  <2> SUFFICES ASSUME IInv, requested, ~disturbed
               PROVE  Reachable(alState, alControl.state)
    BY DEF RequestsAreAllowed
  <2>1. /\ pc = "await" /\ alState = state /\ alControl.state = call.state
        /\ call.state \in States /\ state \in States /\ ~InvalidHop(state, call.state)
    BY DEF IInv, TypeOK, CallInv, Answered
  <2> QED
    BY <2>1, CheckedHopsAreReachable
<1> QED
  BY Inductive, <1>1, PTL

\* "State transition failed" is thrown only for a slave that refused.
THEOREM OnlyRefusalsFail == Spec => FailureMeansRefusal
<1>1. IInv /\ [Next]_vars =>
        [pc = "status" /\ pc' = "idle" /\ ~disturbed' /\ alState # call.state => alError]_vars
  <2> SUFFICES ASSUME IInv, Next, pc = "status", pc' = "idle", ~disturbed',
                      alState # call.state
               PROVE  alError
    BY Zenon
  <2>1. disturbed' = disturbed \/ disturbed' = TRUE
    BY DEF Next, Object, TakeUp, CallProgress, InitObject, ChangeStateEarlyReturn, ChangeState,
           AwaitALChange, CompareStatus, ChangeStateASync, ClearErrors, AccessThrows,
           IgnoreRequest, AcceptRequest, RefuseRequest, FallBack
  <2> QED
    BY <2>1 DEF IInv, CallInv, Answered
<1> QED
  BY Inductive, <1>1, PTL DEF Spec, FailureMeansRefusal
================================================================================
