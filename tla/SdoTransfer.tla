------------------------------ MODULE SdoTransfer ------------------------------
(***************************************************************************)
(* What ReadSDO, WriteSDO, SetInputPDO and SetOutputPDO promise, with no    *)
(* mailboxes and no messages in sight: of a program of calls, one after the *)
(* other is carried out by the drive, once, and then returns what the       *)
(* drive's object holds, or throws without having been carried out, and     *)
(* then the calls after it are not made.  When the exchange of messages was *)
(* disturbed nothing is promised.                                          *)
(***************************************************************************)
EXTENDS Sequences

CONSTANTS
  Objects, Data,  \* the objects of the drive and what they hold
  Programs        \* the sequences of calls that are made together

VARIABLES
  program,    \* the calls still to make, the one under way first
  carried,    \* has the drive carried out the call under way?
  dictionary, \* the drive's objects
  finished,   \* the calls made since program began, with what they returned
  disturbed

vars == <<program, carried, dictionary, finished, disturbed>>

Init ==
  /\ program = <<>> /\ ~carried
  /\ dictionary \in [Objects -> Data]
  /\ finished = <<>> /\ ~disturbed

Begin ==
  /\ program = <<>>
  /\ program' \in Programs
  /\ finished' = <<>>
  /\ UNCHANGED <<carried, dictionary, disturbed>>

CarryOut ==
  /\ program # <<>> /\ ~carried
  /\ carried'
  /\ dictionary' = IF Head(program).kind = "write"
                   THEN [dictionary EXCEPT ![Head(program).object] = Head(program).data]
                   ELSE dictionary
  /\ UNCHANGED <<program, finished, disturbed>>

Return ==
  /\ program # <<>> /\ carried
  /\ LET object == Head(program).object IN
     finished' = Append(finished, [object |-> object, data |-> dictionary[object]])
  /\ program' = Tail(program)
  /\ ~carried'
  /\ UNCHANGED <<dictionary, disturbed>>

Fail ==
  /\ program # <<>> /\ ~carried
  /\ program' = <<>>
  /\ UNCHANGED <<carried, dictionary, finished, disturbed>>

\* From the disturbance on, anything may happen.
Disturbed == disturbed'

Next == Begin \/ CarryOut \/ Return \/ Fail \/ Disturbed

Spec == Init /\ [][Next]_vars
================================================================================
