---------------------------- MODULE DatagramService ----------------------------
(***************************************************************************)
(* What CyclicCommunicationManager::SendDatagram promises its callers while *)
(* the cyclic thread runs, with no threads, ring or packet in sight:        *)
(* requests are accepted one after the other, travel together in frames     *)
(* that take every waiting request, come back once, and are then reported   *)
(* to their callers in the order they were accepted.  A request that came   *)
(* back is always reported; one that never travelled may be abandoned when  *)
(* the service is destroyed.                                                *)
(***************************************************************************)
EXTENDS Integers

CONSTANT MaxRequests

Ids == 0 .. MaxRequests - 1

VARIABLE status

Init == status = [k \in Ids |-> "idle"]

Accept(k) ==
  /\ status[k] = "idle"
  /\ \A j \in 0 .. k - 1 : status[j] # "idle"
  /\ status' = [status EXCEPT ![k] = "queued"]

\* One frame carries the queued requests below n: those accepted before it left.
Exchange(n) ==
  /\ \E k \in Ids : k < n /\ status[k] = "queued"
  /\ status' = [k \in Ids |-> IF k < n /\ status[k] = "queued"
                              THEN "exchanged" ELSE status[k]]

Report(k) ==
  /\ status[k] = "exchanged"
  /\ \A j \in 0 .. k - 1 : status[j] = "ready"
  /\ status' = [status EXCEPT ![k] = "ready"]

Abandon ==
  /\ \A k \in Ids : status[k] # "exchanged"
  /\ status' = [k \in Ids |-> IF status[k] = "queued" THEN "broken" ELSE status[k]]

Next == (\E k \in Ids : Accept(k) \/ Report(k)) \/ (\E n \in 1 .. MaxRequests : Exchange(n)) \/ Abandon

Spec == Init /\ [][Next]_status
================================================================================
