-------------------------- MODULE CyclicManagerProofs --------------------------
(***************************************************************************)
(* Proofs about CyclicManager for every ring size, window and bound: the    *)
(* inductive invariant IInv, and from it the safety properties of the ring  *)
(* and the link.                                                           *)
(***************************************************************************)
EXTENDS CyclicManager, FiniteSetTheorems, SequenceTheorems, TLAPS

USE RingAssumption, WindowAssumption, BoundAssumption

--------------------------------------------------------------------------------
(* Arithmetic of the ring.                                                     *)

\* The modulus of SendDatagramCyclic and of cyclicThread wraps at the last slot.
LEMMA NextSlotWraps ==
  ASSUME NEW s \in Slots
  PROVE  /\ NextSlot(s) \in Slots
         /\ NextSlot(s) = IF s = RingSize - 1 THEN 0 ELSE s + 1
<1>1. CASE s = RingSize - 1
  BY <1>1 DEF Slots, NextSlot
<1>2. CASE s < RingSize - 1
  BY <1>2 DEF Slots, NextSlot
<1>3. QED
  BY <1>1, <1>2 DEF Slots

\* Distances and places on the ring.
LEMMA RingArithmetic ==
  ASSUME NEW a \in Slots, NEW b \in Slots
  PROVE  /\ Dist(a, b) \in Slots
         /\ Dist(a, b) = 0 <=> a = b
         /\ Ahead(a, Dist(a, b)) = b
         /\ Ahead(a, 0) = a
         /\ \A n \in Slots : Ahead(a, n) \in Slots
         /\ \A m, n \in Slots : Ahead(a, m) = Ahead(a, n) => m = n
BY DEF Slots, Dist, Ahead

\* Two different distances from a slot lead to two different slots.
LEMMA AheadInjective ==
  ASSUME NEW a \in Slots, NEW m \in Slots, NEW n \in Slots, Ahead(a, m) = Ahead(a, n)
  PROVE  m = n
BY DEF Slots, Ahead

\* Moving the far end of a stretch one slot on makes it one longer, unless it
\* went all the way round; moving the near end makes it one shorter.
LEMMA DistSteps ==
  ASSUME NEW a \in Slots, NEW b \in Slots
  PROVE  /\ Dist(a, b) < RingSize - 1 => Dist(a, NextSlot(b)) = Dist(a, b) + 1
         /\ a # b => Dist(NextSlot(a), b) = Dist(a, b) - 1
         /\ \A n \in 0 .. RingSize - 2 : Ahead(NextSlot(a), n) = Ahead(a, n + 1)
         /\ Ahead(NextSlot(a), RingSize - 1) = a
BY NextSlotWraps DEF Slots, Dist, Ahead

--------------------------------------------------------------------------------
(* The initial states satisfy the invariant.                                   *)

\* The invariant holds of the manager as its constructor leaves it.
LEMMA InitInv == Init => IInv
<1> SUFFICES ASSUME Init PROVE IInv
  OBVIOUS
<1>1. TypeOK
  BY DEF Init, TypeOK, Slots, Ids, NoDatagram, FreshPromise, MovedPromise
<1>2. ThreadInv /\ LinkInv /\ NeverAborts /\ FrameCoversControllers
  BY DEF Init, ThreadInv, LinkInv, NeverAborts, FrameCoversControllers, Enqueueing
<1>3. InRing = 0 /\ Taken = 0 /\ Fulfilled = 0 /\ Returned = 0 /\ ~InPass /\ ~Enqueueing
  <2>1. ~InPass /\ ~Enqueueing
    BY DEF Init, InPass, Enqueueing
  <2>2. InRing = 0
    BY <2>1 DEF Init, InRing, RingHead, Dist
  <2>3. Taken = 0 /\ Len(promises) = 0
    <3>1. Taken = 0
      BY <2>2 DEF Init, Taken
    <3>2. Len(promises) = 0
      BY DEF Init
    <3>3. QED
      BY <3>1, <3>2
  <2>4. Fulfilled = 0
    BY <2>3 DEF Fulfilled
  <2>5. QED
    BY <2>1, <2>2, <2>3, <2>4 DEF Init, Returned
<1>4. WindowInv /\ BatchInv
  BY <1>3 DEF Init, WindowInv, BatchInv
<1>5. SlotInv
  <2>1. \A n \in 0 .. RingSize - 1 : Ahead(RingHead, n) \in Slots
    BY <1>3, RingArithmetic DEF Init, RingHead, Slots
  <2>2. QED
    BY <1>3, <2>1 DEF Init, SlotInv
<1>6. FutureInv
  BY <1>3 DEF Init, FutureInv, Ids
<1>7. QED
  BY <1>1, <1>2, <1>4, <1>5, <1>6 DEF IInv

--------------------------------------------------------------------------------
(* Types, the lifetime of the thread, the link.                                *)

\* No step of a thread or of the network takes a variable out of its type.
LEMMA TypeStep == TypeOK /\ ThreadInv /\ [Next]_vars => TypeOK'
<1> SUFFICES ASSUME TypeOK, ThreadInv, [Next]_vars PROVE TypeOK'
  OBVIOUS
<1> USE DEF TypeOK, vars, appVars, ringVars, cycVars, netVars
<1>1. CASE RegisterCyclicController
  BY <1>1 DEF RegisterCyclicController
<1>2. CASE SendDatagramAcyclic
  BY <1>2 DEF SendDatagramAcyclic
<1>3. CASE ReceiveAcyclic
  BY <1>3 DEF ReceiveAcyclic
<1>4. CASE SendDatagramCyclic
  BY <1>4 DEF SendDatagramCyclic
<1>5. CASE PutMessage
  BY <1>5 DEF PutMessage, ThreadInv, Enqueueing, Ids
<1>6. CASE PutPromise
  BY <1>6 DEF PutPromise, ThreadInv, Enqueueing, Ids
<1>7. CASE AdvanceWriter
  BY <1>7, NextSlotWraps DEF AdvanceWriter, ThreadInv, Enqueueing
<1>8. ASSUME NEW k \in Ids, Get(k) PROVE TypeOK'
  BY <1>8 DEF Get
<1>9. CASE GetReturns
  BY <1>9 DEF GetReturns
<1>10. CASE Run
  BY <1>10 DEF Run
<1>11. CASE Stop
  BY <1>11 DEF Stop
<1>12. CASE StopJoins
  BY <1>12 DEF StopJoins
<1>13. CASE Destroy
  BY <1>13 DEF Destroy, Abandoned
<1>14. CASE DestroyJoins
  BY <1>14 DEF DestroyJoins, Abandoned
<1>15. CASE CheckRun
  BY <1>15 DEF CheckRun
<1>16. CASE CollectControllers
  BY <1>16 DEF CollectControllers
<1>17. CASE Snapshot
  BY <1>17 DEF Snapshot
<1>18. CASE DrainSlot
  BY <1>18, NextSlotWraps DEF DrainSlot, PushPromise
<1>19. CASE SendFrame
  BY <1>19 DEF SendFrame
<1>20. CASE ReceiveFrame
  BY <1>20 DEF ReceiveFrame
<1>21. CASE UpdateControllers
  BY <1>21 DEF UpdateControllers
<1>22. CASE NotifyPromise
  BY <1>22 DEF NotifyPromise
<1>23. CASE PublishReader
  BY <1>23 DEF PublishReader
<1>24. CASE Wake
  BY <1>24 DEF Wake
<1>25. CASE Deliver
  BY <1>25 DEF Deliver
<1>26. CASE Lose
  BY <1>26 DEF Lose
<1>27. CASE UNCHANGED vars
  BY <1>27
<1>28. QED
  BY <1>1, <1>2, <1>3, <1>4, <1>5, <1>6, <1>7, <1>8, <1>9, <1>10, <1>11, <1>12,
     <1>13, <1>14, <1>15, <1>16, <1>17, <1>18, <1>19, <1>20, <1>21, <1>22,
     <1>23, <1>24, <1>25, <1>26, <1>27
  DEF Next, AppBegins, AppProgress, CyclicThread, Gone

\* What the steps of either thread do to the lifetime of the cyclic thread, to
\* the controllers of its frame.
LEMMA ThreadStep ==
  ThreadInv /\ FrameCoversControllers /\ [Next]_vars
    => ThreadInv' /\ FrameCoversControllers'
<1> SUFFICES ASSUME ThreadInv, FrameCoversControllers, [Next]_vars
             PROVE  ThreadInv' /\ FrameCoversControllers'
  OBVIOUS
<1> USE DEF ThreadInv, FrameCoversControllers, Enqueueing
<1>1. CASE AppBegins
  BY <1>1 DEF AppBegins, RegisterCyclicController, SendDatagramAcyclic,
     SendDatagramCyclic, Get, Run, Stop, Destroy, appVars, cycVars
<1>2. CASE AppProgress
  BY <1>2 DEF AppProgress, ReceiveAcyclic, PutMessage, PutPromise, AdvanceWriter,
     GetReturns, StopJoins, DestroyJoins, appVars, cycVars
<1>3. CASE CyclicThread
  BY <1>3 DEF CyclicThread, CheckRun, CollectControllers, Snapshot, DrainSlot,
     SendFrame, ReceiveFrame, UpdateControllers, NotifyPromise, PublishReader,
     Wake, appVars, cycVars
<1>4. CASE Deliver \/ Lose
  BY <1>4 DEF Deliver, Lose, appVars, cycVars
<1>5. CASE UNCHANGED vars
  BY <1>5 DEF vars, appVars, cycVars
<1>6. QED
  BY <1>1, <1>2, <1>3, <1>4, <1>5 DEF Next, Gone

\* Two queues with one frame at most between them: one is empty, or both are.
LEMMA OneOfTwo ==
  ASSUME NEW a \in Nat, NEW b \in Nat, a + b <= 1, a # 0
  PROVE  a = 1 /\ b = 0
OBVIOUS

\* At most one frame is on the wire or in the socket, and it belongs to the
\* thread that is waiting for it.
LEMMA LinkStep == TypeOK /\ ThreadInv /\ LinkInv /\ [Next]_vars => LinkInv'
<1> SUFFICES ASSUME TypeOK, ThreadInv, LinkInv, [Next]_vars PROVE LinkInv'
  OBVIOUS
<1>seqs. flying \in Seq({"app", "cyclic"}) /\ arrived \in Seq({"app", "cyclic"})
  BY DEF TypeOK
<1>lens. Len(flying) \in Nat /\ Len(arrived) \in Nat
  BY <1>seqs, LenProperties
<1>empty. /\ Len(flying) = 0 <=> flying = <<>>
      /\ Len(arrived) = 0 <=> arrived = <<>>
  BY <1>seqs, EmptySeq
<1>sum. Len(flying) + Len(arrived) <= 1 /\ Len(arrived) + Len(flying) <= 1
  BY DEF LinkInv
<1>1. CASE SendDatagramAcyclic \/ SendFrame
  <2>1. PICK who \in {"app", "cyclic"} :
          /\ flying' = Append(flying, who) /\ arrived' = arrived /\ crossed' = crossed
          /\ who = "app" => app' = "directReceive" /\ cyc' = "absent"
          /\ who = "cyclic" => cyc' = "receive"
    BY <1>1 DEF SendDatagramAcyclic, SendFrame, ThreadInv, cycVars
  <2>2. app # "directReceive" /\ cyc # "receive"
    BY <1>1 DEF SendDatagramAcyclic, SendFrame, ThreadInv
  <2>3. Len(flying) = 0 /\ Len(arrived) = 0
    BY <1>seqs, <2>2 DEF LinkInv
  <2>4. Len(flying') = 1 /\ flying'[1] = who
    BY <1>seqs, <2>1, <2>3
  <2>5. QED
    BY <2>1, <2>3, <2>4 DEF LinkInv
<1>2. CASE ReceiveAcyclic \/ ReceiveFrame
  <2>1. arrived # <<>> /\ arrived' = Tail(arrived) /\ flying' = flying
    BY <1>2 DEF ReceiveAcyclic, ReceiveFrame
  <2>2. Len(arrived) = 1 /\ Len(flying) = 0
    <3>1. Len(arrived) # 0
      BY <1>empty, <2>1
    <3>2. QED
      BY <1>sum, <1>lens, <3>1, OneOfTwo
  <2>3. Len(arrived') = 0 /\ Len(flying') = 0
    BY <1>seqs, <2>1, <2>2
  <2>4. app = "directReceive" => cyc # "receive"
    BY DEF ThreadInv
  <2>5. Head(arrived) = IF app = "directReceive" THEN "app" ELSE "cyclic"
    BY <1>seqs, <1>2, <2>2, <2>4 DEF LinkInv, ReceiveAcyclic, ReceiveFrame
  <2>6. ~crossed'
    BY <1>2, <2>4, <2>5 DEF LinkInv, ReceiveAcyclic, ReceiveFrame
  <2>7. QED
    BY <2>3, <2>6 DEF LinkInv
<1>3. CASE Deliver
  <2>1. /\ flying' = Tail(flying) /\ arrived' = Append(arrived, flying[1]) /\ flying # <<>>
        /\ app' = app /\ cyc' = cyc /\ crossed' = crossed
    BY <1>3 DEF Deliver, appVars, cycVars
  <2>2. Len(flying) = 1 /\ Len(arrived) = 0
    <3>1. Len(flying) # 0
      BY <1>empty, <2>1
    <3>2. QED
      BY <1>sum, <1>lens, <3>1, OneOfTwo
  <2>3. Len(flying') = 0 /\ Len(arrived') = 1 /\ arrived'[1] = flying[1]
    BY <1>seqs, <2>1, <2>2
  <2>4. QED
    BY <2>1, <2>2, <2>3 DEF LinkInv
<1>4. CASE Lose
  <2>1. /\ flying' = Tail(flying) /\ arrived' = arrived /\ flying # <<>>
        /\ app' = app /\ cyc' = cyc /\ crossed' = crossed
    BY <1>4 DEF Lose, appVars, cycVars
  <2>2. Len(flying) = 1 /\ Len(arrived) = 0
    <3>1. Len(flying) # 0
      BY <1>empty, <2>1
    <3>2. QED
      BY <1>sum, <1>lens, <3>1, OneOfTwo
  <2>3. Len(flying') = 0 /\ Len(arrived') = 0
    BY <1>seqs, <2>1, <2>2
  <2>4. QED
    BY <2>1, <2>3 DEF LinkInv
<1>5. ASSUME ~SendDatagramAcyclic, ~SendFrame, ~ReceiveAcyclic, ~ReceiveFrame,
             ~Deliver, ~Lose
      PROVE  LinkInv'
  <2>1. /\ UNCHANGED netVars
        /\ app = "directReceive" => app' = "directReceive"
        /\ cyc = "receive" => cyc' = "receive"
    <3>1. CASE AppBegins
      BY <1>5, <3>1 DEF AppBegins, RegisterCyclicController, SendDatagramCyclic, Get,
         Run, Stop, Destroy, ThreadInv, appVars, cycVars
    <3>2. CASE AppProgress
      BY <1>5, <3>2 DEF AppProgress, PutMessage, PutPromise, AdvanceWriter,
         GetReturns, StopJoins, DestroyJoins, appVars, cycVars
    <3>3. CASE CyclicThread
      BY <1>5, <3>3 DEF CyclicThread, CheckRun, CollectControllers, Snapshot,
         DrainSlot, UpdateControllers, NotifyPromise, PublishReader, Wake, appVars, cycVars
    <3>4. CASE UNCHANGED vars
      BY <3>4 DEF vars, appVars, cycVars
    <3>5. QED
      BY <1>5, <3>1, <3>2, <3>3, <3>4 DEF Next, Gone
  <2>2. QED
    BY <2>1 DEF LinkInv, netVars
<1>6. QED
  BY <1>1, <1>2, <1>3, <1>4, <1>5

--------------------------------------------------------------------------------
(* The ring, the batch and the futures.                                        *)

RingInv == WindowInv /\ BatchInv /\ SlotInv /\ FutureInv /\ NeverAborts

\* The quantities the invariant counts with.
LEMMA Quantities ==
  ASSUME TypeOK
  PROVE  /\ RingHead \in Slots /\ InRing \in Slots
         /\ Len(promises) \in Nat /\ Len(pkt) \in Nat
         /\ Taken \in Int /\ Fulfilled \in Int
         /\ Taken = issued - InRing /\ Taken <= issued
         /\ Len(promises) = Taken - Fulfilled /\ Fulfilled <= Taken
<1>1. RingHead \in Slots /\ acyclicWriterPtr \in Slots /\ issued \in Int
  BY DEF TypeOK, RingHead
<1>2. InRing \in Slots
  BY <1>1, RingArithmetic DEF InRing
<1>3. Len(promises) \in Nat /\ Len(pkt) \in Nat
  <2>1. /\ promises \in Seq(Ids \cup {FreshPromise, MovedPromise})
        /\ pkt \in Seq(Ids \cup {NoDatagram})
    BY DEF TypeOK
  <2>2. QED
    BY <2>1, LenProperties
<1>4. Taken \in Int /\ Taken = issued - InRing /\ Taken <= issued
  BY <1>1, <1>2 DEF Taken, Slots
<1>5. PICK n \in Nat : n = Len(promises)
  BY <1>3
<1>6. Fulfilled = Taken - n
  BY <1>5 DEF Fulfilled
<1>7. QED
  BY <1>1, <1>2, <1>3, <1>4, <1>5, <1>6

\* Steps that neither touch the ring nor move either thread into or out of the
\* places the invariant speaks of.
LEMMA RingFrame ==
  ASSUME TypeOK, RingInv,
         UNCHANGED <<issued, future, ringVars, wp, rp, pkt, promises, exchanged, aborted>>,
         InPass' = InPass, Enqueueing' = Enqueueing,
         app' # app => {app, app'} \cap {"putPromise", "advance", "gone"} = {},
         cyc' \in {"drain", "receive"} <=> cyc \in {"drain", "receive"},
         cyc' = "drain" => cyc = "drain",
         cyc' = "snapshot" => cyc = "snapshot"
  PROVE  RingInv'
<1>1. RingHead' = RingHead
  BY DEF RingHead, ringVars
<1>2. InRing' = InRing
  BY <1>1 DEF InRing, ringVars, Dist
<1>3. Taken' = Taken
  BY <1>2 DEF Taken
<1>4. Fulfilled' = Fulfilled
  BY <1>3 DEF Fulfilled
<1>5. Returned' = Returned
  BY <1>3, <1>4 DEF Returned
<1>6. WindowInv'
  BY <1>4 DEF RingInv, WindowInv
<1>7. BatchInv'
  BY <1>2, <1>4 DEF RingInv, BatchInv, Dist
<1>8. SlotInv'
  <2>1. \A n : Ahead(RingHead, n)' = Ahead(RingHead, n)
    BY <1>1 DEF Ahead
  <2>2. QED
    BY <1>2, <1>3, <2>1 DEF RingInv, SlotInv, ringVars
<1>9. FutureInv'
  BY <1>4, <1>5 DEF RingInv, FutureInv
<1>10. QED
  BY <1>6, <1>7, <1>8, <1>9 DEF RingInv, NeverAborts

\* The application's enqueueing, step by step.
LEMMA SendDatagramCyclicRing ==
  ASSUME TypeOK, ThreadInv, RingInv, SendDatagramCyclic
  PROVE  RingInv'
<1> USE DEF SendDatagramCyclic, ringVars, cycVars, netVars
<1>1. /\ app = "idle" /\ ~Enqueueing /\ app' = "putMessage" /\ Enqueueing'
      /\ UNCHANGED <<issued, ringVars, cycVars, netVars, aborted>>
  BY DEF Enqueueing
<1>2. /\ RingHead' = RingHead /\ InPass' = InPass
      /\ \A n : Ahead(RingHead, n)' = Ahead(RingHead, n)
  BY <1>1 DEF RingHead, InPass, Ahead
<1>3. InRing' = InRing /\ Taken' = Taken /\ Fulfilled' = Fulfilled /\ Returned' = Returned
  <2>1. InRing' = InRing
    BY <1>1, <1>2 DEF InRing, Dist
  <2>2. Taken' = Taken
    BY <1>1, <2>1 DEF Taken
  <2>3. Fulfilled' = Fulfilled
    BY <1>1, <2>2 DEF Fulfilled
  <2>4. QED
    BY <1>1, <2>1, <2>2, <2>3 DEF Returned
<1>4. issued - Fulfilled < Window
  <2>1. Fulfilled \in Nat /\ issued \in 0 .. MaxRequests /\ Fulfilled <= issued
    BY Quantities DEF RingInv, WindowInv, TypeOK
  <2>2. Pending = Fulfilled .. issued - 1
    BY <1>1, <2>1 DEF RingInv, FutureInv, Pending, Ids
  <2>3. Cardinality(Fulfilled .. issued - 1) = issued - Fulfilled
    <3>1. Fulfilled \in Int /\ issued - 1 \in Int
      BY <2>1
    <3>2. Cardinality(Fulfilled .. issued - 1)
            = IF Fulfilled > issued - 1 THEN 0 ELSE issued - 1 - Fulfilled + 1
      BY <3>1, FS_Interval
    <3>3. QED
      BY <2>1, <3>2
  <2>4. QED
    BY <2>2, <2>3
<1>5. WindowInv' /\ BatchInv'
  BY <1>1, <1>2, <1>3, <1>4 DEF RingInv, WindowInv, BatchInv, Dist
<1>6. SlotInv'
  BY <1>1, <1>2, <1>3 DEF RingInv, SlotInv
<1>7. FutureInv'
  <2>1. issued \in Ids /\ future' = [future EXCEPT ![issued] = "pending"]
    BY DEF TypeOK, Ids
  <2>2. Fulfilled <= issued
    BY Quantities DEF TypeOK
  <2>3. ~(issued < Fulfilled) /\ issued \in Int
    BY <2>2, Quantities DEF TypeOK
  <2>4. future'[issued] = "pending" /\ \A k \in Ids \ {issued} : future'[k] = future[k]
    BY <2>1 DEF TypeOK
  <2>5. QED
    BY <1>1, <1>3, <2>1, <2>3, <2>4 DEF RingInv, FutureInv
<1>8. QED
  BY <1>1, <1>5, <1>6, <1>7 DEF RingInv, NeverAborts

\* The slot SendDatagramCyclic fills is not one a waiting request occupies.
LEMMA PutMessageRing ==
  ASSUME TypeOK, RingInv, PutMessage
  PROVE  RingInv'
<1> USE DEF PutMessage, ringVars, cycVars, netVars
<1>1. /\ app = "putMessage" /\ Enqueueing /\ app' = "putPromise" /\ Enqueueing'
      /\ UNCHANGED <<issued, future, acyclicPromises, acyclicReaderPtr,
                     acyclicWriterPtr, cycVars, netVars, aborted>>
  BY DEF Enqueueing
<1>2. /\ RingHead' = RingHead /\ InPass' = InPass
      /\ \A n : Ahead(RingHead, n)' = Ahead(RingHead, n)
  BY <1>1 DEF RingHead, InPass, Ahead
<1>3. InRing' = InRing /\ Taken' = Taken /\ Fulfilled' = Fulfilled /\ Returned' = Returned
  <2>1. InRing' = InRing
    BY <1>1, <1>2 DEF InRing, Dist
  <2>2. Taken' = Taken
    BY <1>1, <2>1 DEF Taken
  <2>3. Fulfilled' = Fulfilled
    BY <1>1, <2>2 DEF Fulfilled
  <2>4. QED
    BY <1>1, <2>1, <2>2, <2>3 DEF Returned
<1>4. WindowInv' /\ BatchInv'
  BY <1>1, <1>2, <1>3 DEF RingInv, WindowInv, BatchInv, Dist
<1>5. SlotInv'
  <2>1. /\ RingHead \in Slots /\ InRing \in Slots /\ acyclicWriterPtr \in Slots
        /\ Ahead(RingHead, InRing) = acyclicWriterPtr
    BY Quantities, RingArithmetic DEF InRing, TypeOK
  <2>2. \A n \in 0 .. InRing - 1 : Ahead(RingHead, n) \in Slots \ {acyclicWriterPtr}
    <3>1. \A n \in 0 .. InRing - 1 : n \in Slots /\ n # InRing
      BY <2>1 DEF Slots
    <3>2. \A n \in Slots : /\ Ahead(RingHead, n) \in Slots
                           /\ n # InRing => Ahead(RingHead, n) # acyclicWriterPtr
      BY <2>1, RingArithmetic
    <3>3. QED
      BY <3>1, <3>2
  <2>3. /\ acyclicMessages' = [acyclicMessages EXCEPT ![acyclicWriterPtr] = issued]
        /\ acyclicMessages \in [Slots -> Ids \cup {NoDatagram}]
    BY DEF TypeOK
  <2>4. QED
    BY <1>1, <1>2, <1>3, <2>1, <2>2, <2>3 DEF RingInv, SlotInv
<1>6. FutureInv'
  BY <1>1, <1>3 DEF RingInv, FutureInv
<1>7. QED
  BY <1>1, <1>4, <1>5, <1>6 DEF RingInv, NeverAborts

\* The promise that is assigned over is spent: the ring is not full.
LEMMA PutPromiseRing ==
  ASSUME TypeOK, RingInv, PutPromise
  PROVE  RingInv'
<1> USE DEF PutPromise, ringVars, cycVars, netVars
<1>1. /\ app = "putPromise" /\ Enqueueing /\ app' = "advance" /\ Enqueueing'
      /\ UNCHANGED <<issued, acyclicMessages, acyclicReaderPtr,
                     acyclicWriterPtr, cycVars, netVars, aborted>>
  BY DEF Enqueueing
<1>2. /\ RingHead' = RingHead /\ InPass' = InPass
      /\ \A n : Ahead(RingHead, n)' = Ahead(RingHead, n)
  BY <1>1 DEF RingHead, InPass, Ahead
<1>3. InRing' = InRing /\ Taken' = Taken /\ Fulfilled' = Fulfilled /\ Returned' = Returned
  <2>1. InRing' = InRing
    BY <1>1, <1>2 DEF InRing, Dist
  <2>2. Taken' = Taken
    BY <1>1, <2>1 DEF Taken
  <2>3. Fulfilled' = Fulfilled
    BY <1>1, <2>2 DEF Fulfilled
  <2>4. QED
    BY <1>1, <2>1, <2>2, <2>3 DEF Returned
<1>4. WindowInv' /\ BatchInv'
  BY <1>1, <1>2, <1>3 DEF RingInv, WindowInv, BatchInv, Dist
<1>5. /\ RingHead \in Slots /\ InRing \in Slots /\ acyclicWriterPtr \in Slots
      /\ Ahead(RingHead, InRing) = acyclicWriterPtr
  BY Quantities, RingArithmetic DEF InRing, TypeOK
<1>6. SlotInv'
  <2>1. \A n \in Slots : /\ Ahead(RingHead, n) \in Slots
                         /\ n # InRing => Ahead(RingHead, n) # acyclicWriterPtr
    BY <1>5, RingArithmetic
  <2>2. /\ acyclicPromises' = [acyclicPromises EXCEPT ![acyclicWriterPtr] = issued]
        /\ acyclicPromises \in [Slots -> Ids \cup {FreshPromise, MovedPromise}]
    BY DEF TypeOK
  <2>3. \A n \in Slots \ {InRing} :
          acyclicPromises'[Ahead(RingHead, n)] = acyclicPromises[Ahead(RingHead, n)]
    BY <1>5, <2>1, <2>2
  <2>4. acyclicPromises'[acyclicWriterPtr] = issued
    BY <1>5, <2>2
  <2>5. \A n \in 0 .. InRing - 1 : n \in Slots \ {InRing}
    BY <1>5 DEF Slots
  <2>6. \A n \in InRing .. RingSize - 1 : n \in Slots
    BY <1>5 DEF Slots
  <2>7. QED
    BY <1>1, <1>2, <1>3, <1>5, <2>3, <2>4, <2>5, <2>6 DEF RingInv, SlotInv
<1>7. FutureInv'
  <2>1. acyclicPromises[acyclicWriterPtr] \in {FreshPromise, MovedPromise}
    BY <1>1, <1>5 DEF RingInv, SlotInv, Slots
  <2>2. future' = future
    BY <2>1 DEF TypeOK, Ids, FreshPromise, MovedPromise
  <2>3. QED
    BY <1>1, <1>3, <2>2 DEF RingInv, FutureInv
<1>8. QED
  BY <1>1, <1>4, <1>6, <1>7 DEF RingInv, NeverAborts

\* The window keeps the writer from catching up with the head of the ring.
LEMMA AdvanceWriterRing ==
  ASSUME TypeOK, RingInv, AdvanceWriter
  PROVE  RingInv' /\ Fulfilled' = Fulfilled /\ Returned' = Returned
<1> USE DEF AdvanceWriter, ringVars, cycVars, netVars
<1>1. /\ app = "advance" /\ Enqueueing /\ app' = "idle" /\ ~Enqueueing'
      /\ acyclicWriterPtr' = NextSlot(acyclicWriterPtr) /\ issued' = issued + 1
      /\ UNCHANGED <<future, acyclicMessages, acyclicPromises, acyclicReaderPtr,
                     cycVars, netVars, aborted>>
  BY DEF Enqueueing
<1>2. /\ RingHead' = RingHead /\ InPass' = InPass
      /\ \A n : Ahead(RingHead, n)' = Ahead(RingHead, n)
  BY <1>1 DEF RingHead, InPass, Ahead
<1>3. /\ RingHead \in Slots /\ InRing \in Slots /\ acyclicWriterPtr \in Slots
      /\ Ahead(RingHead, InRing) = acyclicWriterPtr
      /\ issued \in Int /\ Taken \in Int /\ Fulfilled \in Int
  BY Quantities, RingArithmetic DEF InRing, TypeOK
<1>4. InRing < RingSize - 1
  <2>1. InRing <= issued - Fulfilled
    <3>1. Taken = issued - InRing /\ Fulfilled <= Taken
      BY Quantities
    <3>2. QED
      BY <1>3, <3>1 DEF Slots
  <2>2. issued - Fulfilled < Window
    BY <1>1 DEF RingInv, WindowInv
  <2>3. QED
    BY <1>3, <2>1, <2>2 DEF Slots
<1>5. InRing' = InRing + 1
  <2>1. InRing' = Dist(RingHead, NextSlot(acyclicWriterPtr))
    BY <1>1, <1>2 DEF InRing, Dist
  <2>2. Dist(RingHead, acyclicWriterPtr) < RingSize - 1
    BY <1>4 DEF InRing
  <2>3. QED
    BY <1>3, <2>1, <2>2, DistSteps DEF InRing
<1>6. Taken' = Taken /\ Fulfilled' = Fulfilled /\ Returned' = Returned
  <2>1. Taken' = Taken
    BY <1>1, <1>3, <1>5 DEF Taken, Slots
  <2>2. Fulfilled' = Fulfilled
    BY <1>1, <2>1 DEF Fulfilled
  <2>3. QED
    BY <1>1, <2>1, <2>2 DEF Returned
<1>7. WindowInv'
  BY <1>1, <1>3, <1>6 DEF RingInv, WindowInv
<1>8. BatchInv'
  <2>1. cyc = "drain" => Dist(rp, wp)' <= InRing'
    <3>1. cyc = "drain" => Dist(rp, wp) <= InRing
      BY DEF RingInv, BatchInv
    <3>2. Dist(rp, wp)' = Dist(rp, wp)
      BY <1>1 DEF Dist
    <3>3. Dist(rp, wp) \in Slots
      BY RingArithmetic DEF TypeOK
    <3>4. QED
      BY <1>3, <1>5, <3>1, <3>2, <3>3 DEF Slots
  <2>2. QED
    BY <1>1, <1>2, <1>6, <2>1 DEF RingInv, BatchInv
<1>9. SlotInv'
  <2>1. \A n \in 0 .. InRing' - 1 : n = InRing \/ n \in 0 .. InRing - 1
    BY <1>3, <1>5 DEF Slots
  <2>2. Taken + InRing = issued
    BY <1>3 DEF Taken, Slots
  <2>3. /\ acyclicMessages[acyclicWriterPtr] = issued
        /\ acyclicPromises[acyclicWriterPtr] = issued
    BY <1>1 DEF RingInv, SlotInv
  <2>4. \A n \in 0 .. InRing' - 1 :
          /\ acyclicMessages[Ahead(RingHead, n)] = Taken + n
          /\ acyclicPromises[Ahead(RingHead, n)] = Taken + n
    BY <1>3, <2>1, <2>2, <2>3 DEF RingInv, SlotInv
  <2>5. \A n \in InRing' .. RingSize - 1 : n \in InRing .. RingSize - 1 /\ n # InRing
    BY <1>3, <1>5 DEF Slots
  <2>6. \A n \in InRing' .. RingSize - 1 :
          acyclicPromises[Ahead(RingHead, n)] \in {FreshPromise, MovedPromise}
    BY <2>5 DEF RingInv, SlotInv
  <2>7. QED
    BY <1>1, <1>2, <1>6, <2>4, <2>6 DEF SlotInv
<1>10. FutureInv'
  <2>1. Fulfilled <= issued
    BY <1>3, Quantities
  <2>2. \A k \in Ids : k \in Int /\ (k < issued + 1 <=> k < issued \/ k = issued)
    BY <1>3 DEF Ids
  <2>3. ~(issued < Fulfilled)
    BY <1>3, <2>1
  <2>4. QED
    BY <1>1, <1>6, <2>2, <2>3 DEF RingInv, FutureInv
<1>11. QED
  BY <1>6, <1>1, <1>7, <1>8, <1>9, <1>10 DEF RingInv, NeverAborts

\* The cyclic thread's pass, step by step.
LEMMA CollectControllersRing ==
  ASSUME TypeOK, RingInv, CollectControllers
  PROVE  RingInv'
<1> USE DEF CollectControllers, appVars, ringVars, netVars
<1>1. /\ cyc = "collect" /\ ~InPass /\ cyc' = "snapshot" /\ ~InPass' /\ Enqueueing' = Enqueueing
      /\ promises' = <<>> /\ pkt' = <<>> /\ promises = <<>>
      /\ UNCHANGED <<appVars, future, ringVars, exchanged, aborted>>
  BY DEF InPass, Enqueueing, RingInv, BatchInv
<1>2. /\ RingHead' = RingHead /\ \A n : Ahead(RingHead, n)' = Ahead(RingHead, n)
  BY <1>1 DEF RingHead, Ahead
<1>3. InRing' = InRing /\ Taken' = Taken /\ Fulfilled' = Fulfilled /\ Returned' = Returned
  <2>1. InRing' = InRing
    BY <1>1, <1>2 DEF InRing, Dist
  <2>2. Taken' = Taken
    BY <1>1, <2>1 DEF Taken
  <2>3. Fulfilled' = Fulfilled
    BY <1>1, <2>2 DEF Fulfilled
  <2>4. QED
    BY <1>1, <2>1, <2>2, <2>3 DEF Returned
<1>4. WindowInv'
  BY <1>1, <1>3 DEF RingInv, WindowInv
<1>5. BatchInv'
  <2>1. Len(promises') = 0
    BY <1>1, EmptySeq
  <2>2. QED
    BY <1>1, <2>1 DEF BatchInv
<1>6. SlotInv'
  BY <1>1, <1>2, <1>3 DEF RingInv, SlotInv
<1>7. FutureInv'
  BY <1>1, <1>3 DEF RingInv, FutureInv
<1>8. QED
  BY <1>1, <1>4, <1>5, <1>6, <1>7 DEF RingInv, NeverAborts

\* The head of the ring goes from the shared reader pointer to the local one.
LEMMA SnapshotRing ==
  ASSUME TypeOK, RingInv, Snapshot
  PROVE  RingInv'
<1> USE DEF Snapshot, appVars, ringVars, netVars
<1>1. /\ cyc = "snapshot" /\ ~InPass /\ cyc' = "drain" /\ InPass' /\ Enqueueing' = Enqueueing
      /\ promises = <<>> /\ pkt = <<>> /\ rp' = acyclicReaderPtr /\ wp' = acyclicWriterPtr
      /\ UNCHANGED <<appVars, future, ringVars, promises, pkt, exchanged, aborted>>
  BY DEF InPass, Enqueueing, RingInv, BatchInv
<1>2. /\ RingHead' = RingHead /\ \A n : Ahead(RingHead, n)' = Ahead(RingHead, n)
  BY <1>1 DEF RingHead, Ahead
<1>3. Len(promises) = 0 /\ Len(pkt) = 0
  BY <1>1, EmptySeq
<1>4. InRing' = InRing /\ Taken' = Taken /\ Fulfilled' = Fulfilled /\ Returned' = Returned
  <2>1. InRing' = InRing
    BY <1>1, <1>2 DEF InRing, Dist
  <2>2. Taken' = Taken
    BY <1>1, <2>1 DEF Taken
  <2>3. Fulfilled' = Fulfilled
    BY <1>1, <2>2 DEF Fulfilled
  <2>4. Taken = Fulfilled
    BY <1>3, Quantities DEF Fulfilled
  <2>5. QED
    BY <1>1, <2>1, <2>2, <2>3, <2>4 DEF Returned
<1>5. WindowInv'
  BY <1>1, <1>4 DEF RingInv, WindowInv
<1>6. BatchInv'
  <2>1. Dist(rp, wp)' = InRing
    BY <1>1 DEF InRing, RingHead, Dist
  <2>2. InRing \in Int
    BY Quantities DEF Slots
  <2>3. QED
    BY <1>1, <1>3, <1>4, <2>1, <2>2 DEF BatchInv
<1>7. SlotInv'
  BY <1>1, <1>2, <1>4 DEF RingInv, SlotInv
<1>8. FutureInv'
  BY <1>1, <1>4 DEF RingInv, FutureInv
<1>9. QED
  BY <1>1, <1>5, <1>6, <1>7, <1>8 DEF RingInv, NeverAborts

\* When the packet comes back, exactly the batch has been round the slaves.
LEMMA ReceiveFrameRing ==
  ASSUME TypeOK, ThreadInv, LinkInv, RingInv, ReceiveFrame
  PROVE  RingInv' /\ Fulfilled' = Fulfilled /\ Returned' = Taken
<1> USE DEF ReceiveFrame, appVars, ringVars
<1>1. /\ cyc = "receive" /\ InPass /\ cyc' = "update" /\ InPass' /\ Enqueueing' = Enqueueing
      /\ UNCHANGED <<appVars, future, ringVars, wp, rp, promises, pkt, aborted>>
  BY DEF InPass, Enqueueing
<1>2. /\ RingHead' = RingHead /\ \A n : Ahead(RingHead, n)' = Ahead(RingHead, n)
  BY <1>1 DEF RingHead, Ahead
<1>3. InRing' = InRing /\ Taken' = Taken /\ Fulfilled' = Fulfilled /\ Returned' = Taken
  <2>1. InRing' = InRing
    BY <1>1, <1>2 DEF InRing, Dist
  <2>2. Taken' = Taken
    BY <1>1, <2>1 DEF Taken
  <2>3. Fulfilled' = Fulfilled
    BY <1>1, <2>2 DEF Fulfilled
  <2>4. QED
    BY <1>1, <2>1, <2>2, <2>3 DEF Returned
<1>4. WindowInv'
  BY <1>1, <1>3 DEF RingInv, WindowInv
<1>5. BatchInv'
  BY <1>1, <1>3 DEF RingInv, BatchInv
<1>6. SlotInv'
  BY <1>1, <1>2, <1>3 DEF RingInv, SlotInv
<1>7. FutureInv'
  <2>1. Head(arrived) = "cyclic"
    <3>1. /\ arrived \in Seq({"app", "cyclic"}) /\ arrived # <<>>
          /\ app # "directReceive"
      BY DEF TypeOK, ThreadInv
    <3>2. Len(arrived) \in Nat /\ Len(arrived) # 0
      BY <3>1, EmptySeq
    <3>3. 1 \in 1 .. Len(arrived) /\ arrived[1] \in {"app", "cyclic"}
      BY <3>1, <3>2
    <3>4. QED
      BY <3>1, <3>3 DEF LinkInv
  <2>2. \A k \in Ids : (\E i \in 1 .. Len(pkt) : pkt[i] = k) <=> Fulfilled <= k /\ k < Taken
    <3>1. PICK n \in Nat : n = Len(pkt) /\ n = Taken - Fulfilled
      BY <1>1, Quantities DEF RingInv, BatchInv
    <3>2. \A i \in 1 .. n : pkt[i] = Fulfilled + i - 1
      BY <1>1, <3>1 DEF RingInv, BatchInv
    <3>3. Fulfilled \in Int /\ Taken \in Int
      BY Quantities
    <3>4. ASSUME NEW k \in Ids, Fulfilled <= k, k < Taken
          PROVE  \E i \in 1 .. n : pkt[i] = k
      <4>1. k - Fulfilled + 1 \in 1 .. n
        BY <3>1, <3>3, <3>4 DEF Ids
      <4>2. pkt[k - Fulfilled + 1] = k
        BY <3>2, <3>3, <4>1 DEF Ids
      <4>3. QED
        BY <4>1, <4>2
    <3>5. ASSUME NEW k \in Ids, NEW i \in 1 .. n, pkt[i] = k
          PROVE  Fulfilled <= k /\ k < Taken
      BY <3>1, <3>2, <3>3, <3>5 DEF Ids
    <3>6. QED
      BY <3>1, <3>4, <3>5
  <2>3. Returned = Fulfilled /\ Fulfilled \in Int /\ Taken \in Int /\ Fulfilled <= Taken
    BY <1>1, Quantities DEF Returned
  <2>4. \A k \in Ids : exchanged[k] = IF k < Fulfilled THEN 1 ELSE 0
    BY <2>3 DEF RingInv, FutureInv
  <2>5. \A k \in Ids : exchanged'[k] = IF Fulfilled <= k /\ k < Taken
                                       THEN exchanged[k] + 1 ELSE exchanged[k]
    BY <2>1, <2>2
  <2>6. \A k \in Ids : exchanged'[k] = IF k < Taken THEN 1 ELSE 0
    BY <2>3, <2>4, <2>5 DEF Ids
  <2>7. QED
    BY <1>1, <1>3, <2>6 DEF RingInv, FutureInv
<1>8. QED
  BY <1>3, <1>1, <1>4, <1>5, <1>6, <1>7 DEF RingInv, NeverAborts

\* What was taken from the ring becomes the state other passes start from.
LEMMA PublishReaderRing ==
  ASSUME TypeOK, RingInv, PublishReader
  PROVE  RingInv'
<1> USE DEF PublishReader, appVars, netVars
<1>1. /\ cyc = "notify" /\ InPass /\ cyc' = "sleep" /\ ~InPass' /\ Enqueueing' = Enqueueing
      /\ promises = <<>> /\ acyclicReaderPtr' = rp
      /\ UNCHANGED <<appVars, future, acyclicMessages, acyclicPromises,
                     acyclicWriterPtr, promises, exchanged, aborted>>
  BY DEF InPass, Enqueueing
<1>2. /\ RingHead' = RingHead /\ \A n : Ahead(RingHead, n)' = Ahead(RingHead, n)
  BY <1>1 DEF RingHead, Ahead
<1>3. InRing' = InRing /\ Taken' = Taken /\ Fulfilled' = Fulfilled /\ Returned' = Returned
  <2>1. InRing' = InRing
    BY <1>1, <1>2 DEF InRing, Dist
  <2>2. Taken' = Taken
    BY <1>1, <2>1 DEF Taken
  <2>3. Fulfilled' = Fulfilled
    BY <1>1, <2>2 DEF Fulfilled
  <2>4. QED
    BY <1>1, <2>1, <2>2, <2>3 DEF Returned
<1>4. WindowInv'
  BY <1>1, <1>3 DEF RingInv, WindowInv
<1>5. BatchInv'
  BY <1>1, <1>3 DEF RingInv, BatchInv
<1>6. SlotInv'
  BY <1>1, <1>2, <1>3 DEF RingInv, SlotInv
<1>7. FutureInv'
  BY <1>1, <1>3 DEF RingInv, FutureInv
<1>8. QED
  BY <1>1, <1>4, <1>5, <1>6, <1>7 DEF RingInv, NeverAborts

\* The head of the ring becomes the last of the batch.
LEMMA DrainSlotRing ==
  ASSUME TypeOK, RingInv, DrainSlot
  PROVE  RingInv'
<1> USE DEF DrainSlot, appVars, netVars
<1>1. /\ cyc = "drain" /\ InPass /\ cyc' = cyc /\ InPass' /\ Enqueueing' = Enqueueing
      /\ wp # rp /\ RingHead = rp /\ rp' = NextSlot(rp) /\ RingHead' = NextSlot(rp)
      /\ acyclicPromises' = [acyclicPromises EXCEPT ![rp] = MovedPromise]
      /\ UNCHANGED <<appVars, future, acyclicMessages, acyclicReaderPtr,
                     acyclicWriterPtr, wp, exchanged>>
  BY DEF InPass, Enqueueing, RingHead
<1>2. /\ rp \in Slots /\ wp \in Slots /\ acyclicWriterPtr \in Slots /\ InRing \in Slots
      /\ issued \in Int /\ Taken \in Int /\ Fulfilled \in Int
      /\ Taken = issued - InRing /\ Fulfilled <= Taken
  BY Quantities DEF TypeOK
<1>3. InRing = Dist(rp, acyclicWriterPtr) /\ Dist(rp, wp) <= InRing
  BY <1>1 DEF InRing, RingInv, BatchInv
<1>4. InRing > 0 /\ rp # acyclicWriterPtr
  <2>1. Dist(rp, wp) \in Slots /\ Dist(rp, wp) # 0
    BY <1>1, <1>2, RingArithmetic
  <2>2. InRing # 0
    BY <1>2, <1>3, <2>1 DEF Slots
  <2>3. QED
    BY <1>2, <1>3, <2>2, RingArithmetic DEF Slots
<1>5. InRing' = InRing - 1
  <2>1. InRing' = Dist(NextSlot(rp), acyclicWriterPtr)
    BY <1>1 DEF InRing, Dist
  <2>2. QED
    BY <1>2, <1>3, <1>4, <2>1, DistSteps
<1>6. acyclicMessages[rp] = Taken /\ acyclicPromises[rp] = Taken
  <2>1. 0 \in 0 .. InRing - 1 /\ Ahead(RingHead, 0) = rp
    BY <1>1, <1>2, <1>4, RingArithmetic DEF Slots
  <2>2. QED
    BY <1>2, <2>1 DEF RingInv, SlotInv
<1>7. Taken \in Ids
  BY <1>2, <1>4 DEF RingInv, WindowInv, TypeOK, Ids, Slots
<1>8. /\ Taken' = Taken + 1 /\ Fulfilled' = Fulfilled /\ Returned' = Returned
      /\ Len(promises') = Len(promises) + 1 /\ Len(pkt') = Len(pkt) + 1
  <2>1. Taken' = Taken + 1
    BY <1>1, <1>2, <1>5 DEF Taken, Slots
  <2>2. promises \in Seq(Ids \cup {FreshPromise, MovedPromise}) /\ pkt \in Seq(Ids \cup {NoDatagram})
    BY DEF TypeOK
  <2>3. promises' = Append(promises, Taken) /\ pkt' = Append(pkt, Taken)
    BY <1>6 DEF PushPromise
  <2>4. Len(promises') = Len(promises) + 1 /\ Len(pkt') = Len(pkt) + 1
    BY <1>7, <2>2, <2>3
  <2>5. PICK n \in Nat : n = Len(promises)
    BY Quantities
  <2>6. Fulfilled' = Fulfilled
    BY <1>2, <2>1, <2>4, <2>5 DEF Fulfilled
  <2>7. QED
    BY <1>1, <2>1, <2>4, <2>6 DEF Returned
<1>9. WindowInv'
  BY <1>1, <1>8 DEF RingInv, WindowInv
<1>10. BatchInv'
  <2>1. PICK n \in Nat : n = Len(promises) /\ n = Len(pkt) /\ n = Taken - Fulfilled
    BY <1>1, Quantities DEF RingInv, BatchInv
  <2>2. promises \in Seq(Ids \cup {FreshPromise, MovedPromise}) /\ pkt \in Seq(Ids \cup {NoDatagram})
    BY DEF TypeOK
  <2>3. promises' = Append(promises, Taken) /\ pkt' = Append(pkt, Taken)
    BY <1>6 DEF PushPromise
  <2>4. /\ \A i \in 1 .. n : promises'[i] = promises[i] /\ pkt'[i] = pkt[i]
        /\ promises'[n + 1] = Taken /\ pkt'[n + 1] = Taken
    <3>1. Taken \in Ids \cup {FreshPromise, MovedPromise} /\ Taken \in Ids \cup {NoDatagram}
      BY <1>7
    <3>2. /\ \A i \in 1 .. Len(promises) : promises'[i] = promises[i]
          /\ promises'[Len(promises) + 1] = Taken
      BY <2>2, <2>3, <3>1, AppendProperties
    <3>3. /\ \A i \in 1 .. Len(pkt) : pkt'[i] = pkt[i]
          /\ pkt'[Len(pkt) + 1] = Taken
      BY <2>2, <2>3, <3>1, AppendProperties
    <3>4. QED
      BY <2>1, <3>2, <3>3
  <2>5. \A i \in 1 .. n : promises[i] = Fulfilled + i - 1 /\ pkt[i] = Fulfilled + i - 1
    BY <1>1, <2>1 DEF RingInv, BatchInv
  <2>6. \A i \in 1 .. n + 1 : promises'[i] = Fulfilled + i - 1 /\ pkt'[i] = Fulfilled + i - 1
    <3>1. \A i \in 1 .. n + 1 : i \in 1 .. n \/ i = n + 1
      BY <2>1
    <3>2. Taken = Fulfilled + (n + 1) - 1
      BY <1>2, <2>1
    <3>3. QED
      BY <2>4, <2>5, <3>1, <3>2
  <2>7. Len(promises') = n + 1 /\ Len(pkt') = n + 1
    BY <1>8, <2>1
  <2>8. Dist(rp, wp)' <= InRing'
    <3>1. Dist(rp, wp)' = Dist(NextSlot(rp), wp)
      BY <1>1 DEF Dist
    <3>2. Dist(NextSlot(rp), wp) = Dist(rp, wp) - 1
      BY <1>1, <1>2, DistSteps
    <3>3. Dist(rp, wp) \in Int
      BY <1>2, RingArithmetic DEF Slots
    <3>4. QED
      BY <1>2, <1>3, <1>5, <3>1, <3>2, <3>3 DEF Slots
  <2>9. QED
    BY <1>1, <1>8, <2>6, <2>7, <2>8 DEF BatchInv
<1>11. SlotInv'
  <2>1. \A n \in 0 .. RingSize - 2 :
          /\ n + 1 \in Slots
          /\ Ahead(NextSlot(rp), n) = Ahead(rp, n + 1)
          /\ Ahead(rp, n + 1) \in Slots \ {rp}
    <3>1. ASSUME NEW n \in 0 .. RingSize - 2
          PROVE  n + 1 \in Slots /\ 0 \in Slots /\ n + 1 # 0
      BY DEF Slots
    <3>2. Ahead(rp, 0) = rp /\ \A m \in Slots : Ahead(rp, m) \in Slots
                            /\ (m # 0 => Ahead(rp, m) # Ahead(rp, 0))
      <4>1. 0 \in Slots
        BY DEF Slots
      <4>2. Ahead(rp, 0) = rp /\ \A m \in Slots : Ahead(rp, m) \in Slots
        BY <1>2, RingArithmetic
      <4>3. \A m \in Slots : Ahead(rp, m) = Ahead(rp, 0) => m = 0
        BY <1>2, <4>1, AheadInjective
      <4>4. QED
        BY <4>2, <4>3
    <3>3. \A n \in 0 .. RingSize - 2 : Ahead(NextSlot(rp), n) = Ahead(rp, n + 1)
      BY <1>2, DistSteps
    <3>4. QED
      BY <3>1, <3>2, <3>3
  <2>2. \A n \in 0 .. RingSize - 2 :
          acyclicPromises'[Ahead(NextSlot(rp), n)] = acyclicPromises[Ahead(rp, n + 1)]
    BY <1>1, <2>1 DEF TypeOK
  <2>3. \A n : Ahead(RingHead, n)' = Ahead(NextSlot(rp), n)
    BY <1>1 DEF Ahead
  <2>4. ASSUME NEW n \in 0 .. InRing' - 1
        PROVE  /\ acyclicMessages[Ahead(NextSlot(rp), n)] = Taken' + n
               /\ acyclicPromises'[Ahead(NextSlot(rp), n)] = Taken' + n
    <3>1. n \in 0 .. RingSize - 2 /\ n + 1 \in 0 .. InRing - 1
      BY <1>2, <1>5 DEF Slots
    <3>2. /\ acyclicMessages[Ahead(rp, n + 1)] = Taken + (n + 1)
          /\ acyclicPromises[Ahead(rp, n + 1)] = Taken + (n + 1)
      BY <1>1, <3>1 DEF RingInv, SlotInv
    <3>3. Taken + (n + 1) = Taken' + n
      BY <1>2, <1>8, <3>1
    <3>4. QED
      BY <2>1, <2>2, <3>1, <3>2, <3>3
  <2>5. ASSUME NEW n \in InRing' .. RingSize - 1
        PROVE  \/ acyclicPromises'[Ahead(NextSlot(rp), n)] \in {FreshPromise, MovedPromise}
               \/ n = InRing' /\ app' = "advance"
    <3>1. CASE n = RingSize - 1
      <4>1. Ahead(NextSlot(rp), n) = rp
        BY <1>2, <3>1, DistSteps
      <4>2. QED
        BY <1>1, <1>2, <4>1 DEF TypeOK
    <3>2. CASE n # RingSize - 1
      <4>1. n \in 0 .. RingSize - 2 /\ n + 1 \in InRing .. RingSize - 1
        BY <1>2, <1>4, <1>5, <3>2 DEF Slots
      <4>2. \/ acyclicPromises[Ahead(rp, n + 1)] \in {FreshPromise, MovedPromise}
            \/ n + 1 = InRing /\ app = "advance"
        BY <1>1, <4>1 DEF RingInv, SlotInv
      <4>3. n + 1 = InRing => n = InRing'
        BY <1>2, <1>5, <4>1 DEF Slots
      <4>4. QED
        BY <1>1, <2>2, <4>1, <4>2, <4>3
    <3>3. QED
      BY <3>1, <3>2
  <2>6. /\ app \in {"putPromise", "advance"} => acyclicMessages[acyclicWriterPtr] = issued
        /\ app = "advance" => acyclicPromises'[acyclicWriterPtr] = issued
    BY <1>1, <1>2, <1>4 DEF RingInv, SlotInv, TypeOK
  <2>7. QED
    BY <1>1, <2>3, <2>4, <2>5, <2>6 DEF SlotInv
<1>12. FutureInv'
  BY <1>1, <1>8 DEF RingInv, FutureInv
<1>13. NeverAborts'
  <2>1. Taken # NoDatagram
    BY <1>7 DEF Ids, NoDatagram
  <2>2. aborted' = (Taken = NoDatagram)
    BY <1>6
  <2>3. QED
    BY <2>1, <2>2 DEF NeverAborts
<1>14. QED
  BY <1>9, <1>10, <1>11, <1>12, <1>13 DEF RingInv

\* set_value fulfils the oldest request that is not fulfilled yet.
LEMMA NotifyPromiseRing ==
  ASSUME TypeOK, ThreadInv, RingInv, NotifyPromise
  PROVE  /\ RingInv'
         /\ Fulfilled < Taken /\ Fulfilled' = Fulfilled + 1 /\ Taken' = Taken
<1> USE DEF NotifyPromise, appVars, ringVars, netVars
<1>1. /\ cyc = "notify" /\ InPass /\ cyc' = cyc /\ InPass' /\ Enqueueing' = Enqueueing
      /\ promises # <<>> /\ promises' = Tail(promises) /\ app # "gone"
      /\ UNCHANGED <<appVars, ringVars, wp, rp, pkt, exchanged>>
  BY DEF InPass, Enqueueing, ThreadInv
<1>2. /\ RingHead' = RingHead /\ \A n : Ahead(RingHead, n)' = Ahead(RingHead, n)
  BY <1>1 DEF RingHead, Ahead
<1>3. promises \in Seq(Ids \cup {FreshPromise, MovedPromise})
  BY DEF TypeOK
<1>4. PICK n \in Nat : n = Len(promises) /\ n # 0 /\ n = Taken - Fulfilled
  BY <1>1, <1>3, Quantities, EmptySeq
<1>5. /\ Fulfilled \in Nat /\ Taken \in Int /\ issued \in 0 .. MaxRequests /\ Taken <= issued
      /\ Fulfilled < Taken
  BY <1>4, Quantities DEF TypeOK, RingInv, WindowInv
<1>6. Len(promises') = n - 1 /\ \A i \in 1 .. n - 1 : promises'[i] = promises[i + 1]
  BY <1>1, <1>3, <1>4, HeadTailProperties
<1>7. InRing' = InRing /\ Taken' = Taken /\ Fulfilled' = Fulfilled + 1 /\ Returned' = Returned
  <2>1. InRing' = InRing
    BY <1>1, <1>2 DEF InRing, Dist
  <2>2. Taken' = Taken
    BY <1>1, <2>1 DEF Taken
  <2>3. Fulfilled' = Fulfilled + 1
    BY <1>4, <1>5, <1>6, <2>2 DEF Fulfilled
  <2>4. QED
    BY <1>1, <2>1, <2>2, <2>3 DEF Returned
<1>8. \A i \in 1 .. n : promises[i] = Fulfilled + i - 1
  BY <1>4 DEF RingInv, BatchInv
<1>9. Head(promises) = Fulfilled /\ Fulfilled \in Ids
  <2>1. promises[1] = Fulfilled
    BY <1>4, <1>5, <1>8
  <2>2. Fulfilled \in Ids
    BY <1>5 DEF Ids
  <2>3. QED
    BY <2>1, <2>2
<1>10. future[Fulfilled] = "pending"
  <2>1. ~(Fulfilled < Fulfilled) /\ Fulfilled < issued
    BY <1>5
  <2>2. QED
    BY <1>1, <1>9, <2>1 DEF RingInv, FutureInv
<1>11. WindowInv'
  BY <1>1, <1>5, <1>7 DEF RingInv, WindowInv
<1>12. BatchInv'
  <2>1. \A i \in 1 .. n - 1 : promises'[i] = Fulfilled + 1 + i - 1
    BY <1>4, <1>5, <1>6, <1>8
  <2>2. QED
    BY <1>1, <1>6, <1>7, <2>1 DEF BatchInv
<1>13. SlotInv'
  BY <1>1, <1>2, <1>7 DEF RingInv, SlotInv
<1>14. FutureInv'
  <2>1. \A k \in Ids : future'[k] = IF k = Fulfilled THEN "ready" ELSE future[k]
    BY <1>9, <1>10
  <2>2. \A k \in Ids : k < Fulfilled + 1 <=> k < Fulfilled \/ k = Fulfilled
    BY <1>5 DEF Ids
  <2>3. QED
    BY <1>1, <1>7, <2>1, <2>2 DEF RingInv, FutureInv
<1>15. NeverAborts'
  <2>1. Fulfilled # MovedPromise
    BY <1>9 DEF Ids, MovedPromise
  <2>2. QED
    BY <1>9, <1>10, <2>1 DEF NeverAborts
<1>16. QED
  BY <1>5, <1>7, <1>11, <1>12, <1>13, <1>14, <1>15 DEF RingInv

\* The destructor breaks the promises that are left, all of them in the ring.
LEMMA DestroyRing ==
  ASSUME TypeOK, ThreadInv, RingInv, app' = "gone", future' = Abandoned,
         Destroy \/ DestroyJoins
  PROVE  RingInv' /\ Fulfilled' = Fulfilled /\ Returned' = Returned
<1> USE DEF Destroy, DestroyJoins, ringVars, cycVars, netVars
<1>1. /\ app \in {"idle", "joinDestroy"} /\ cyc \in {"absent", "exited"}
      /\ cyc' \in {"absent", "exited"}
      /\ UNCHANGED <<issued, ringVars, wp, rp, pkt, promises, exchanged, aborted>>
  BY DEF ThreadInv
<1>2. ~InPass /\ ~InPass' /\ ~Enqueueing /\ ~Enqueueing' /\ promises = <<>>
  BY <1>1 DEF InPass, Enqueueing, RingInv, BatchInv
<1>3. /\ RingHead' = RingHead /\ \A n : Ahead(RingHead, n)' = Ahead(RingHead, n)
  BY <1>1, <1>2 DEF RingHead, Ahead
<1>4. InRing' = InRing /\ Taken' = Taken /\ Fulfilled' = Fulfilled /\ Returned' = Returned
  <2>1. InRing' = InRing
    BY <1>1, <1>3 DEF InRing, Dist
  <2>2. Taken' = Taken
    BY <1>1, <2>1 DEF Taken
  <2>3. Fulfilled' = Fulfilled
    BY <1>1, <2>2 DEF Fulfilled
  <2>4. QED
    BY <1>1, <2>1, <2>2, <2>3 DEF Returned
<1>5. WindowInv' /\ BatchInv'
  <2>1. Len(promises) = 0
    BY <1>2, EmptySeq
  <2>2. QED
    BY <1>1, <1>2, <1>4, <2>1 DEF RingInv, WindowInv, BatchInv
<1>6. SlotInv'
  BY <1>1, <1>3, <1>4 DEF RingInv, SlotInv
<1>7. FutureInv'
  BY <1>1, <1>2, <1>4 DEF RingInv, FutureInv, Abandoned
<1>8. QED
  BY <1>4, <1>1, <1>5, <1>6, <1>7 DEF RingInv, NeverAborts

\* Every step of a thread or of the network preserves the account of the requests.
LEMMA RingStep == TypeOK /\ ThreadInv /\ LinkInv /\ RingInv /\ [Next]_vars => RingInv'
<1> SUFFICES ASSUME TypeOK, ThreadInv, LinkInv, RingInv, [Next]_vars PROVE RingInv'
  OBVIOUS
<1>1. CASE AppBegins
  <2>1. CASE \/ RegisterCyclicController \/ SendDatagramAcyclic
             \/ (\E k \in Ids : Get(k)) \/ Stop \/ (Destroy /\ app' # "gone")
    <3>1. /\ UNCHANGED <<issued, future, ringVars, cycVars, exchanged, aborted>>
          /\ app = "idle" /\ app' \in {"idle", "directReceive", "get", "join", "joinDestroy"}
      BY <2>1 DEF RegisterCyclicController, SendDatagramAcyclic, Get, Stop, Destroy,
         appVars, netVars
    <3>2. QED
      BY <3>1, RingFrame DEF InPass, Enqueueing, cycVars
  <2>2. CASE Run
    <3>1. /\ UNCHANGED <<app, issued, future, ringVars, wp, rp, pkt, promises, exchanged>>
          /\ cyc = "absent" /\ cyc' = "check" /\ aborted' = FALSE /\ aborted = FALSE
      BY <2>2 DEF Run, ThreadInv, appVars, netVars, RingInv, NeverAborts, TypeOK
    <3>2. aborted' = aborted
      BY <3>1
    <3>3. InPass' = InPass /\ Enqueueing' = Enqueueing
      BY <3>1 DEF InPass, Enqueueing
    <3>4. QED
      BY <3>1, <3>2, <3>3, RingFrame
  <2>3. CASE Destroy /\ app' = "gone"
    BY <2>3, DestroyRing DEF Destroy
  <2>4. CASE SendDatagramCyclic
    BY <2>4, SendDatagramCyclicRing
  <2>5. QED
    BY <1>1, <2>1, <2>2, <2>3, <2>4 DEF AppBegins
<1>2. CASE AppProgress
  <2>1. CASE ReceiveAcyclic \/ GetReturns \/ StopJoins
    <3>1. /\ UNCHANGED <<issued, future, ringVars, wp, rp, pkt, promises, exchanged, aborted>>
          /\ app \in {"directReceive", "get", "join"} /\ app' = "idle"
          /\ cyc' = cyc \/ {cyc, cyc'} \subseteq {"exited", "absent"}
      BY <2>1 DEF ReceiveAcyclic, GetReturns, StopJoins, cycVars, netVars
    <3>2. QED
      BY <3>1, RingFrame DEF InPass, Enqueueing
  <2>2. CASE PutMessage
    BY <2>2, PutMessageRing
  <2>3. CASE PutPromise
    BY <2>3, PutPromiseRing
  <2>4. CASE AdvanceWriter
    BY <2>4, AdvanceWriterRing
  <2>5. CASE DestroyJoins
    BY <2>5, DestroyRing DEF DestroyJoins
  <2>6. QED
    BY <1>2, <2>1, <2>2, <2>3, <2>4, <2>5 DEF AppProgress
<1>3. CASE CyclicThread
  <2>1. CASE CheckRun \/ SendFrame \/ UpdateControllers \/ Wake
    <3>1. /\ UNCHANGED <<app, issued, future, ringVars, wp, rp, pkt, promises, exchanged, aborted>>
          /\ \/ {cyc, cyc'} \subseteq {"check", "collect", "exited", "sleep"}
             \/ cyc = "drain" /\ cyc' = "receive"
             \/ cyc = "update" /\ cyc' = "notify"
      BY <2>1 DEF CheckRun, SendFrame, UpdateControllers, Wake, appVars, netVars
    <3>2. QED
      BY <3>1, RingFrame DEF InPass, Enqueueing
  <2>2. CASE CollectControllers
    BY <2>2, CollectControllersRing
  <2>3. CASE Snapshot
    BY <2>3, SnapshotRing
  <2>4. CASE DrainSlot
    BY <2>4, DrainSlotRing
  <2>5. CASE ReceiveFrame
    BY <2>5, ReceiveFrameRing
  <2>6. CASE NotifyPromise
    BY <2>6, NotifyPromiseRing
  <2>7. CASE PublishReader
    BY <2>7, PublishReaderRing
  <2>8. QED
    BY <1>3, <2>1, <2>2, <2>3, <2>4, <2>5, <2>6, <2>7 DEF CyclicThread
<1>4. CASE Deliver \/ Lose \/ UNCHANGED vars
  <2>1. UNCHANGED <<app, cyc, issued, future, ringVars, wp, rp, pkt, promises, exchanged, aborted>>
    BY <1>4 DEF Deliver, Lose, vars, appVars, cycVars, netVars
  <2>2. QED
    BY <2>1, RingFrame DEF InPass, Enqueueing
<1>5. QED
  BY <1>1, <1>2, <1>3, <1>4 DEF Next, Gone

--------------------------------------------------------------------------------
(* The theorems.                                                               *)

\* IInv is inductive: it holds initially and every step of either thread and of
\* the network preserves it.
THEOREM Inductive == Spec => []IInv
<1>1. Init => IInv
  BY InitInv
<1>2. IInv /\ [Next]_vars => IInv'
  BY TypeStep, ThreadStep, LinkStep, RingStep DEF IInv, RingInv
<1>3. QED
  BY <1>1, <1>2, PTL DEF Spec

\* Every variable of CyclicCommunicationManager and of its thread keeps its type:
\* the ring's pointers stay inside the ring.
THEOREM TypeCorrect == Spec => []TypeOK
<1>1. IInv => TypeOK
  BY DEF IInv
<1>2. QED
  BY <1>1, Inductive, PTL

\* A future returned by SendDatagram is ready only once its datagram has been
\* round the slaves, exactly once.
THEOREM RepliesPrecedeFutures == Spec => []FutureImpliesReply
<1>1. IInv => FutureImpliesReply
  <2> SUFFICES ASSUME IInv, NEW k \in Ids
               PROVE  /\ exchanged[k] <= 1
                      /\ future[k] = "ready" => exchanged[k] = 1
    BY DEF FutureImpliesReply
  <2>1. exchanged[k] = IF k < Returned THEN 1 ELSE 0
    BY DEF IInv, FutureInv
  <2>2. Returned \in Int /\ Fulfilled \in Int /\ Fulfilled <= Returned
    BY Quantities DEF IInv, Returned
  <2>3. future[k] = "ready" => k < Fulfilled
    BY DEF IInv, FutureInv
  <2>4. QED
    BY <2>1, <2>2, <2>3 DEF Ids
<1>2. QED
  BY <1>1, Inductive, PTL

\* Only the destructor of the manager breaks a promise, and it leaves none behind.
THEOREM PromisesKept == Spec => []AbandonedOnlyAtDestruction
<1>1. IInv => AbandonedOnlyAtDestruction
  <2> SUFFICES ASSUME IInv, NEW k \in Ids
               PROVE  /\ future[k] = "broken" => app = "gone"
                      /\ app = "gone" => future[k] # "pending"
    BY DEF AbandonedOnlyAtDestruction, Pending
  <2>1. QED
    BY DEF IInv, FutureInv, Enqueueing
<1>2. QED
  BY <1>1, Inductive, PTL

\* The futures of the requests in the ring become ready in the order of the calls.
THEOREM InOrder == Spec => []CompletionInOrder
<1>1. IInv => CompletionInOrder
  <2> SUFFICES ASSUME IInv, NEW j \in Ids, NEW k \in Ids, j < k, future[k] = "ready"
               PROVE  future[j] = "ready"
    BY DEF CompletionInOrder
  <2>1. k < Fulfilled /\ Fulfilled \in Int
    BY Quantities DEF IInv, FutureInv
  <2>2. j < Fulfilled
    BY <2>1 DEF Ids
  <2>3. QED
    BY <2>2 DEF IInv, FutureInv
<1>2. QED
  BY <1>1, Inductive, PTL

\* The process dies neither of a null datagram, nor of set_value on a spent
\* promise, nor of starting a thread over one that was not joined.
THEOREM Survives == Spec => []NeverAborts
<1>1. IInv => NeverAborts
  BY DEF IInv
<1>2. QED
  BY <1>1, Inductive, PTL

\* The application's thread and the cyclic thread never use the link together.
THEOREM OneUser == Spec => []LinkHasOneUser
<1>1. IInv => LinkHasOneUser
  <2> SUFFICES ASSUME IInv PROVE LinkHasOneUser
    OBVIOUS
  <2>1. ~(app = "directReceive" /\ cyc = "receive")
    BY DEF IInv, ThreadInv
  <2>2. QED
    BY <2>1 DEF IInv, LinkInv, LinkHasOneUser
<1>2. QED
  BY <1>1, Inductive, PTL

\* No controller joins between GetDatagram and UpdateData of a pass.
THEOREM FramesComplete == Spec => []FrameCoversControllers
<1>1. IInv => FrameCoversControllers
  BY DEF IInv
<1>2. QED
  BY <1>1, Inductive, PTL

--------------------------------------------------------------------------------
(* The manager implements DatagramService.                                     *)

\* What a caller sees of request k, in terms of the counts of the invariant.
StatusView ==
  [k \in Ids |-> IF k < Fulfilled THEN "ready"
                 ELSE IF k < Returned THEN "exchanged"
                 ELSE IF k < issued THEN (IF app = "gone" THEN "broken" ELSE "queued")
                 ELSE "idle"]

\* What the service shows of a request is told by the range it is in.
LEMMA StatusCounted == IInv => ServiceStatus = StatusView
<1> SUFFICES ASSUME IInv, NEW k \in Ids
             PROVE  (IF future[k] \in {"ready", "broken"} THEN future[k]
                     ELSE IF exchanged[k] > 0 THEN "exchanged"
                     ELSE IF k < issued THEN "queued"
                     ELSE "idle") = StatusView[k]
  BY DEF ServiceStatus, StatusView
<1>1. /\ exchanged[k] = IF k < Returned THEN 1 ELSE 0
      /\ future[k] = IF k < Fulfilled THEN "ready"
                     ELSE IF k < issued THEN (IF app = "gone" THEN "broken" ELSE "pending")
                     ELSE IF k = issued /\ Enqueueing THEN "pending"
                     ELSE "none"
  BY DEF IInv, FutureInv
<1>2. app = "gone" => Returned = Fulfilled
  <2>1. app = "gone" => ~InPass /\ promises = <<>>
    BY DEF IInv, ThreadInv, BatchInv, InPass
  <2>2. Len(promises) = Taken - Fulfilled /\ Taken \in Int /\ Fulfilled \in Int
    BY Quantities DEF IInv
  <2>3. promises = <<>> => Len(promises) = 0
    BY EmptySeq
  <2>4. QED
    BY <2>1, <2>2, <2>3 DEF Returned, InPass
<1>3. /\ Returned \in Int /\ Fulfilled \in Int /\ issued \in Int
      /\ Returned <= issued
  BY Quantities DEF IInv, TypeOK, Returned
<1>4. QED
  BY <1>1, <1>2, <1>3 DEF StatusView, Ids

\* Every step of the manager is a step of the service or leaves it as it is.
LEMMA ServiceStep == IInv /\ IInv' /\ [Next]_vars => [Service!Next]_ServiceStatus
<1> SUFFICES ASSUME IInv, IInv', [Next]_vars PROVE [Service!Next]_ServiceStatus
  OBVIOUS
<1>1. ServiceStatus = StatusView /\ ServiceStatus' = StatusView'
  <2>1. ServiceStatus = StatusView
    BY StatusCounted
  <2>2. (ServiceStatus = StatusView)'
    BY StatusCounted, PTL
  <2>3. QED
    BY <2>1, <2>2
<1>2. /\ Returned \in Int /\ Fulfilled \in Nat /\ Taken \in Int /\ issued \in 0 .. MaxRequests
      /\ Fulfilled <= Returned /\ Returned <= Taken /\ Taken <= issued
  <2>1. /\ Taken \in Int /\ Fulfilled \in Int /\ Fulfilled <= Taken /\ Taken <= issued
        /\ issued \in 0 .. MaxRequests /\ Fulfilled >= 0
    BY Quantities DEF IInv, TypeOK, WindowInv
  <2>2. QED
    BY <2>1 DEF Returned
<1>3. CASE UNCHANGED <<future, exchanged, issued>>
  BY <1>3 DEF ServiceStatus
<1>4. CASE SendDatagramCyclic
  <2>1. /\ Fulfilled' = Fulfilled /\ Returned' = Returned
        /\ issued' = issued /\ (app' = "gone" <=> app = "gone")
    BY <1>4 DEF SendDatagramCyclic, Fulfilled, Returned, Taken, InRing, RingHead, InPass,
       Dist, ringVars, cycVars
  <2>2. QED
    BY <1>1, <2>1 DEF StatusView
<1>5. CASE PutPromise
  <2>1. /\ Fulfilled' = Fulfilled /\ Returned' = Returned
        /\ issued' = issued /\ (app' = "gone" <=> app = "gone")
    BY <1>5 DEF PutPromise, Fulfilled, Returned, Taken, InRing, RingHead, InPass,
       Dist, cycVars
  <2>2. QED
    BY <1>1, <2>1 DEF StatusView
<1>6. CASE AdvanceWriter
  <2>1. /\ Fulfilled' = Fulfilled /\ Returned' = Returned /\ issued' = issued + 1
        /\ app = "advance" /\ app' = "idle" /\ issued \in Ids
    BY <1>6, AdvanceWriterRing DEF IInv, RingInv, AdvanceWriter, ThreadInv, Enqueueing,
       TypeOK, Ids
  <2>2. ServiceStatus[issued] = "idle" /\ \A j \in 0 .. issued - 1 : ServiceStatus[j] # "idle"
    BY <1>1, <1>2, <2>1 DEF StatusView, Ids
  <2>3. ServiceStatus' = [ServiceStatus EXCEPT ![issued] = "queued"]
    BY <1>1, <1>2, <2>1 DEF StatusView, Ids
  <2>4. Service!Accept(issued)
    BY <2>2, <2>3 DEF Service!Accept
  <2>5. QED
    BY <2>1, <2>4 DEF Service!Next, Service!Ids, Ids
<1>7. CASE ReceiveFrame
  <2>1. /\ Fulfilled' = Fulfilled /\ Returned' = Taken /\ issued' = issued
        /\ Returned = Fulfilled /\ app' = app /\ app # "gone"
    BY <1>7, ReceiveFrameRing DEF IInv, RingInv, ReceiveFrame, ThreadInv, Returned, appVars
  <2>2. CASE Taken = Fulfilled
    BY <1>1, <2>1, <2>2 DEF StatusView
  <2>3. CASE Taken > Fulfilled
    <3>1. Fulfilled \in Ids /\ Fulfilled < Taken /\ ServiceStatus[Fulfilled] = "queued"
      BY <1>1, <1>2, <2>1, <2>3 DEF StatusView, Ids
    <3>2. ServiceStatus' = [k \in Ids |-> IF k < Taken /\ ServiceStatus[k] = "queued"
                                          THEN "exchanged" ELSE ServiceStatus[k]]
      BY <1>1, <1>2, <2>1, <2>3 DEF StatusView, Ids
    <3>3. Service!Exchange(Taken)
      BY <3>1, <3>2 DEF Service!Exchange, Service!Ids, Ids
    <3>4. Taken \in 1 .. MaxRequests
      BY <1>2, <2>3
    <3>5. QED
      BY <3>3, <3>4 DEF Service!Next
  <2>4. QED
    BY <1>2, <2>1, <2>2, <2>3
<1>8. CASE NotifyPromise
  <2>1. /\ Fulfilled' = Fulfilled + 1 /\ Returned' = Returned /\ issued' = issued
        /\ Returned = Taken /\ Fulfilled < Taken /\ app' = app /\ app # "gone"
    BY <1>8, NotifyPromiseRing DEF IInv, RingInv, NotifyPromise, ThreadInv, Returned, appVars
  <2>2. /\ Fulfilled \in Ids /\ ServiceStatus[Fulfilled] = "exchanged"
        /\ \A j \in 0 .. Fulfilled - 1 : ServiceStatus[j] = "ready"
    BY <1>1, <1>2, <2>1 DEF StatusView, Ids
  <2>3. ServiceStatus' = [ServiceStatus EXCEPT ![Fulfilled] = "ready"]
    BY <1>1, <1>2, <2>1 DEF StatusView, Ids
  <2>4. Service!Report(Fulfilled)
    BY <2>2, <2>3 DEF Service!Report
  <2>5. QED
    BY <2>2, <2>4 DEF Service!Next, Service!Ids, Ids
<1>9. CASE (Destroy \/ DestroyJoins) /\ app' = "gone"
  <2>1. /\ Fulfilled' = Fulfilled /\ Returned' = Returned /\ issued' = issued /\ app # "gone"
    BY <1>9, DestroyRing DEF IInv, RingInv, Destroy, DestroyJoins
  <2>2. Returned = Fulfilled
    <3>1. ~InPass /\ promises = <<>>
      BY <1>9 DEF Destroy, DestroyJoins, IInv, ThreadInv, BatchInv, InPass
    <3>2. Len(promises) = 0 /\ Len(promises) = Taken - Fulfilled
      BY <3>1, EmptySeq, Quantities DEF IInv
    <3>3. QED
      BY <1>2, <3>1, <3>2 DEF Returned, InPass
  <2>3. \A k \in Ids : ServiceStatus[k] # "exchanged"
    BY <1>1, <2>2 DEF StatusView
  <2>4. ServiceStatus' = [k \in Ids |-> IF ServiceStatus[k] = "queued"
                                        THEN "broken" ELSE ServiceStatus[k]]
    BY <1>1, <1>9, <2>1, <2>2 DEF StatusView
  <2>5. Service!Abandon
    BY <2>3, <2>4 DEF Service!Abandon, Service!Ids, Ids
  <2>6. QED
    BY <2>5 DEF Service!Next
<1>10. QED
  <2>1. CASE AppBegins
    BY <1>3, <1>4, <1>9, <2>1 DEF AppBegins, RegisterCyclicController, SendDatagramAcyclic,
       Get, Run, Stop, Destroy, appVars, netVars
  <2>2. CASE AppProgress
    BY <1>3, <1>5, <1>6, <1>9, <2>2 DEF AppProgress, ReceiveAcyclic, PutMessage,
       GetReturns, StopJoins, DestroyJoins, appVars, netVars
  <2>3. CASE CyclicThread
    BY <1>3, <1>7, <1>8, <2>3 DEF CyclicThread, CheckRun, CollectControllers, Snapshot,
       DrainSlot, SendFrame, UpdateControllers, PublishReader, Wake, appVars, netVars
  <2>4. CASE Deliver \/ Lose \/ UNCHANGED vars
    BY <1>3, <2>4 DEF Deliver, Lose, vars, appVars, netVars
  <2>5. QED
    BY <2>1, <2>2, <2>3, <2>4 DEF Next, Gone

\* Seen through the futures, the manager is a DatagramService: requests accepted in
\* order travel together, come back once, and are reported in order.
THEOREM Implements == Spec => ImplementsService
<1>1. Init => Service!Init
  <2>1. Init => ServiceStatus = [k \in Ids |-> "idle"]
    BY DEF Init, ServiceStatus, Ids
  <2>2. QED
    BY <2>1 DEF Service!Init, Service!Ids, Ids
<1>2. IInv /\ IInv' /\ [Next]_vars => [Service!Next]_ServiceStatus
  BY ServiceStep
<1>3. QED
  BY <1>1, <1>2, Inductive, PTL DEF Spec, ImplementsService, Service!Spec
================================================================================
