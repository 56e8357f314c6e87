----------------------------- MODULE CyclicManager -----------------------------
(***************************************************************************)
(* EtherCAT::CyclicCommunicationManager: the application thread hands       *)
(* datagrams to the real-time cyclic thread through a ring of              *)
(* ACYCLIC_REQUEST_MAX slots and waits on the std::future of each.          *)
(*                                                                         *)
(* Two threads run.  The application thread (app) is the only one that      *)
(* calls the public operations: the library has no lock, and every caller   *)
(* in the repository runs on main's thread.  The cyclic thread (cyc) is     *)
(* the one Run starts.  Every access to state the two share is a step of    *)
(* its own, in program order: the Makefiles build without optimisation and  *)
(* for hosts that keep the order of stores.                                 *)
(*                                                                         *)
(* A request that goes through the ring is named by its rank in the order   *)
(* of the SendDatagram calls.  Both the datagram and the promise of request *)
(* k are written k.                                                        *)
(***************************************************************************)
EXTENDS Integers, Sequences, FiniteSets

CONSTANTS
  RingSize,        \* ACYCLIC_REQUEST_MAX
  Window,          \* how many unfulfilled futures the application may hold
  MaxRequests,     \* bound: SendDatagram calls that go through the ring
  MaxControllers,  \* bound: RegisterCyclicController calls
  MaxLost          \* bound: frames the network loses

ASSUME RingAssumption == RingSize \in Nat /\ RingSize >= 2
\* The code has no check for a full ring (the TODO of SendDatagram): what
\* keeps it from filling up is the restraint of its callers.
ASSUME WindowAssumption == Window \in 1 .. RingSize - 1
ASSUME BoundAssumption ==
  MaxRequests \in Nat /\ MaxControllers \in Nat /\ MaxLost \in Nat

Slots == 0 .. RingSize - 1
Ids == 0 .. MaxRequests - 1

NoDatagram   == -1  \* a null Datagram::Pointer
FreshPromise == -1  \* default constructed: a shared state nobody waits on
MovedPromise == -2  \* moved from: no shared state

VARIABLES
  app,                \* where the application thread is
  awaited,            \* the request whose future it waits on, in "get"
  issued,             \* requests whose enqueueing is complete
  future,             \* what the future of each request shows
  acyclicMessages, acyclicPromises,
  acyclicReaderPtr, acyclicWriterPtr,
  runCyclicThread,
  cyclicControllers,  \* how many controllers are registered
  cyc,                \* where the cyclic thread is
  wp, rp,             \* its locals wp and rp
  inFrame,            \* controllers whose datagram is in the packet
  pkt,                \* acyclic datagrams in the packet
  promises,           \* its local queue of promises
  flying, arrived,    \* who sent the frames on the wire / in the socket
  lost,               \* frames lost so far
  exchanged,          \* how often each request's datagram came back
  crossed,            \* did a thread receive a frame it had not sent?
  aborted             \* did the process die of an uncaught error?

appVars  == <<app, awaited, issued>>
ringVars == <<acyclicMessages, acyclicPromises, acyclicReaderPtr, acyclicWriterPtr>>
cycVars  == <<cyc, wp, rp, inFrame, pkt, promises>>
netVars  == <<flying, arrived, lost, exchanged, crossed>>
vars == <<appVars, future, ringVars, runCyclicThread, cyclicControllers,
          cycVars, netVars, aborted>>

Init ==
  /\ app = "idle" /\ awaited = 0 /\ issued = 0
  /\ future = [k \in Ids |-> "none"]
  /\ acyclicMessages = [s \in Slots |-> NoDatagram]
  /\ acyclicPromises = [s \in Slots |-> FreshPromise]
  /\ acyclicReaderPtr = 0 /\ acyclicWriterPtr = 0
  /\ runCyclicThread = FALSE
  /\ cyclicControllers = 0
  /\ cyc = "absent" /\ wp = 0 /\ rp = 0
  /\ inFrame = 0 /\ pkt = <<>> /\ promises = <<>>
  /\ flying = <<>> /\ arrived = <<>> /\ lost = 0
  /\ exchanged = [k \in Ids |-> 0]
  /\ crossed = FALSE /\ aborted = FALSE

--------------------------------------------------------------------------------
(* Faulty variants, for mutation analysis: each is what a definition below     *)
(* would be if the code had the bug its name tells.                            *)

PushPromiseOnTop(q, p) == <<p>> \o q

RegisterWhileRunning ==
  /\ app = "idle"
  /\ cyclicControllers < MaxControllers
  /\ cyclicControllers' = cyclicControllers + 1
  /\ UNCHANGED <<appVars, future, ringVars, runCyclicThread, cycVars, netVars, aborted>>

StopWithoutJoin ==
  /\ app = "join"
  /\ app' = "idle"
  /\ UNCHANGED <<awaited, issued, future, ringVars, runCyclicThread,
                 cyclicControllers, cycVars, netVars, aborted>>

CheckRunCached ==
  /\ cyc = "check"
  /\ cyc' = "collect"
  /\ UNCHANGED <<appVars, future, ringVars, runCyclicThread, cyclicControllers,
                 wp, rp, inFrame, pkt, promises, netVars, aborted>>

SnapshotOneAhead ==
  /\ cyc = "snapshot"
  /\ wp' = (acyclicWriterPtr + 1) % RingSize
  /\ rp' = acyclicReaderPtr
  /\ cyc' = "drain"
  /\ UNCHANGED <<appVars, future, ringVars, runCyclicThread, cyclicControllers,
                 inFrame, pkt, promises, netVars, aborted>>

SendFrameUnawaited ==
  /\ cyc = "drain"
  /\ wp = rp
  /\ flying' = Append(flying, "cyclic")
  /\ cyc' = "update"
  /\ UNCHANGED <<appVars, future, ringVars, runCyclicThread, cyclicControllers,
                 wp, rp, inFrame, pkt, promises, arrived, lost, exchanged, crossed, aborted>>

PublishNothing ==
  /\ cyc = "notify"
  /\ promises = <<>>
  /\ cyc' = "sleep"
  /\ UNCHANGED <<appVars, future, ringVars, runCyclicThread, cyclicControllers,
                 wp, rp, inFrame, pkt, promises, netVars, aborted>>

PublishCurrentWriter ==
  /\ cyc = "notify"
  /\ promises = <<>>
  /\ acyclicReaderPtr' = acyclicWriterPtr
  /\ cyc' = "sleep"
  /\ UNCHANGED <<appVars, future, acyclicMessages, acyclicPromises,
                 acyclicWriterPtr, runCyclicThread, cyclicControllers, wp, rp,
                 inFrame, pkt, promises, netVars, aborted>>

--------------------------------------------------------------------------------
NextSlot(s) == (s + 1) % RingSize

\* promises is a std::queue.
PushPromise(q, p) == Append(q, p)

Pending == {k \in Ids : future[k] = "pending"}

\* The state of the futures once every unfulfilled promise is destroyed.
Abandoned == [k \in Ids |-> IF future[k] = "pending" THEN "broken" ELSE future[k]]

--------------------------------------------------------------------------------
(* The application thread.                                                     *)

\* With the cyclic thread running the call throws and registers nothing.
RegisterCyclicController ==
  /\ app = "idle"
  /\ ~runCyclicThread
  /\ cyclicControllers < MaxControllers
  /\ cyclicControllers' = cyclicControllers + 1
  /\ UNCHANGED <<appVars, future, ringVars, runCyclicThread, cycVars, netVars, aborted>>

\* SendDatagram without a cyclic thread: exchange the datagram on the caller's
\* thread, then return a future that is already fulfilled.
SendDatagramAcyclic ==
  /\ app = "idle"
  /\ ~runCyclicThread
  /\ flying' = Append(flying, "app")
  /\ app' = "directReceive"
  /\ UNCHANGED <<awaited, issued, future, ringVars, runCyclicThread,
                 cyclicControllers, cycVars, arrived, lost, exchanged, crossed, aborted>>

ReceiveAcyclic ==
  /\ app = "directReceive"
  /\ arrived # <<>>
  /\ arrived' = Tail(arrived)
  /\ crossed' = (crossed \/ Head(arrived) # "app")
  /\ app' = "idle"
  /\ UNCHANGED <<awaited, issued, future, ringVars, runCyclicThread,
                 cyclicControllers, cycVars, flying, lost, exchanged, aborted>>

\* SendDatagram with the cyclic thread running: create the promise, get its
\* future, then fill the slot at the writer pointer.
SendDatagramCyclic ==
  /\ app = "idle"
  /\ runCyclicThread
  /\ issued < MaxRequests
  /\ Cardinality(Pending) < Window
  /\ future' = [future EXCEPT ![issued] = "pending"]
  /\ app' = "putMessage"
  /\ UNCHANGED <<awaited, issued, ringVars, runCyclicThread, cyclicControllers,
                 cycVars, netVars, aborted>>

PutMessage ==
  /\ app = "putMessage"
  /\ acyclicMessages' = [acyclicMessages EXCEPT ![acyclicWriterPtr] = issued]
  /\ app' = "putPromise"
  /\ UNCHANGED <<awaited, issued, future, acyclicPromises, acyclicReaderPtr,
                 acyclicWriterPtr, runCyclicThread, cyclicControllers, cycVars,
                 netVars, aborted>>

\* Assigning over a promise that was not fulfilled breaks its future.
PutPromise ==
  /\ app = "putPromise"
  /\ acyclicPromises' = [acyclicPromises EXCEPT ![acyclicWriterPtr] = issued]
  /\ future' = [k \in Ids |->
                  IF k = acyclicPromises[acyclicWriterPtr] /\ future[k] = "pending"
                  THEN "broken" ELSE future[k]]
  /\ app' = "advance"
  /\ UNCHANGED <<awaited, issued, acyclicMessages, acyclicReaderPtr,
                 acyclicWriterPtr, runCyclicThread, cyclicControllers, cycVars,
                 netVars, aborted>>

\* The read of the pointer and the store of its successor are one step: only
\* this thread writes the pointer.
AdvanceWriter ==
  /\ app = "advance"
  /\ acyclicWriterPtr' = NextSlot(acyclicWriterPtr)
  /\ issued' = issued + 1
  /\ app' = "idle"
  /\ UNCHANGED <<awaited, future, acyclicMessages, acyclicPromises,
                 acyclicReaderPtr, runCyclicThread, cyclicControllers, cycVars,
                 netVars, aborted>>

\* future.get(), as every caller in slave.cpp does after SendDatagram.
Get(k) ==
  /\ app = "idle"
  /\ future[k] = "pending"
  /\ app' = "get"
  /\ awaited' = k
  /\ UNCHANGED <<issued, future, ringVars, runCyclicThread, cyclicControllers,
                 cycVars, netVars, aborted>>

GetReturns ==
  /\ app = "get"
  /\ future[awaited] # "pending"
  /\ app' = "idle"
  /\ UNCHANGED <<awaited, issued, future, ringVars, runCyclicThread,
                 cyclicControllers, cycVars, netVars, aborted>>

\* Assigning to a std::thread that is still joinable ends the process.
Run ==
  /\ app = "idle"
  /\ ~runCyclicThread
  /\ runCyclicThread' = TRUE
  /\ cyc' = "check"
  /\ aborted' = (cyc # "absent")
  /\ UNCHANGED <<appVars, future, ringVars, cyclicControllers, wp, rp, inFrame,
                 pkt, promises, netVars>>

Stop ==
  /\ app = "idle"
  /\ runCyclicThread
  /\ runCyclicThread' = FALSE
  /\ app' = "join"
  /\ UNCHANGED <<awaited, issued, future, ringVars, cyclicControllers, cycVars,
                 netVars, aborted>>

StopJoins ==
  /\ app = "join"
  /\ cyc = "exited"
  /\ cyc' = "absent"
  /\ app' = "idle"
  /\ UNCHANGED <<awaited, issued, future, ringVars, runCyclicThread,
                 cyclicControllers, wp, rp, inFrame, pkt, promises, netVars, aborted>>

\* The destructor: Stop, then the members go, the promises with them.
Destroy ==
  /\ app = "idle"
  /\ IF runCyclicThread
     THEN app' = "joinDestroy" /\ future' = future
     ELSE app' = "gone" /\ future' = Abandoned
  /\ runCyclicThread' = FALSE
  /\ UNCHANGED <<awaited, issued, ringVars, cyclicControllers, cycVars, netVars, aborted>>

DestroyJoins ==
  /\ app = "joinDestroy"
  /\ cyc = "exited"
  /\ cyc' = "absent"
  /\ app' = "gone"
  /\ future' = Abandoned
  /\ UNCHANGED <<awaited, issued, ringVars, runCyclicThread, cyclicControllers,
                 wp, rp, inFrame, pkt, promises, netVars, aborted>>

--------------------------------------------------------------------------------
(* The cyclic thread: one pass of the loop of cyclicThread.                    *)

CheckRun ==
  /\ cyc = "check"
  /\ cyc' = IF runCyclicThread THEN "collect" ELSE "exited"
  /\ UNCHANGED <<appVars, future, ringVars, runCyclicThread, cyclicControllers,
                 wp, rp, inFrame, pkt, promises, netVars, aborted>>

\* A fresh packet and a fresh queue, then a datagram of every controller.
CollectControllers ==
  /\ cyc = "collect"
  /\ inFrame' = cyclicControllers
  /\ pkt' = <<>>
  /\ promises' = <<>>
  /\ cyc' = "snapshot"
  /\ UNCHANGED <<appVars, future, ringVars, runCyclicThread, cyclicControllers,
                 wp, rp, netVars, aborted>>

Snapshot ==
  /\ cyc = "snapshot"
  /\ wp' = acyclicWriterPtr
  /\ rp' = acyclicReaderPtr
  /\ cyc' = "drain"
  /\ UNCHANGED <<appVars, future, ringVars, runCyclicThread, cyclicControllers,
                 inFrame, pkt, promises, netVars, aborted>>

\* One iteration of the loop over the ring.  AddDatagram dereferences the
\* message; the promise is moved out of its slot.
DrainSlot ==
  /\ cyc = "drain"
  /\ wp # rp
  /\ aborted' = (acyclicMessages[rp] = NoDatagram)
  /\ pkt' = Append(pkt, acyclicMessages[rp])
  /\ promises' = PushPromise(promises, acyclicPromises[rp])
  /\ acyclicPromises' = [acyclicPromises EXCEPT ![rp] = MovedPromise]
  /\ rp' = NextSlot(rp)
  /\ UNCHANGED <<appVars, future, acyclicMessages, acyclicReaderPtr,
                 acyclicWriterPtr, runCyclicThread, cyclicControllers, cyc, wp,
                 inFrame, netVars>>

SendFrame ==
  /\ cyc = "drain"
  /\ wp = rp
  /\ flying' = Append(flying, "cyclic")
  /\ cyc' = "receive"
  /\ UNCHANGED <<appVars, future, ringVars, runCyclicThread, cyclicControllers,
                 wp, rp, inFrame, pkt, promises, arrived, lost, exchanged, crossed, aborted>>

\* Link::ReceiveData hands over whatever frame the socket holds; only the
\* thread's own frame carries its datagrams back.
ReceiveFrame ==
  /\ cyc = "receive"
  /\ arrived # <<>>
  /\ arrived' = Tail(arrived)
  /\ crossed' = (crossed \/ Head(arrived) # "cyclic")
  /\ exchanged' = [k \in Ids |->
                     IF Head(arrived) = "cyclic" /\ \E i \in 1 .. Len(pkt) : pkt[i] = k
                     THEN exchanged[k] + 1 ELSE exchanged[k]]
  /\ cyc' = "update"
  /\ UNCHANGED <<appVars, future, ringVars, runCyclicThread, cyclicControllers,
                 wp, rp, inFrame, pkt, promises, flying, lost, aborted>>

\* UpdateData of every controller: FlexDrive.tla has what it does.
UpdateControllers ==
  /\ cyc = "update"
  /\ cyc' = "notify"
  /\ UNCHANGED <<appVars, future, ringVars, runCyclicThread, cyclicControllers,
                 wp, rp, inFrame, pkt, promises, netVars, aborted>>

\* set_value throws for a moved-from promise or one already satisfied, and
\* nothing in the thread catches it.
NotifyPromise ==
  /\ cyc = "notify"
  /\ promises # <<>>
  /\ LET p == Head(promises) IN
       /\ future' = [k \in Ids |-> IF k = p /\ future[k] = "pending"
                                   THEN "ready" ELSE future[k]]
       /\ aborted' = (p = MovedPromise \/ (p \in Ids /\ future[p] # "pending"))
  /\ promises' = Tail(promises)
  /\ UNCHANGED <<appVars, ringVars, runCyclicThread, cyclicControllers, cyc, wp,
                 rp, inFrame, pkt, netVars>>

PublishReader ==
  /\ cyc = "notify"
  /\ promises = <<>>
  /\ acyclicReaderPtr' = rp
  /\ cyc' = "sleep"
  /\ UNCHANGED <<appVars, future, acyclicMessages, acyclicPromises,
                 acyclicWriterPtr, runCyclicThread, cyclicControllers, wp, rp,
                 inFrame, pkt, promises, netVars, aborted>>

Wake ==
  /\ cyc = "sleep"
  /\ cyc' = "check"
  /\ UNCHANGED <<appVars, future, ringVars, runCyclicThread, cyclicControllers,
                 wp, rp, inFrame, pkt, promises, netVars, aborted>>

--------------------------------------------------------------------------------
(* The network: a frame goes round the slaves and comes back, or is lost.      *)

Deliver ==
  /\ flying # <<>>
  /\ flying' = Tail(flying)
  /\ arrived' = Append(arrived, Head(flying))
  /\ UNCHANGED <<appVars, future, ringVars, runCyclicThread, cyclicControllers,
                 cycVars, lost, exchanged, crossed, aborted>>

Lose ==
  /\ flying # <<>>
  /\ lost < MaxLost
  /\ flying' = Tail(flying)
  /\ lost' = lost + 1
  /\ UNCHANGED <<appVars, future, ringVars, runCyclicThread, cyclicControllers,
                 cycVars, arrived, exchanged, crossed, aborted>>

--------------------------------------------------------------------------------
\* The steps that finish an operation the application thread has begun.
AppProgress ==
  \/ ReceiveAcyclic \/ PutMessage \/ PutPromise \/ AdvanceWriter
  \/ GetReturns \/ StopJoins \/ DestroyJoins

AppBegins ==
  \/ RegisterCyclicController \/ SendDatagramAcyclic \/ SendDatagramCyclic
  \/ (\E k \in Ids : Get(k))
  \/ Run \/ Stop \/ Destroy

CyclicThread ==
  \/ CheckRun \/ CollectControllers \/ Snapshot \/ DrainSlot \/ SendFrame
  \/ ReceiveFrame \/ UpdateControllers \/ NotifyPromise \/ PublishReader \/ Wake

Gone == app = "gone" /\ UNCHANGED vars

Next == ~aborted /\ (AppBegins \/ AppProgress \/ CyclicThread \/ Deliver \/ Lose \/ Gone)

Spec == Init /\ [][Next]_vars

\* The scheduler runs both threads, sleep_until returns, and a frame that is
\* not lost comes back.  Nothing obliges the application to begin anything.
FairSpec ==
  Spec /\ WF_vars(AppProgress) /\ WF_vars(CyclicThread) /\ WF_vars(Deliver)

--------------------------------------------------------------------------------
(* Properties.                                                                 *)

TypeOK ==
  /\ app \in {"idle", "directReceive", "putMessage", "putPromise", "advance",
              "get", "join", "joinDestroy", "gone"}
  /\ awaited \in Ids \cup {0}
  /\ issued \in 0 .. MaxRequests
  /\ future \in [Ids -> {"none", "pending", "ready", "broken"}]
  /\ acyclicMessages \in [Slots -> Ids \cup {NoDatagram}]
  /\ acyclicPromises \in [Slots -> Ids \cup {FreshPromise, MovedPromise}]
  /\ acyclicReaderPtr \in Slots /\ acyclicWriterPtr \in Slots
  /\ runCyclicThread \in BOOLEAN
  /\ cyclicControllers \in 0 .. MaxControllers
  /\ cyc \in {"absent", "check", "collect", "snapshot", "drain", "receive",
              "update", "notify", "sleep", "exited"}
  /\ wp \in Slots /\ rp \in Slots
  /\ inFrame \in 0 .. MaxControllers
  /\ pkt \in Seq(Ids \cup {NoDatagram})
  /\ promises \in Seq(Ids \cup {FreshPromise, MovedPromise})
  /\ flying \in Seq({"app", "cyclic"}) /\ arrived \in Seq({"app", "cyclic"})
  /\ lost \in 0 .. MaxLost
  /\ exchanged \in [Ids -> Nat]
  /\ crossed \in BOOLEAN /\ aborted \in BOOLEAN

\* A future becomes ready only after its datagram has been round the slaves,
\* and no datagram goes round twice: a caller that returns from get() may read
\* the reply out of the datagram it sent, and a write reaches the slave once.
FutureImpliesReply ==
  \A k \in Ids : /\ exchanged[k] <= 1
                 /\ future[k] = "ready" => exchanged[k] = 1

\* No promise is destroyed unfulfilled, except by the manager's destructor, and
\* that one leaves no future unresolved.
AbandonedOnlyAtDestruction ==
  /\ (\E k \in Ids : future[k] = "broken") => app = "gone"
  /\ app = "gone" => Pending = {}

\* Of the requests that go through the ring, futures become ready in the order of
\* the SendDatagram calls, across wraps of the ring and restarts of the thread.  One
\* that is sent directly, between a Stop and the next Run, overtakes those the
\* stopped thread left in the ring.
CompletionInOrder ==
  \A j, k \in Ids : j < k /\ future[k] = "ready" => future[j] = "ready"

\* The process never dies of a null datagram in the ring, of set_value on a
\* promise that has no state or was already satisfied, or of starting a thread
\* over one that was not joined.
NeverAborts == ~aborted

\* The two threads never use the link at the same time, so neither receives
\* the other's frame: SendDatagram exchanges on the caller's thread only when
\* no cyclic thread is left.
LinkHasOneUser ==
  /\ ~crossed
  /\ ~(app = "directReceive" /\ cyc = "receive")
  /\ Len(flying) + Len(arrived) <= 1

\* A controller whose UpdateData runs had its datagram in the frame of this
\* pass: none is registered between GetDatagram and UpdateData, while the
\* cyclic thread iterates over the vector.
FrameCoversControllers ==
  cyc \in {"snapshot", "drain", "receive", "update"} => inFrame = cyclicControllers

\* A request is served as long as no frame is lost and its caller does not stop
\* the thread under it, whichever moment of a pass it was enqueued at, also one
\* that an earlier Stop left in the ring: get() returns.
EveryFutureResolved ==
  \A k \in Ids :
    future[k] = "pending" ~> future[k] # "pending" \/ ~runCyclicThread \/ lost > 0

\* Unless a frame is lost, Stop and the destructor return: the thread sees the
\* flag and is joined.
StopReturns ==
  app \in {"join", "joinDestroy"} ~> app \in {"idle", "gone"} \/ lost > 0

\* The ring, the batch and the packet implement the service callers rely on.
ServiceStatus ==
  [k \in Ids |->
     IF future[k] \in {"ready", "broken"} THEN future[k]
     ELSE IF exchanged[k] > 0 THEN "exchanged"
     ELSE IF k < issued THEN "queued"
     ELSE "idle"]

Service == INSTANCE DatagramService WITH status <- ServiceStatus

ImplementsService == Service!Spec

--------------------------------------------------------------------------------
(* The inductive invariant.  It places every request in one of four ranges:    *)
(* fulfilled, in the thread's batch, in the ring, not yet issued.              *)

\* How many slots the thread still has to take, going from one slot to another.
Dist(from, to) == IF from <= to THEN to - from ELSE to - from + RingSize

\* The slot n places after s.
Ahead(s, n) == IF s + n < RingSize THEN s + n ELSE s + n - RingSize

\* During a pass the thread's local rp is ahead of acyclicReaderPtr.
InPass == cyc \in {"drain", "receive", "update", "notify"}
RingHead == IF InPass THEN rp ELSE acyclicReaderPtr

InRing == Dist(RingHead, acyclicWriterPtr)
Taken == issued - InRing                \* requests taken from the ring
Fulfilled == Taken - Len(promises)      \* requests whose future is ready
Returned == IF cyc \in {"drain", "receive"} THEN Fulfilled ELSE Taken

Enqueueing == app \in {"putMessage", "putPromise", "advance"}

\* Lifetime of the thread: join is the only way from running to absent.
ThreadInv ==
  /\ app \in {"join", "joinDestroy"} => ~runCyclicThread /\ cyc # "absent"
  /\ app \notin {"join", "joinDestroy"} => (runCyclicThread <=> cyc # "absent")
  /\ cyc = "exited" => ~runCyclicThread
  /\ Enqueueing => runCyclicThread /\ issued < MaxRequests
  /\ app \in {"directReceive", "gone"} => ~runCyclicThread

LinkInv ==
  /\ ~crossed
  /\ Len(flying) + Len(arrived) <= 1
  /\ \A i \in 1 .. Len(flying) : flying[i] = "app" => app = "directReceive"
  /\ \A i \in 1 .. Len(flying) : flying[i] = "cyclic" => cyc = "receive"
  /\ \A i \in 1 .. Len(arrived) : arrived[i] = "app" => app = "directReceive"
  /\ \A i \in 1 .. Len(arrived) : arrived[i] = "cyclic" => cyc = "receive"

\* The requests not yet fulfilled never fill the ring.
WindowInv ==
  /\ issued - Fulfilled <= Window
  /\ Enqueueing => issued - Fulfilled < Window
  /\ Fulfilled >= 0

BatchInv ==
  /\ ~InPass => promises = <<>>
  /\ cyc = "snapshot" => pkt = <<>>
  /\ \A i \in 1 .. Len(promises) : promises[i] = Fulfilled + i - 1
  /\ cyc \in {"drain", "receive"} =>
       /\ Len(pkt) = Len(promises)
       /\ \A i \in 1 .. Len(pkt) : pkt[i] = Fulfilled + i - 1
  /\ cyc = "drain" => Dist(rp, wp) <= InRing

\* What the slots hold, counted from the head of the ring.
SlotInv ==
  /\ \A n \in 0 .. InRing - 1 :
       /\ acyclicMessages[Ahead(RingHead, n)] = Taken + n
       /\ acyclicPromises[Ahead(RingHead, n)] = Taken + n
  /\ \A n \in InRing .. RingSize - 1 :
       \/ acyclicPromises[Ahead(RingHead, n)] \in {FreshPromise, MovedPromise}
       \/ n = InRing /\ app = "advance"
  /\ app \in {"putPromise", "advance"} => acyclicMessages[acyclicWriterPtr] = issued
  /\ app = "advance" => acyclicPromises[acyclicWriterPtr] = issued

FutureInv ==
  \A k \in Ids :
    /\ exchanged[k] = IF k < Returned THEN 1 ELSE 0
    /\ future[k] = IF k < Fulfilled THEN "ready"
                   ELSE IF k < issued THEN (IF app = "gone" THEN "broken" ELSE "pending")
                   ELSE IF k = issued /\ Enqueueing THEN "pending"
                   ELSE "none"

IInv ==
  /\ TypeOK /\ ThreadInv /\ LinkInv /\ WindowInv /\ BatchInv /\ SlotInv /\ FutureInv
  /\ NeverAborts /\ FrameCoversControllers
================================================================================
