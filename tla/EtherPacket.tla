------------------------------ MODULE EtherPacket ------------------------------
(***************************************************************************)
(* EtherCAT::Packet, Datagram and Link: one Ethernet frame per exchange,    *)
(* carrying a chain of datagrams that is built of objects, copied into the  *)
(* frame, worked on by the slaves as the frame passes, and copied back.     *)
(*                                                                         *)
(* The datagrams of the cyclic controllers are reused in every frame, those *)
(* of requests are made for one.  In the chain the M bit says that another  *)
(* datagram follows: the slaves work on the datagrams up to the first       *)
(* without it.  Of a datagram the model keeps its length, its M bit and its *)
(* working counter, and in the frame how many slaves worked on it.          *)
(***************************************************************************)
EXTENDS Integers, Sequences

CONSTANTS
  Controllers,     \* how many cyclic controllers are registered
  ControllerSize,  \* the length of their datagram, overheads included
  RequestSizes,    \* the lengths of the datagrams of requests
  RingSlots,       \* the requests the ring can hold
  Waiting,         \* of those, how many the callers have waiting at a time
  MTU, MinPayload, HeaderLength  \* ETHERNET_MTU, ETHERCAT_MINIMUM_PAYLOAD,
                                 \* ETHERCAT_PACKET_HEADER_LENGTH

ASSUME PacketAssumption ==
  /\ {Controllers, ControllerSize, RingSlots, Waiting, MTU, MinPayload, HeaderLength} \subseteq Nat
  /\ RequestSizes \subseteq Nat
  /\ Waiting <= RingSlots /\ RingSlots > 0

\* The controllers' datagrams come first; a request takes the next number.
Ids == 1 .. Controllers + RingSlots

VARIABLES
  pc,
  cyclic,      \* is it the cyclic thread's packet, or a lone SendDatagram's?
  object,      \* the Datagram objects
  datagrams,   \* Packet::datagrams
  payloadPtr,
  frame,       \* the datagrams in the frame, in order
  announced,   \* the length in the EtherCAT header
  frameSize    \* the bytes handed to Link::SendData

vars == <<pc, cyclic, object, datagrams, payloadPtr, frame, announced, frameSize>>

\* The datagram has not been looked at: the chain ended before it.
Unseen == -1

Fresh(size) == [size |-> size, m |-> 0, wkc |-> 0]

Init ==
  /\ pc = "begin" /\ cyclic = FALSE
  /\ object = [i \in Ids |-> Fresh(ControllerSize)]
  /\ datagrams = <<>> /\ payloadPtr = 0
  /\ frame = <<>> /\ announced = 0 /\ frameSize = 0

--------------------------------------------------------------------------------
\* AddDatagram: the one before is told that another follows.
AddDatagram(id, d) ==
  /\ LET n == Len(datagrams) IN
       object' = [i \in Ids |->
                    IF i = id THEN d
                    ELSE IF n > 0 /\ i = datagrams[n] THEN [object[i] EXCEPT !.m = 1]
                    ELSE object[i]]
  /\ datagrams' = Append(datagrams, id)
  /\ payloadPtr' = payloadPtr + d.size

--------------------------------------------------------------------------------
(* Faulty variants, for mutation analysis.                                     *)

\* ResetContainer leaves the M bit of the last frame.
ResetContainerKeepsM(d) == [d EXCEPT !.wkc = 0]

\* The length announced is that of the datagrams, not of the padded payload.
AnnounceUnpadded(length) == length % 2048

\* Callers fill the ring without waiting for their futures.
AddRequestUnawaited ==
  /\ pc = "fill"
  /\ IF cyclic
     THEN Len(datagrams) \in Controllers .. Controllers + RingSlots - 1
     ELSE datagrams = <<>>
  /\ LET id == IF cyclic THEN Len(datagrams) + 1 ELSE Controllers + 1
     IN \E size \in RequestSizes : AddDatagram(id, Fresh(size))
  /\ UNCHANGED <<pc, cyclic, frame, announced, frameSize>>

--------------------------------------------------------------------------------
\* ResetContainer of a datagram that is used again.
ResetContainer(d) == [d EXCEPT !.wkc = 0, !.m = 0]

\* A fresh Packet, in cyclicThread or in SendDatagramAcyclic.
BeginPacket ==
  /\ pc = "begin"
  /\ cyclic' \in BOOLEAN
  /\ datagrams' = <<>> /\ payloadPtr' = 0
  /\ pc' = "fill"
  /\ UNCHANGED <<object, frame, announced, frameSize>>

\* GetDatagram of the next controller.
AddController ==
  /\ pc = "fill" /\ cyclic
  /\ Len(datagrams) < Controllers
  /\ LET id == Len(datagrams) + 1 IN AddDatagram(id, ResetContainer(object[id]))
  /\ UNCHANGED <<pc, cyclic, frame, announced, frameSize>>

\* A request from the ring, or the datagram SendDatagramAcyclic was given.
AddRequest ==
  /\ pc = "fill"
  /\ IF cyclic
     THEN Len(datagrams) \in Controllers .. Controllers + Waiting - 1
     ELSE datagrams = <<>>
  /\ LET id == IF cyclic THEN Len(datagrams) + 1 ELSE Controllers + 1
     IN \E size \in RequestSizes : AddDatagram(id, Fresh(size))
  /\ UNCHANGED <<pc, cyclic, frame, announced, frameSize>>

\* The length field has 11 bits.
Announce(length) ==
  (IF length < MinPayload THEN MinPayload ELSE length) % 2048

\* SendReceive: the header, with the length of the padded payload.
BeginFrame ==
  /\ pc = "fill"
  /\ IF cyclic THEN Len(datagrams) >= Controllers ELSE datagrams # <<>>
  /\ announced' = Announce(payloadPtr)
  /\ frame' = <<>> /\ frameSize' = HeaderLength
  /\ pc' = "copy"
  /\ UNCHANGED <<cyclic, object, datagrams, payloadPtr>>

\* The next datagram is copied behind those before it.
CopyDatagram ==
  /\ pc = "copy" /\ Len(frame) < Len(datagrams)
  /\ LET d == object[datagrams[Len(frame) + 1]] IN
       /\ frame' = Append(frame, [d |-> d, worked |-> Unseen])
       /\ frameSize' = frameSize + d.size
  /\ UNCHANGED <<pc, cyclic, object, datagrams, payloadPtr, announced>>

\* All are: a short frame is padded and handed to SendData.
Send ==
  /\ pc = "copy" /\ Len(frame) = Len(datagrams)
  /\ frameSize' = IF frameSize < MinPayload + HeaderLength
                  THEN MinPayload + HeaderLength ELSE frameSize
  /\ pc' = "flying"
  /\ UNCHANGED <<cyclic, object, datagrams, payloadPtr, frame, announced>>

\* The slaves: each datagram up to the first without the M bit.  One slave
\* answers a datagram, or none does.
Exchange ==
  /\ pc = "flying"
  /\ LET Reached(i) == \A j \in 1 .. i - 1 : frame[j].d.m = 1 IN
     \E slaves \in [DOMAIN frame -> {0, 1}] :
       frame' = [i \in DOMAIN frame |->
                   IF Reached(i)
                   THEN [d |-> [frame[i].d EXCEPT !.wkc = @ + slaves[i]], worked |-> slaves[i]]
                   ELSE frame[i]]
  /\ pc' = "receive"
  /\ UNCHANGED <<cyclic, object, datagrams, payloadPtr, announced, frameSize>>

\* SendReceive from ReceiveData on: copy the datagrams back, forget them.
Receive ==
  /\ pc = "receive"
  /\ object' = [i \in Ids |->
                  IF \E n \in DOMAIN datagrams : datagrams[n] = i
                  THEN frame[CHOOSE n \in DOMAIN datagrams : datagrams[n] = i].d
                  ELSE object[i]]
  /\ datagrams' = <<>> /\ payloadPtr' = 0
  /\ pc' = "begin"
  /\ UNCHANGED <<cyclic, frame, announced, frameSize>>

Next == BeginPacket \/ AddController \/ AddRequest
          \/ BeginFrame \/ CopyDatagram \/ Send \/ Exchange \/ Receive

Spec == Init /\ [][Next]_vars

--------------------------------------------------------------------------------
(* Properties.                                                                 *)

Datagrams == [size : {ControllerSize} \cup RequestSizes, m : {0, 1}, wkc : {0, 1}]

TypeOK ==
  /\ pc \in {"begin", "fill", "copy", "flying", "receive"} /\ cyclic \in BOOLEAN
  /\ object \in [Ids -> Datagrams]
  /\ datagrams \in Seq(Ids) /\ payloadPtr \in Nat
  /\ frame \in Seq([d : Datagrams, worked : {Unseen, 0, 1}])
  /\ announced \in 0 .. 2047 /\ frameSize \in Nat

\* The slaves see every datagram of the frame and take nothing behind the last one
\* for another, and the working counter that comes back says what they did in this
\* frame: neither the M bit nor the counter of an earlier frame is left in a
\* datagram that is used again, whatever travelled behind it then.
EveryDatagramIsServed ==
  pc = "receive" =>
    \A i \in DOMAIN frame :
      /\ frame[i].d.wkc = frame[i].worked
      /\ frame[i].d.m = IF i = Len(frame) THEN 0 ELSE 1

\* The datagrams of the controllers and the mailbox requests that may wait
\* together fit into one Ethernet frame: neither AddDatagram nor SendReceive
\* compares with the size of the buffer.
FrameFits == pc \in {"copy", "flying"} => frameSize <= MTU

\* The length announced to the slaves is that of the bytes that follow, for short
\* frames and for long ones.
AnnouncedLengthIsSent == pc = "flying" => announced = frameSize - HeaderLength
--------------------------------------------------------------------------------
(* The inductive invariant.                                                    *)

\* Until the frame is sent its datagrams are numbered one after the other.
FillInv ==
  pc \in {"fill", "copy", "flying"} =>
    /\ Len(datagrams) <= (IF cyclic THEN Controllers + Waiting ELSE 1)
    /\ \A n \in 1 .. Len(datagrams) :
         /\ datagrams[n] = IF cyclic THEN n ELSE Controllers + 1
         /\ object[datagrams[n]].wkc = 0
         /\ object[datagrams[n]].m = IF n = Len(datagrams) THEN 0 ELSE 1

\* What is on its way to the slaves is a copy; what comes back has its lengths.
FrameInv ==
  /\ pc = "copy" => Len(frame) <= Len(datagrams)
  /\ pc \in {"flying", "receive"} => Len(frame) = Len(datagrams)
  /\ pc \in {"copy", "flying"} => \A i \in 1 .. Len(frame) : frame[i].d = object[datagrams[i]]
  /\ pc = "receive" =>
       \A i \in 1 .. Len(frame) : frame[i].d.size = object[datagrams[i]].size

\* ends says where each datagram ends in the payload.
Ends(ends) ==
  /\ ends[0] = 0 /\ ends[Len(datagrams)] = payloadPtr
  /\ \A n \in 1 .. Len(datagrams) : ends[n] = ends[n - 1] + object[datagrams[n]].size

\* The payload is as long as its datagrams, and the frame as those copied so far.
LengthInv ==
  /\ \A i \in 1 .. Controllers : object[i].size = ControllerSize
  /\ pc \in {"fill", "copy"} =>
       \E ends \in [0 .. Len(datagrams) -> 0 .. payloadPtr] :
         Ends(ends) /\ (pc = "copy" => frameSize = HeaderLength + ends[Len(frame)])
  /\ pc \in {"copy", "flying"} => announced = Announce(payloadPtr)
  /\ pc = "flying" =>
       frameSize = HeaderLength + IF payloadPtr < MinPayload THEN MinPayload ELSE payloadPtr

IInv == TypeOK /\ FillInv /\ FrameInv /\ LengthInv /\ EveryDatagramIsServed

\* With no request longer than largest the payload is never longer than the
\* controllers' datagrams and the requests that may wait.
Load(inCycle, n, largest) ==
  IF ~inCycle THEN n * largest
  ELSE IF n <= Controllers THEN n * ControllerSize
  ELSE Controllers * ControllerSize + (n - Controllers) * largest

LoadInv(largest) ==
  pc \in {"fill", "copy", "flying"} => payloadPtr <= Load(cyclic, Len(datagrams), largest)
================================================================================
