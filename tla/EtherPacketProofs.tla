---------------------------- MODULE EtherPacketProofs --------------------------
(***************************************************************************)
(* Proofs about the chain of datagrams in a frame, for any number of        *)
(* controllers, any ring and any lengths.                                   *)
(***************************************************************************)
EXTENDS EtherPacket, SequenceTheorems, TLAPS

USE PacketAssumption

\* What AddDatagram does to a chain whose datagrams are numbered by Number.
LEMMA AddDatagramStep ==
  ASSUME IInv, NEW d \in Datagrams, d.wkc = 0, d.m = 0, NEW id \in Ids,
         \A n \in 1 .. Len(datagrams) :
           /\ datagrams[n] # id
           /\ object[datagrams[n]].wkc = 0
           /\ object[datagrams[n]].m = IF n = Len(datagrams) THEN 0 ELSE 1,
         \A n, k \in 1 .. Len(datagrams) : n # k => datagrams[n] # datagrams[k],
         AddDatagram(id, d)
  PROVE  /\ object' \in [Ids -> Datagrams] /\ datagrams' \in Seq(Ids)
         /\ Len(datagrams') = Len(datagrams) + 1 /\ Len(datagrams) \in Nat
         /\ datagrams'[Len(datagrams) + 1] = id
         /\ \A n \in 1 .. Len(datagrams) : datagrams'[n] = datagrams[n]
         /\ object'[id].size = d.size /\ \A i \in Ids \ {id} : object'[i].size = object[i].size
         /\ \A n \in 1 .. Len(datagrams') :
              /\ object'[datagrams'[n]].wkc = 0
              /\ object'[datagrams'[n]].m = IF n = Len(datagrams') THEN 0 ELSE 1
<1> DEFINE last == Len(datagrams)
<1>1. datagrams \in Seq(Ids) /\ object \in [Ids -> Datagrams] /\ last \in Nat
  BY DEF IInv, TypeOK
<1>2. /\ datagrams' \in Seq(Ids) /\ Len(datagrams') = last + 1
      /\ datagrams'[last + 1] = id /\ \A n \in 1 .. last : datagrams'[n] = datagrams[n]
  BY <1>1, AppendProperties DEF AddDatagram
<1>3. object' = [i \in Ids |->
                   IF i = id THEN d
                   ELSE IF last > 0 /\ i = datagrams[last] THEN [object[i] EXCEPT !.m = 1]
                   ELSE object[i]]
  BY DEF AddDatagram
<1>4. \A i \in Ids : [object[i] EXCEPT !.m = 1] \in Datagrams
                     /\ [object[i] EXCEPT !.m = 1].m = 1
                     /\ [object[i] EXCEPT !.m = 1].wkc = object[i].wkc
                     /\ [object[i] EXCEPT !.m = 1].size = object[i].size
  BY <1>1 DEF Datagrams
<1>5. object' \in [Ids -> Datagrams]
  BY <1>1, <1>3, <1>4
<1>7. object'[id].size = d.size /\ \A i \in Ids \ {id} : object'[i].size = object[i].size
  BY <1>3, <1>4
<1> HIDE DEF last
<1>6. ASSUME NEW n \in 1 .. last + 1
      PROVE  /\ object'[datagrams'[n]].wkc = 0
             /\ object'[datagrams'[n]].m = IF n = last + 1 THEN 0 ELSE 1
  <2>1. CASE n = last + 1
    BY <1>2, <1>3, <2>1
  <2>2. CASE n = last /\ last > 0
    <3>1. n \in 1 .. last /\ datagrams[n] \in Ids /\ datagrams'[n] = datagrams[n]
      BY <1>1, <1>2, <2>2, ElementOfSeq DEF last
    <3>2. datagrams[n] # id /\ object[datagrams[n]].wkc = 0
      BY <3>1 DEF last
    <3>3. object'[datagrams[n]] = [object[datagrams[n]] EXCEPT !.m = 1]
      BY <1>3, <2>2, <3>1, <3>2
    <3> QED
      BY <1>1, <1>4, <2>2, <3>1, <3>2, <3>3
  <2>3. CASE n \in 1 .. last - 1
    <3>1. n \in 1 .. last /\ last \in 1 .. last /\ n # last /\ n # last + 1
      BY <1>1, <2>3
    <3>2. datagrams[n] \in Ids /\ datagrams'[n] = datagrams[n]
      BY <1>1, <1>2, <3>1, ElementOfSeq DEF last
    <3>3. /\ datagrams[n] # id /\ datagrams[n] # datagrams[last]
          /\ object[datagrams[n]].wkc = 0 /\ object[datagrams[n]].m = 1
      BY <3>1 DEF last
    <3> QED
      BY <1>3, <3>1, <3>2, <3>3
  <2> QED
    BY <1>1, <2>1, <2>2, <2>3
<1> QED
  BY <1>1, <1>2, <1>5, <1>6, <1>7 DEF last

\* A datagram of a request is new, one of a controller is as ResetContainer leaves it.
LEMMA NewDatagrams ==
  /\ \A size \in {ControllerSize} \cup RequestSizes :
       LET d == Fresh(size) IN d \in Datagrams /\ d.wkc = 0 /\ d.m = 0 /\ d.size = size
  /\ \A d \in Datagrams : LET r == ResetContainer(d) IN
       r \in Datagrams /\ r.wkc = 0 /\ r.m = 0 /\ r.size = d.size
BY DEF Fresh, ResetContainer, Datagrams

LEMMA Parameters ==
  /\ Controllers \in Nat /\ ControllerSize \in Nat /\ Waiting \in Nat /\ MTU \in Nat
  /\ MinPayload \in Nat /\ HeaderLength \in Nat
OBVIOUS

LEMMA Sizes == \A d \in Datagrams : d.size \in Nat
BY DEF Datagrams

LEMMA Announced == \A length \in Nat : Announce(length) \in 0 .. 2047
BY DEF Announce

LEMMA InitInv == Init => IInv
<1> SUFFICES ASSUME Init PROVE IInv
  OBVIOUS
<1>1. object \in [Ids -> Datagrams] /\ \A i \in 1 .. Controllers : object[i].size = ControllerSize
  BY NewDatagrams DEF Init, Ids
<1>2. cyclic \in BOOLEAN
  BY Zenon DEF Init
<1>3. datagrams \in Seq(Ids) /\ frame \in Seq([d : Datagrams, worked : {Unseen, 0, 1}])
  BY EmptySeq DEF Init
<1>4. pc = "begin" /\ payloadPtr = 0 /\ announced = 0 /\ frameSize = 0
  BY DEF Init
<1> QED
  BY <1>1, <1>2, <1>3, <1>4 DEF IInv, TypeOK, FillInv, FrameInv, LengthInv, EveryDatagramIsServed

--------------------------------------------------------------------------------
(* The chain grows by one datagram, which is the next in number.               *)

\* What AddController and AddRequest have in common.
Grows(id, d) ==
  /\ pc = "fill" /\ UNCHANGED <<pc, cyclic, frame, announced, frameSize>>
  /\ id = IF cyclic THEN Len(datagrams) + 1 ELSE Controllers + 1
  /\ IF cyclic THEN Len(datagrams) < Controllers + Waiting ELSE datagrams = <<>>
  /\ IF cyclic /\ Len(datagrams) < Controllers
     THEN d.size = ControllerSize ELSE d.size \in RequestSizes
  /\ d \in Datagrams /\ d.wkc = 0 /\ d.m = 0
  /\ AddDatagram(id, d)

LEMMA Grown ==
  ASSUME IInv, NEW id, NEW d, Grows(id, d)
  PROVE  /\ id \in Ids /\ (id \in 1 .. Controllers => d.size = ControllerSize)
         /\ Len(datagrams) \in Nat /\ (~cyclic => Len(datagrams) = 0)
         /\ object' \in [Ids -> Datagrams] /\ datagrams' \in Seq(Ids)
         /\ Len(datagrams') = Len(datagrams) + 1
         /\ datagrams'[Len(datagrams) + 1] = id
         /\ \A n \in 1 .. Len(datagrams) : datagrams'[n] = datagrams[n] /\ datagrams[n] \in Ids \ {id}
         /\ object'[id].size = d.size /\ \A i \in Ids \ {id} : object'[i].size = object[i].size
         /\ \A n \in 1 .. Len(datagrams') :
              /\ object'[datagrams'[n]].wkc = 0
              /\ object'[datagrams'[n]].m = IF n = Len(datagrams') THEN 0 ELSE 1
<1>1. /\ Len(datagrams) \in Nat /\ cyclic \in BOOLEAN /\ FillInv /\ pc = "fill"
      /\ id = IF cyclic THEN Len(datagrams) + 1 ELSE Controllers + 1
      /\ IF cyclic THEN Len(datagrams) < Controllers + Waiting ELSE datagrams = <<>>
  BY DEF IInv, TypeOK, Grows
<1>2. id \in Ids
  BY <1>1 DEF Ids
<1>3. ~cyclic => Len(datagrams) = 0
  BY <1>1
<1>4. \A n \in 1 .. Len(datagrams) : datagrams[n] # id /\ datagrams[n] \in Ids
  BY <1>1, <1>3, ElementOfSeq DEF FillInv, IInv, TypeOK
<1>5. \A n, k \in 1 .. Len(datagrams) : n # k => datagrams[n] # datagrams[k]
  BY <1>1, <1>3 DEF FillInv
<1>6. \A n \in 1 .. Len(datagrams) :
        /\ object[datagrams[n]].wkc = 0
        /\ object[datagrams[n]].m = IF n = Len(datagrams) THEN 0 ELSE 1
  BY <1>1 DEF FillInv
<1>7. id \in 1 .. Controllers => d.size = ControllerSize
  BY <1>1 DEF Grows
<1>8. AddDatagram(id, d) /\ d \in Datagrams /\ d.wkc = 0 /\ d.m = 0
  BY DEF Grows
<1> QED
  BY <1>1, <1>2, <1>3, <1>4, <1>5, <1>6, <1>7, <1>8, AddDatagramStep

\* The last datagram ends where the payload does.
LEMMA EndsGrow ==
  ASSUME IInv, NEW id, NEW d, Grows(id, d)
  PROVE  /\ payloadPtr' \in Nat
         /\ \E ends \in [0 .. Len(datagrams') -> 0 .. payloadPtr'] : Ends(ends)'
<1> DEFINE last == Len(datagrams)
<1>1. /\ last \in Nat /\ Len(datagrams') = last + 1
      /\ \A n \in 1 .. last : object'[datagrams'[n]].size = object[datagrams[n]].size
      /\ object'[datagrams'[last + 1]].size = d.size
  BY Grown
<1>2. payloadPtr' = payloadPtr + d.size /\ payloadPtr \in Nat /\ d.size \in Nat
  BY Sizes DEF Grows, AddDatagram, IInv, TypeOK
<1>3. PICK ends \in [0 .. last -> 0 .. payloadPtr] : Ends(ends)
  BY DEF Grows, IInv, LengthInv
<1> HIDE DEF last
<1>4. PICK new \in [0 .. last + 1 -> 0 .. payloadPtr'] :
        new[last + 1] = payloadPtr' /\ \A n \in 0 .. last : new[n] = ends[n]
  <2> DEFINE longer == [n \in 0 .. last + 1 |-> IF n = last + 1 THEN payloadPtr' ELSE ends[n]]
  <2>1. longer \in [0 .. last + 1 -> 0 .. payloadPtr']
    BY <1>1, <1>2
  <2>2. longer[last + 1] = payloadPtr' /\ \A n \in 0 .. last : longer[n] = ends[n]
    BY <1>1
  <2> HIDE DEF longer
  <2> QED
    BY <2>1, <2>2
<1>5. new[last] = payloadPtr /\ new[0] = 0
  BY <1>1, <1>3, <1>4 DEF Ends, last
<1>6. \A n \in 1 .. last : ends[n] = ends[n - 1] + object[datagrams[n]].size
  BY <1>3 DEF Ends, last
<1>7. ASSUME NEW n \in 1 .. last + 1
      PROVE  new[n] = new[n - 1] + object'[datagrams'[n]].size
  <2>1. CASE n = last + 1
    BY <1>1, <1>2, <1>4, <1>5, <2>1
  <2>2. CASE n \in 1 .. last
    <3>1. n \in 0 .. last /\ n - 1 \in 0 .. last
      BY <1>1, <2>2
    <3> QED
      BY <1>1, <1>4, <1>6, <2>2, <3>1
  <2> QED
    BY <1>1, <2>1, <2>2
<1>8. Ends(new)'
  BY <1>1, <1>4, <1>5, <1>7 DEF Ends
<1>9. payloadPtr' \in Nat
  BY <1>2
<1> QED
  BY <1>1, <1>4, <1>8, <1>9

LEMMA FillStep ==
  ASSUME IInv, NEW id, NEW d, Grows(id, d)
  PROVE  IInv'
<1>1. /\ pc = "fill" /\ UNCHANGED <<pc, cyclic, frame, announced, frameSize>>
      /\ IF cyclic THEN Len(datagrams) < Controllers + Waiting ELSE Len(datagrams) = 0
      /\ id = IF cyclic THEN Len(datagrams) + 1 ELSE Controllers + 1
  BY DEF Grows
<1>2. /\ Len(datagrams) \in Nat /\ Len(datagrams') = Len(datagrams) + 1
      /\ object' \in [Ids -> Datagrams] /\ datagrams' \in Seq(Ids)
      /\ datagrams'[Len(datagrams) + 1] = id
      /\ \A n \in 1 .. Len(datagrams) : datagrams'[n] = datagrams[n]
      /\ \A n \in 1 .. Len(datagrams') :
           /\ object'[datagrams'[n]].wkc = 0
           /\ object'[datagrams'[n]].m = IF n = Len(datagrams') THEN 0 ELSE 1
  BY Grown
<1>3. TypeOK'
  <2>1. payloadPtr' \in Nat
    BY EndsGrow
  <2> QED
    BY <1>1, <1>2, <2>1 DEF IInv, TypeOK
<1>4. FillInv'
  <2>1. \A n \in 1 .. Len(datagrams) : datagrams[n] = IF cyclic THEN n ELSE Controllers + 1
    BY <1>1 DEF IInv, FillInv
  <2>2. \A n \in 1 .. Len(datagrams') : datagrams'[n] = IF cyclic THEN n ELSE Controllers + 1
    BY <1>1, <1>2, <2>1
  <2>3. Len(datagrams') <= (IF cyclic THEN Controllers + Waiting ELSE 1)
    BY <1>1, <1>2
  <2> QED
    BY <1>1, <1>2, <2>2, <2>3 DEF FillInv
<1>5. LengthInv'
  <2>1. \A i \in 1 .. Controllers : object'[i].size = ControllerSize
    <3>1. \A i \in 1 .. Controllers : i \in Ids /\ object[i].size = ControllerSize
      BY DEF IInv, LengthInv, Ids
    <3> QED
      BY <3>1, Grown
  <2> QED
    BY <1>1, <2>1, EndsGrow DEF LengthInv
<1> QED
  BY <1>1, <1>3, <1>4, <1>5 DEF IInv, FrameInv, EveryDatagramIsServed

LEMMA AddControllerGrows ==
  ASSUME IInv, AddController
  PROVE  \E id, d : Grows(id, d)
<1> DEFINE id == Len(datagrams) + 1
           d == ResetContainer(object[id])
<1>1. id \in 1 .. Controllers /\ id \in Ids /\ Len(datagrams) \in Nat
  BY DEF AddController, IInv, TypeOK, Ids
<1>2. d \in Datagrams /\ d.wkc = 0 /\ d.m = 0 /\ d.size = ControllerSize
  BY <1>1, NewDatagrams DEF IInv, TypeOK, LengthInv
<1>3. /\ pc = "fill" /\ UNCHANGED <<pc, cyclic, frame, announced, frameSize>>
      /\ cyclic /\ Len(datagrams) < Controllers /\ AddDatagram(id, d)
  BY DEF AddController
<1> HIDE DEF d
<1>4. Grows(id, d)
  BY <1>1, <1>2, <1>3 DEF Grows
<1> QED
  BY <1>4

LEMMA AddRequestGrows ==
  ASSUME IInv, AddRequest
  PROVE  \E id, d : Grows(id, d)
<1> DEFINE id == IF cyclic THEN Len(datagrams) + 1 ELSE Controllers + 1
<1>1. PICK size \in RequestSizes : AddDatagram(id, Fresh(size))
  BY DEF AddRequest
<1> DEFINE d == Fresh(size)
<1>2. d \in Datagrams /\ d.wkc = 0 /\ d.m = 0 /\ d.size \in RequestSizes
  BY NewDatagrams
<1>3. /\ pc = "fill" /\ UNCHANGED <<pc, cyclic, frame, announced, frameSize>>
      /\ AddDatagram(id, d)
      /\ IF cyclic THEN Len(datagrams) \in Controllers .. Controllers + Waiting - 1
                   ELSE datagrams = <<>>
  BY <1>1 DEF AddRequest
<1>4. Len(datagrams) \in Nat
  BY DEF IInv, TypeOK
<1> HIDE DEF d
<1>5. Grows(id, d)
  BY <1>2, <1>3, <1>4 DEF Grows
<1> QED
  BY <1>5

--------------------------------------------------------------------------------
(* The frame.                                                                  *)

LEMMA BeginFrameStep == IInv /\ BeginFrame => IInv'
<1> SUFFICES ASSUME IInv, BeginFrame PROVE IInv'
  OBVIOUS
<1>1. /\ pc = "fill" /\ pc' = "copy" /\ frame' = <<>> /\ frameSize' = HeaderLength
      /\ announced' = Announce(payloadPtr) /\ UNCHANGED <<cyclic, object, datagrams, payloadPtr>>
  BY DEF BeginFrame
<1>2. frame' \in Seq([d : Datagrams, worked : {Unseen, 0, 1}]) /\ Len(frame') = 0
  BY <1>1, EmptySeq
<1>3. TypeOK'
  BY <1>1, <1>2, Announced DEF IInv, TypeOK
<1>4. FillInv' /\ FrameInv'
  BY <1>1, <1>2 DEF IInv, TypeOK, FillInv, FrameInv
<1>5. LengthInv'
  <2>1. PICK ends \in [0 .. Len(datagrams) -> 0 .. payloadPtr] : Ends(ends)
    BY <1>1 DEF IInv, LengthInv
  <2>2. Ends(ends)' /\ ends[0] = 0
    BY <1>1, <2>1 DEF Ends
  <2>3. frameSize' = HeaderLength + ends[Len(frame')]
    BY <1>1, <1>2, <2>2
  <2> QED
    BY <1>1, <2>1, <2>2, <2>3 DEF IInv, LengthInv
<1> QED
  BY <1>1, <1>3, <1>4, <1>5 DEF IInv, EveryDatagramIsServed

LEMMA CopyDatagramStep == IInv /\ CopyDatagram => IInv'
<1> SUFFICES ASSUME IInv, CopyDatagram PROVE IInv'
  OBVIOUS
<1> DEFINE next == Len(frame) + 1
           d == object[datagrams[next]]
           copy == [d |-> d, worked |-> Unseen]
<1>1. /\ pc = "copy" /\ Len(frame) < Len(datagrams)
      /\ frame' = Append(frame, copy) /\ frameSize' = frameSize + d.size
      /\ UNCHANGED <<pc, cyclic, object, datagrams, payloadPtr, announced>>
  BY DEF CopyDatagram
<1>2. Len(frame) \in Nat /\ Len(datagrams) \in Nat /\ next \in 1 .. Len(datagrams)
  BY <1>1 DEF IInv, TypeOK
<1>3. d \in Datagrams /\ d.size \in Nat
  BY <1>2, ElementOfSeq, Sizes DEF IInv, TypeOK
<1>4. copy \in [d : Datagrams, worked : {Unseen, 0, 1}] /\ copy.d = d
  BY <1>3
<1> HIDE DEF copy, d
<1>5. /\ frame' \in Seq([d : Datagrams, worked : {Unseen, 0, 1}])
      /\ Len(frame') = next /\ frame'[next] = copy
      /\ \A i \in 1 .. Len(frame) : frame'[i] = frame[i]
  BY <1>1, <1>4, AppendProperties DEF IInv, TypeOK
<1>6. TypeOK'
  BY <1>1, <1>3, <1>5 DEF IInv, TypeOK
<1>7. FrameInv'
  <2>1. \A i \in 1 .. Len(frame) : frame[i].d = object[datagrams[i]]
    BY <1>1 DEF IInv, FrameInv
  <2>2. \A i \in 1 .. next : frame'[i].d = object[datagrams[i]]
    BY <1>2, <1>4, <1>5, <2>1 DEF d
  <2> QED
    BY <1>1, <1>2, <1>5, <2>2 DEF FrameInv
<1>8. LengthInv'
  <2>1. PICK ends \in [0 .. Len(datagrams) -> 0 .. payloadPtr] :
          Ends(ends) /\ frameSize = HeaderLength + ends[Len(frame)]
    BY <1>1 DEF IInv, LengthInv
  <2>2. ends[next] = ends[Len(frame)] + d.size
    <3>1. ends[next] = ends[next - 1] + object[datagrams[next]].size
      BY <1>2, <2>1 DEF Ends
    <3>2. next - 1 = Len(frame)
      BY <1>2
    <3> QED
      BY <3>1, <3>2 DEF d
  <2>3. ends[next] \in Nat /\ ends[Len(frame)] \in Nat
    BY <1>2, <2>1 DEF IInv, TypeOK
  <2>4. frameSize' = HeaderLength + ends[next]
    BY <1>1, <1>3, <2>1, <2>2, <2>3, Parameters
  <2>5. Ends(ends)'
    BY <1>1, <2>1 DEF Ends
  <2> QED
    BY <1>1, <1>5, <2>1, <2>4, <2>5 DEF IInv, LengthInv
<1> QED
  BY <1>1, <1>6, <1>7, <1>8 DEF IInv, FillInv, EveryDatagramIsServed

LEMMA SendStep == IInv /\ Send => IInv'
<1> SUFFICES ASSUME IInv, Send PROVE IInv'
  OBVIOUS
<1>1. /\ pc = "copy" /\ pc' = "flying" /\ Len(frame) = Len(datagrams)
      /\ frameSize' = IF frameSize < MinPayload + HeaderLength
                      THEN MinPayload + HeaderLength ELSE frameSize
      /\ UNCHANGED <<cyclic, object, datagrams, payloadPtr, frame, announced>>
  BY DEF Send
<1>2. frameSize = HeaderLength + payloadPtr
  BY <1>1 DEF IInv, LengthInv, Ends
<1>3. payloadPtr \in Nat
  BY DEF IInv, TypeOK
<1>4. frameSize' = HeaderLength + IF payloadPtr < MinPayload THEN MinPayload ELSE payloadPtr
  BY <1>1, <1>2, <1>3
<1>5. TypeOK'
  BY <1>1, <1>3, <1>4 DEF IInv, TypeOK
<1>6. FillInv' /\ FrameInv'
  BY <1>1 DEF IInv, FillInv, FrameInv
<1>7. LengthInv'
  BY <1>1, <1>4 DEF IInv, LengthInv
<1> QED
  BY <1>1, <1>5, <1>6, <1>7 DEF IInv, EveryDatagramIsServed

\* What a slave does to a datagram that was not worked on.
LEMMA Worked ==
  ASSUME NEW old \in Datagrams, old.wkc = 0, NEW worked \in {0, 1}
  PROVE  LET new == [old EXCEPT !.wkc = @ + worked] IN
         new \in Datagrams /\ new.wkc = worked /\ new.m = old.m /\ new.size = old.size
BY DEF Datagrams

LEMMA Before ==
  ASSUME NEW n \in Nat, NEW i \in 1 .. n, NEW j \in 1 .. i - 1
  PROVE  j \in 1 .. n /\ j # n
OBVIOUS

\* The slaves reach every datagram of the frame.
LEMMA ExchangeStep == IInv /\ Exchange => IInv'
<1> SUFFICES ASSUME IInv, Exchange PROVE IInv'
  OBVIOUS
<1>1. /\ pc = "flying" /\ pc' = "receive" /\ Len(frame) = Len(datagrams)
      /\ UNCHANGED <<cyclic, object, datagrams, payloadPtr, announced, frameSize>>
      /\ \A i \in 1 .. Len(frame) :
           /\ frame[i].d.wkc = 0 /\ frame[i].d.m = IF i = Len(frame) THEN 0 ELSE 1
           /\ frame[i].d.size = object[datagrams[i]].size
  BY DEF Exchange, IInv, FrameInv, FillInv
<1>2. /\ DOMAIN frame = 1 .. Len(frame) /\ Len(frame) \in Nat
      /\ \A i \in 1 .. Len(frame) : frame[i] \in [d : Datagrams, worked : {Unseen, 0, 1}]
  <2>1. frame \in Seq([d : Datagrams, worked : {Unseen, 0, 1}])
    BY DEF IInv, TypeOK
  <2> QED
    BY <2>1, ElementOfSeq, LenProperties
<1>3. PICK slaves \in [1 .. Len(frame) -> {0, 1}] :
        frame' = [i \in 1 .. Len(frame) |->
                    IF \A j \in 1 .. i - 1 : frame[j].d.m = 1
                    THEN [d |-> [frame[i].d EXCEPT !.wkc = @ + slaves[i]], worked |-> slaves[i]]
                    ELSE frame[i]]
  BY <1>2 DEF Exchange
<1>4. ASSUME NEW i \in 1 .. Len(frame), NEW j \in 1 .. i - 1
      PROVE  frame[j].d.m = 1
  <2>1. j \in 1 .. Len(frame) /\ j # Len(frame)
    BY <1>2, Before
  <2> QED
    BY <1>1, <2>1
<1>5. frame' = [i \in 1 .. Len(frame) |->
                  [d |-> [frame[i].d EXCEPT !.wkc = @ + slaves[i]], worked |-> slaves[i]]]
  BY <1>3, <1>4
<1>6. ASSUME NEW i \in 1 .. Len(frame)
      PROVE  /\ frame'[i] \in [d : Datagrams, worked : {Unseen, 0, 1}]
             /\ frame'[i].d.wkc = frame'[i].worked /\ frame'[i].d.m = frame[i].d.m
             /\ frame'[i].d.size = frame[i].d.size
  <2> DEFINE old == frame[i].d
             new == [old EXCEPT !.wkc = @ + slaves[i]]
  <2>1. old \in Datagrams /\ old.wkc = 0 /\ slaves[i] \in {0, 1}
    BY <1>1, <1>2
  <2>2. new \in Datagrams /\ new.wkc = slaves[i] /\ new.m = old.m /\ new.size = old.size
    BY <2>1, Worked
  <2>3. frame'[i] = [d |-> new, worked |-> slaves[i]]
    BY <1>5
  <2> HIDE DEF new
  <2> QED
    BY <2>1, <2>2, <2>3
<1>7. frame' \in Seq([d : Datagrams, worked : {Unseen, 0, 1}]) /\ Len(frame') = Len(frame)
      /\ DOMAIN frame' = 1 .. Len(frame)
  BY <1>2, <1>5, <1>6
<1>8. FrameInv'
  BY <1>1, <1>6, <1>7 DEF FrameInv
<1>9. EveryDatagramIsServed'
  BY <1>1, <1>6, <1>7 DEF EveryDatagramIsServed
<1>10. TypeOK'
  BY <1>1, <1>7 DEF IInv, TypeOK
<1> QED
  BY <1>1, <1>8, <1>9, <1>10 DEF IInv, FillInv, LengthInv

\* The datagrams come back with the lengths they had.
LEMMA ReceiveStep == IInv /\ Receive => IInv'
<1> SUFFICES ASSUME IInv, Receive PROVE IInv'
  OBVIOUS
<1> DEFINE Slot(i) == CHOOSE n \in DOMAIN datagrams : datagrams[n] = i
<1>1. /\ pc = "receive" /\ pc' = "begin" /\ datagrams' = <<>> /\ payloadPtr' = 0
      /\ UNCHANGED <<cyclic, frame, announced, frameSize>>
      /\ object' = [i \in Ids |-> IF \E n \in DOMAIN datagrams : datagrams[n] = i
                                THEN frame[Slot(i)].d ELSE object[i]]
  BY DEF Receive
<1>2. DOMAIN datagrams = 1 .. Len(frame)
  BY <1>1, LenProperties DEF IInv, TypeOK, FrameInv
<1>3. ASSUME NEW n \in 1 .. Len(frame)
      PROVE  frame[n].d \in Datagrams /\ frame[n].d.size = object[datagrams[n]].size
  <2>1. frame \in Seq([d : Datagrams, worked : {Unseen, 0, 1}])
    BY DEF IInv, TypeOK
  <2>2. frame[n] \in [d : Datagrams, worked : {Unseen, 0, 1}]
    BY <2>1, ElementOfSeq
  <2> QED
    BY <1>1, <2>2 DEF IInv, FrameInv
<1>4. ASSUME NEW i \in Ids
      PROVE  object'[i] \in Datagrams /\ object'[i].size = object[i].size
  <2>1. CASE \E n \in DOMAIN datagrams : datagrams[n] = i
    <3>1. Slot(i) \in 1 .. Len(frame) /\ datagrams[Slot(i)] = i
      BY <1>2, <2>1
    <3>2. object'[i] = frame[Slot(i)].d
      BY <1>1, <2>1
    <3> HIDE DEF Slot
    <3> QED
      BY <1>3, <3>1, <3>2
  <2>2. CASE ~\E n \in DOMAIN datagrams : datagrams[n] = i
    <3>1. object'[i] = object[i]
      BY <1>1, <2>2
    <3> QED
      BY <3>1 DEF IInv, TypeOK
  <2> QED
    BY <2>1, <2>2
<1>5. object' \in [Ids -> Datagrams]
  BY <1>1, <1>4
<1>6. \A i \in 1 .. Controllers : object'[i].size = ControllerSize
  BY <1>4 DEF IInv, LengthInv, Ids
<1>7. TypeOK'
  BY <1>1, <1>5, EmptySeq DEF IInv, TypeOK
<1> QED
  BY <1>1, <1>6, <1>7 DEF IInv, FillInv, FrameInv, LengthInv, EveryDatagramIsServed

\* The first datagram of an empty payload begins where it ends.
LEMMA BeginPacketStep == IInv /\ BeginPacket => IInv'
<1> SUFFICES ASSUME IInv, BeginPacket PROVE IInv'
  OBVIOUS
<1>1. cyclic' \in BOOLEAN
  BY Zenon DEF BeginPacket
<1>2. /\ pc' = "fill" /\ datagrams' = <<>> /\ payloadPtr' = 0
      /\ UNCHANGED <<object, frame, announced, frameSize>>
  BY DEF BeginPacket
<1>3. Len(datagrams') = 0 /\ datagrams' \in Seq(Ids)
  BY <1>2, EmptySeq
<1>4. \E ends \in [0 .. Len(datagrams') -> 0 .. payloadPtr'] : Ends(ends)'
  <2> DEFINE zero == [n \in 0 .. 0 |-> 0]
  <2>1. zero \in [0 .. 0 -> 0 .. 0] /\ zero[0] = 0
    OBVIOUS
  <2>2. Ends(zero)'
    BY <1>2, <1>3, <2>1 DEF Ends
  <2> QED
    BY <1>2, <1>3, <2>1, <2>2
<1>5. TypeOK'
  BY <1>1, <1>2, <1>3 DEF IInv, TypeOK
<1>6. LengthInv'
  BY <1>2, <1>4 DEF IInv, LengthInv
<1> QED
  BY <1>2, <1>3, <1>5, <1>6 DEF IInv, FillInv, FrameInv, EveryDatagramIsServed

--------------------------------------------------------------------------------
LEMMA StepInv == IInv /\ [Next]_vars => IInv'
<1> SUFFICES ASSUME IInv, [Next]_vars PROVE IInv'
  OBVIOUS
<1>1. CASE BeginPacket
  BY <1>1, BeginPacketStep
<1>2. CASE AddController
  BY <1>2, AddControllerGrows, FillStep
<1>3. CASE AddRequest
  BY <1>3, AddRequestGrows, FillStep
<1>4. CASE BeginFrame \/ CopyDatagram \/ Send
  BY <1>4, BeginFrameStep, CopyDatagramStep, SendStep
<1>5. CASE Exchange
  BY <1>5, ExchangeStep
<1>6. CASE Receive
  BY <1>6, ReceiveStep
<1>7. CASE UNCHANGED vars
  <2>1. TypeOK' /\ FillInv' /\ FrameInv' /\ EveryDatagramIsServed'
    BY <1>7 DEF vars, IInv, TypeOK, FillInv, FrameInv, EveryDatagramIsServed
  <2>2. LengthInv'
    BY <1>7 DEF vars, IInv, LengthInv, Ends
  <2> QED
    BY <2>1, <2>2 DEF IInv
<1> QED
  BY <1>1, <1>2, <1>3, <1>4, <1>5, <1>6, <1>7 DEF Next

\* The invariant is inductive.
THEOREM Inductive == Spec => []IInv
BY InitInv, StepInv, PTL DEF Spec

\* Every variable keeps its type: a working counter counts the slaves of one frame.
THEOREM TypeCorrect == Spec => []TypeOK
<1>1. IInv => TypeOK
  BY DEF IInv
<1> QED
  BY <1>1, Inductive, PTL

\* The slaves see every datagram of a frame and nothing behind it, and the counter
\* that comes back is that of this frame, whatever travelled in the frames before.
THEOREM Served == Spec => []EveryDatagramIsServed
<1>1. IInv => EveryDatagramIsServed
  BY DEF IInv
<1> QED
  BY <1>1, Inductive, PTL

--------------------------------------------------------------------------------
(* The length of a frame.                                                      *)

LEMMA Times ==
  ASSUME NEW n \in Nat, NEW k \in Nat, NEW size \in Nat
  PROVE  /\ n * size \in Nat /\ 0 * size = 0 /\ 1 * size = size
         /\ (n + 1) * size = n * size + size
         /\ n <= k => n * size <= k * size
<1>1. ASSUME n <= k PROVE n * size <= k * size
  <2>1. k - n \in Nat /\ k = n + (k - n)
    BY <1>1
  <2>2. PICK m \in Nat : k = n + m
    BY <2>1
  <2>3. k * size = n * size + m * size /\ m * size >= 0 /\ n * size \in Nat /\ m * size \in Nat
    BY <2>2
  <2> QED
    BY <2>3
<1> QED
  BY <1>1

LEMMA LoadBeyond ==
  ASSUME NEW n, ~(n <= Controllers), NEW largest
  PROVE  Load(TRUE, n, largest) =
           Controllers * ControllerSize + (n - Controllers) * largest
BY Zenon DEF Load

LEMMA LoadStep ==
  ASSUME NEW largest \in Nat, \A size \in RequestSizes : size <= largest
  PROVE  IInv /\ LoadInv(largest) /\ [Next]_vars => LoadInv(largest)'
<1> SUFFICES ASSUME IInv, LoadInv(largest), [Next]_vars PROVE LoadInv(largest)'
  OBVIOUS
<1>1. ASSUME NEW id, NEW d, Grows(id, d)
      PROVE  LoadInv(largest)'
  <2> DEFINE n == Len(datagrams)
  <2>1. n \in Nat /\ Len(datagrams') = n + 1 /\ (~cyclic => n = 0)
    BY <1>1, Grown
  <2>2. /\ pc = "fill" /\ pc' = pc /\ cyclic' = cyclic /\ cyclic \in BOOLEAN
        /\ payloadPtr' = payloadPtr + d.size /\ payloadPtr \in Nat /\ d.size \in Nat
        /\ IF cyclic /\ n < Controllers THEN d.size = ControllerSize ELSE d.size <= largest
    BY <1>1, Sizes DEF Grows, AddDatagram, IInv, TypeOK
  <2>3. payloadPtr <= Load(cyclic, n, largest)
    BY <2>2 DEF LoadInv
  <2> HIDE DEF n
  <2>4. payloadPtr' <= Load(cyclic, n + 1, largest)
    <3>1. CASE ~cyclic
      <4>1. (n + 1) * largest = n * largest + largest /\ n * largest \in Nat
        BY <2>1, Times
      <4> QED
        BY <2>2, <2>3, <3>1, <4>1 DEF Load
    <3>2. CASE cyclic /\ n < Controllers
      <4>1. (n + 1) * ControllerSize = n * ControllerSize + ControllerSize
            /\ n * ControllerSize \in Nat
        BY <2>1, Times
      <4>2. n + 1 <= Controllers /\ n <= Controllers
        BY <2>1, <3>2
      <4> QED
        BY <2>2, <2>3, <3>2, <4>1, <4>2 DEF Load
    <3>3. CASE cyclic /\ n >= Controllers
      <4> DEFINE m == n - Controllers
      <4>1. m \in Nat /\ (n + 1) - Controllers = m + 1 /\ (n <= Controllers => m = 0 /\ n = Controllers)
            /\ ~(n + 1 <= Controllers)
        BY <2>1, <3>3
      <4> HIDE DEF m
      <4>2. (m + 1) * largest = m * largest + largest /\ m * largest \in Nat /\ 0 * largest = 0
        BY <4>1, Times
      <4>3. Controllers * ControllerSize \in Nat
        BY Times
      <4>4. payloadPtr <= Controllers * ControllerSize + m * largest
        <5>1. CASE n <= Controllers
          BY <2>3, <3>3, <4>1, <4>2, <4>3, <5>1 DEF Load
        <5>2. CASE ~(n <= Controllers)
          BY <2>3, <3>3, <5>2 DEF m, Load
        <5> QED
          BY <5>1, <5>2
      <4>5. payloadPtr' <= Controllers * ControllerSize + (m + 1) * largest
        <5> DEFINE cyclicLoad == Controllers * ControllerSize
                   before == m * largest
                   after == (m + 1) * largest
        <5>1. after = before + largest /\ before \in Nat /\ cyclicLoad \in Nat
              /\ payloadPtr <= cyclicLoad + before
          BY <4>2, <4>3, <4>4
        <5>2. payloadPtr' = payloadPtr + d.size /\ d.size <= largest
          BY <2>1, <2>2, <3>3
        <5> HIDE DEF cyclicLoad, before, after
        <5>3. payloadPtr' <= cyclicLoad + after
          BY <2>2, <5>1, <5>2
        <5> QED
          BY <5>3 DEF cyclicLoad, after
      <4>6. Load(cyclic, n + 1, largest) = Controllers * ControllerSize + (m + 1) * largest
        <5>1. cyclic = TRUE /\ ~(n + 1 <= Controllers)
          BY <2>2, <3>3, <4>1
        <5>2. Load(cyclic, n + 1, largest) =
                Controllers * ControllerSize + ((n + 1) - Controllers) * largest
          BY <5>1, LoadBeyond, Zenon
        <5> QED
          BY <4>1, <5>2, Zenon
      <4> QED
        BY <4>5, <4>6
    <3> QED
      BY <2>1, <3>1, <3>2, <3>3
  <2> QED
    BY <2>1, <2>2, <2>4 DEF LoadInv
<1>2. CASE AddController
  BY <1>1, <1>2, AddControllerGrows
<1>3. CASE AddRequest
  BY <1>1, <1>3, AddRequestGrows
<1>4. CASE BeginPacket
  <2>1. payloadPtr' = 0 /\ Len(datagrams') = 0 /\ pc' = "fill"
    BY <1>4 DEF BeginPacket
  <2>2. 0 * largest = 0 /\ 0 * ControllerSize = 0
    BY Times
  <2> QED
    BY <2>1, <2>2 DEF LoadInv, Load
<1>5. CASE BeginFrame \/ CopyDatagram \/ Send \/ UNCHANGED vars
  <2>1. UNCHANGED <<cyclic, datagrams, payloadPtr>>
        /\ (pc' \in {"fill", "copy", "flying"} => pc \in {"fill", "copy", "flying"})
    BY <1>5 DEF BeginFrame, CopyDatagram, Send, vars
  <2> QED
    BY <2>1 DEF LoadInv
<1>6. CASE Exchange \/ Receive
  BY <1>6 DEF Exchange, Receive, LoadInv
<1> QED
  BY <1>2, <1>3, <1>4, <1>5, <1>6 DEF Next

\* What the callers must see to: the longest frame they may fill fits.
LoadFits(largest) ==
  /\ largest \in Nat /\ \A size \in RequestSizes : size <= largest
  /\ HeaderLength + Controllers * ControllerSize + Waiting * largest <= MTU
  /\ HeaderLength + largest <= MTU /\ HeaderLength + MinPayload <= MTU

LEMMA PayloadFits ==
  ASSUME NEW largest, LoadFits(largest), IInv, LoadInv(largest)
  PROVE  pc \in {"fill", "copy", "flying"} => HeaderLength + payloadPtr <= MTU
<1> SUFFICES ASSUME pc \in {"fill", "copy", "flying"}
             PROVE  HeaderLength + payloadPtr <= MTU
  OBVIOUS
<1> DEFINE n == Len(datagrams)
<1>1. /\ n \in Nat /\ n <= (IF cyclic THEN Controllers + Waiting ELSE 1)
      /\ payloadPtr \in Nat /\ cyclic \in BOOLEAN /\ largest \in Nat
  BY DEF IInv, TypeOK, FillInv, LoadFits
<1>2. payloadPtr <= IF ~cyclic THEN n * largest
                    ELSE IF n <= Controllers THEN n * ControllerSize
                    ELSE Controllers * ControllerSize + (n - Controllers) * largest
  BY DEF LoadInv, Load
<1> HIDE DEF n
<1>3. Controllers * ControllerSize \in Nat /\ Waiting * largest \in Nat
  BY <1>1, Times
<1>4. CASE ~cyclic
  <2>1. n * largest <= 1 * largest /\ 1 * largest = largest /\ n * largest \in Nat
    BY <1>1, <1>4, Times
  <2> QED
    BY <1>1, <1>2, <1>4, <2>1 DEF LoadFits
<1>5. CASE cyclic /\ n <= Controllers
  <2>1. n * ControllerSize <= Controllers * ControllerSize /\ n * ControllerSize \in Nat
    BY <1>1, <1>5, Times
  <2> QED
    BY <1>1, <1>2, <1>3, <1>5, <2>1 DEF LoadFits
<1>6. CASE cyclic /\ ~(n <= Controllers)
  <2> DEFINE m == n - Controllers
  <2>1. m \in Nat /\ m <= Waiting
    BY <1>1, <1>6
  <2>2. payloadPtr <= Controllers * ControllerSize + m * largest
    BY <1>2, <1>6
  <2> HIDE DEF m
  <2>3. m * largest <= Waiting * largest /\ m * largest \in Nat
    BY <1>1, <2>1, Times
  <2> QED
    BY <1>1, <1>3, <2>2, <2>3 DEF LoadFits
<1> QED
  BY <1>1, <1>4, <1>5, <1>6

LEMMA LoadKept ==
  ASSUME NEW largest \in Nat, \A size \in RequestSizes : size <= largest
  PROVE  Spec => []LoadInv(largest)
<1>1. Init => LoadInv(largest)
  BY DEF Init, LoadInv
<1>2. IInv /\ LoadInv(largest) /\ [Next]_vars => LoadInv(largest)'
  BY LoadStep
<1> QED
  BY <1>1, <1>2, Inductive, PTL DEF Spec

LEMMA FrameBound ==
  ASSUME NEW largest, LoadFits(largest), IInv, LoadInv(largest)
  PROVE  FrameFits
<1> SUFFICES ASSUME pc \in {"copy", "flying"} PROVE frameSize <= MTU
  BY DEF FrameFits
<1>1. HeaderLength + payloadPtr <= MTU
  BY PayloadFits
<1>4. payloadPtr \in Nat
  BY DEF IInv, TypeOK
<1>2. CASE pc = "flying"
  <2>1. frameSize = HeaderLength + IF payloadPtr < MinPayload THEN MinPayload ELSE payloadPtr
    BY <1>2 DEF IInv, LengthInv
  <2> QED
    BY <1>1, <1>4, <2>1 DEF LoadFits
<1>3. CASE pc = "copy"
  <2>1. PICK ends \in [0 .. Len(datagrams) -> 0 .. payloadPtr] :
          frameSize = HeaderLength + ends[Len(frame)]
    BY <1>3 DEF IInv, LengthInv
  <2>2. Len(frame) \in 0 .. Len(datagrams)
    BY <1>3 DEF IInv, TypeOK, FrameInv
  <2>3. ends[Len(frame)] \in 0 .. payloadPtr
    BY <2>1, <2>2
  <2> QED
    BY <1>1, <1>4, <2>1, <2>3
<1> QED
  BY <1>2, <1>3

\* No datagram is copied behind the end of the payload array, for any number of
\* controllers and any lengths with which the longest chain fits.
THEOREM Fits ==
  ASSUME NEW largest, LoadFits(largest)
  PROVE  Spec => []FrameFits
<1>1. largest \in Nat /\ \A size \in RequestSizes : size <= largest
  BY DEF LoadFits
<1>2. Spec => []LoadInv(largest)
  BY <1>1, LoadKept
<1>3. IInv /\ LoadInv(largest) => FrameFits
  BY FrameBound
<1> QED
  BY <1>2, <1>3, Inductive, PTL

\* With such chains, and an MTU the eleven bits of the length field can hold, the
\* length announced is that of what is sent, on both sides of the minimum.
THEOREM AnnouncedIsSent ==
  ASSUME NEW largest, LoadFits(largest), MTU < 2048
  PROVE  Spec => []AnnouncedLengthIsSent
<1>1. largest \in Nat /\ \A size \in RequestSizes : size <= largest
  BY DEF LoadFits
<1>2. Spec => []LoadInv(largest)
  BY <1>1, LoadKept
<1>3. IInv /\ LoadInv(largest) => AnnouncedLengthIsSent
  <2> SUFFICES ASSUME IInv, LoadInv(largest), pc = "flying"
               PROVE  announced = frameSize - HeaderLength
    BY DEF AnnouncedLengthIsSent
  <2> DEFINE padded == IF payloadPtr < MinPayload THEN MinPayload ELSE payloadPtr
  <2>1. HeaderLength + payloadPtr <= MTU
    BY PayloadFits
  <2>2. payloadPtr \in Nat
    BY DEF IInv, TypeOK
  <2>3. HeaderLength + MinPayload <= MTU
    BY DEF LoadFits
  <2>4. padded \in 0 .. 2047
    BY <2>1, <2>2, <2>3, Parameters
  <2>5. announced = padded % 2048 /\ frameSize = HeaderLength + padded
    BY DEF IInv, LengthInv, Announce
  <2> HIDE DEF padded
  <2>6. padded % 2048 = padded
    BY <2>4
  <2> QED
    BY <2>4, <2>5, <2>6, Parameters
<1> QED
  BY <1>2, <1>3, Inductive, PTL
================================================================================
