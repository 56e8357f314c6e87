---------------------------- MODULE CANopenSdoProofs ---------------------------
(***************************************************************************)
(* Proofs about the SDO transfers of CANopen, for any objects and values,   *)
(* any order of calls and any messages of the drive.                        *)
(***************************************************************************)
EXTENDS CANopenSdo, SequenceTheorems, TLAPS

USE PDOAssumption, DataAssumption

\* What the messages look like.
LEMMA RequestShape ==
  ASSUME NEW r \in Requests
  PROVE  /\ r.kind \in {"read", "write"} /\ r.object \in Objects
         /\ r.kind = "write" => r.data \in Data
         /\ r # None
BY DEF Requests, Read, Write, None

LEMMA NotEmpty ==
  ASSUME NEW s, Len(s) # 0
  PROVE  s # <<>>
OBVIOUS

\* A program has at most two calls; of two, one is left when the first returned.
LEMMA ProgramLength ==
  ASSUME NEW p \in Programs
  PROVE  /\ Len(p) \in 1 .. 2
         /\ Len(p) = 2 => Tail(p) \in {<<r>> : r \in Requests}
<1>1. CASE \E r \in Requests : p = <<r>>
  BY <1>1
<1>2. CASE \E d \in Data : p = SetPDO(d)
  <2>1. PICK d \in Data : p = <<Write(Entry, d), Write(Count, 1)>>
    BY <1>2 DEF SetPDO
  <2>2. Len(p) = 2 /\ Tail(p) = <<Write(Count, 1)>>
    BY <2>1
  <2>3. Write(Count, 1) \in Requests
    BY DEF Requests
  <2> QED
    BY <2>2, <2>3
<1> QED
  BY <1>1, <1>2 DEF Programs

\* The programs are sequences of requests about different objects.
LEMMA ProgramShape ==
  ASSUME NEW p \in Programs
  PROVE  /\ p \in Seq(Requests) /\ p # <<>>
         /\ \A i, j \in 1 .. Len(p) : i # j => p[i].object # p[j].object
<1>1. CASE \E r \in Requests : p = <<r>>
  <2>1. PICK r \in Requests : p = <<r>>
    BY <1>1
  <2>2. p \in Seq(Requests) /\ Len(p) = 1
    BY <2>1
  <2>3. Len(p) # 0
    BY <2>2
  <2>4. p # <<>>
    BY <2>3, NotEmpty, Zenon
  <2> QED
    BY <2>2, <2>4
<1>2. CASE \E d \in Data : p = SetPDO(d)
  <2>1. PICK d \in Data : p = SetPDO(d)
    BY <1>2
  <2>2. Write(Entry, d) \in Requests /\ Write(Count, 1) \in Requests
    BY DEF Requests
  <2>3. p \in Seq(Requests) /\ Len(p) = 2 /\ p[1] = Write(Entry, d) /\ p[2] = Write(Count, 1)
    BY <2>1, <2>2 DEF SetPDO
  <2>4. p[1].object = Entry /\ p[2].object = Count
    BY <2>3 DEF Write
  <2>5. ASSUME NEW i \in 1 .. Len(p), NEW j \in 1 .. Len(p), i # j
        PROVE  p[i].object # p[j].object
    <3>1. (i = 1 /\ j = 2) \/ (i = 2 /\ j = 1)
      BY <2>3, <2>5
    <3> QED
      BY <3>1, <2>4
  <2>6. Len(p) # 0
    BY <2>3
  <2>7. p # <<>>
    BY <2>6, NotEmpty, Zenon
  <2> QED
    BY <2>3, <2>5, <2>7
<1> QED
  BY <1>1, <1>2 DEF Programs

LEMMA InitInv == Init => IInv
<1> SUFFICES ASSUME Init PROVE IInv
  OBVIOUS
<1>1. disturbed \in BOOLEAN
  BY Zenon DEF Init
<1> QED
  BY <1>1 DEF Init, IInv, ProgramInv, ShapeInv, MailboxInv, CallInv, FinishedInv

--------------------------------------------------------------------------------
(* What a step does to the calls.                                              *)

LEMMA ProgramStep == IInv /\ [Next]_vars => ProgramInv' /\ MailboxInv'
<1> SUFFICES ASSUME IInv, [Next]_vars PROVE ProgramInv' /\ MailboxInv'
  OBVIOUS
<1> USE DEF IInv, ProgramInv, MailboxInv
<1>1. CASE Begin
  <2>1. /\ program' \in Seq(Requests) /\ program' # <<>>
        /\ \A i, j \in 1 .. Len(program') : i # j => program'[i].object # program'[j].object
    BY <1>1, ProgramShape DEF Begin
  <2> QED
    BY <1>1, <2>1 DEF Begin
<1>2. CASE Check
  <2>1. CASE outMBox = None
    BY <1>2, <2>1 DEF Check
  <2>2. CASE outMBox # None
    BY <1>2, <2>2 DEF Check, Throw
  <2> QED
    BY <2>1, <2>2
<1>3. CASE WriteMailbox
  BY <1>3 DEF WriteMailbox
<1>4. CASE AwaitReply
  BY <1>4 DEF AwaitReply
<1>5. CASE ReadMailbox
  <2>1. CASE Answers(Head(program), inMBox)
    <3> DEFINE call == Head(program)
               entry == [object |-> call.object, data |->
                           IF call.kind = "read" THEN inMBox.data ELSE call.data]
    <3>1. /\ program # <<>> /\ program' = Tail(program) /\ pc' = "check"
          /\ finished' = Append(finished, entry) /\ outMBox' = outMBox
      BY <1>5, <2>1 DEF ReadMailbox
    <3>2. /\ program' \in Seq(Requests) /\ Len(program') = Len(program) - 1
          /\ Len(program) \in Nat /\ \A i \in 1 .. Len(program') : program'[i] = program[i + 1]
      BY <3>1, HeadTailProperties
    <3>3. call = program[1] /\ call \in Requests /\ 1 \in 1 .. Len(program)
      BY <3>1
    <3>4. call.object \in Objects /\ (call.kind = "write" => call.data \in Data)
          /\ call.kind \in {"read", "write"}
      BY <3>3, RequestShape
    <3>5. call.kind = "read" => inMBox.data \in Data
      BY <2>1 DEF Answers, Replies, None
    <3>6. entry \in [object : Objects, data : Data] /\ entry.object = program[1].object
      BY <3>3, <3>4, <3>5
    <3> HIDE DEF call, entry
    <3>7. /\ finished' \in Seq([object : Objects, data : Data])
          /\ Len(finished') = Len(finished) + 1 /\ Len(finished) \in Nat
          /\ finished'[Len(finished) + 1] = entry
          /\ \A i \in 1 .. Len(finished) : finished'[i] = finished[i]
      BY <3>1, <3>6, AppendProperties
    <3>8. ASSUME NEW i \in 1 .. Len(program'), NEW j \in 1 .. Len(program'), i # j
          PROVE  program'[i].object # program'[j].object
      <4>1. i + 1 \in 1 .. Len(program) /\ j + 1 \in 1 .. Len(program) /\ i + 1 # j + 1
        BY <3>2, <3>8
      <4> QED
        BY <4>1, <3>2
    <3>9. ASSUME NEW i \in 1 .. Len(finished'), NEW j \in 1 .. Len(program')
          PROVE  finished'[i].object # program'[j].object
      <4>1. j + 1 \in 1 .. Len(program) /\ j + 1 # 1 /\ program'[j] = program[j + 1]
        BY <3>2
      <4>2. CASE i \in 1 .. Len(finished)
        BY <4>1, <4>2, <3>7
      <4>3. CASE i = Len(finished) + 1
        <5>1. finished'[i].object = program[1].object
          BY <4>3, <3>6, <3>7
        <5> QED
          BY <4>1, <5>1, <3>3
      <4> QED
        BY <4>2, <4>3, <3>7
    <3> QED
      BY <3>1, <3>2, <3>7, <3>8, <3>9
  <2>2. CASE ~Answers(Head(program), inMBox)
    <3>1. pc' = "check" /\ program' = <<>> /\ UNCHANGED <<finished, outMBox>>
      BY <1>5, <2>2 DEF ReadMailbox, Throw
    <3> QED
      BY <3>1
  <2> QED
    BY <2>1, <2>2
<1>6. CASE AccessThrows
  BY <1>6 DEF AccessThrows, Throw
<1>7. CASE TakeRequest \/ Serve \/ SendUnsolicited
  BY <1>7 DEF TakeRequest, Serve, SendUnsolicited
<1>8. CASE UNCHANGED vars
  BY <1>8 DEF vars
<1> QED
  BY <1>1, <1>2, <1>3, <1>4, <1>5, <1>6, <1>7, <1>8 DEF Next, Call, Drive

\* What is left of a program, and what it made so far.
LEMMA ShapeStep == IInv /\ [Next]_vars => ShapeInv'
<1> SUFFICES ASSUME IInv, [Next]_vars PROVE ShapeInv'
  OBVIOUS
<1>1. /\ program \in {<<>>} \cup {<<r>> : r \in Requests} \cup Programs
      /\ Len(finished) + Len(program) <= 2
      /\ Len(finished) \in Nat /\ Len(program) \in Nat
  BY DEF IInv, ShapeInv, ProgramInv
<1>2. CASE UNCHANGED <<program, finished>>
  BY <1>1, <1>2 DEF ShapeInv
<1>3. CASE program' = <<>> /\ finished' = finished
  BY <1>1, <1>3 DEF ShapeInv
<1>4. CASE Begin
  <2>1. program' \in Programs /\ finished' = <<>>
    BY <1>4 DEF Begin
  <2>2. Len(program') \in 1 .. 2 /\ Len(finished') = 0
    BY <2>1, ProgramLength
  <2>3. Len(finished') + Len(program') <= 2
    <3> DEFINE made == Len(finished')
               left == Len(program')
    <3>1. left \in 1 .. 2 /\ made = 0
      BY <2>2
    <3> HIDE DEF made, left
    <3>2. made + left <= 2
      BY <3>1
    <3> QED
      BY <3>2 DEF made, left
  <2> QED
    BY <2>1, <2>3, Zenon DEF ShapeInv
<1>5. CASE ReadMailbox /\ Answers(Head(program), inMBox)
  <2>1. /\ program' = Tail(program) /\ program # <<>>
        /\ \E e : finished' = Append(finished, e)
    BY <1>5, Zenon DEF ReadMailbox, IInv, ProgramInv
  <2>2. Len(program) # 0 /\ Len(program') = Len(program) - 1
    BY <2>1 DEF IInv, ProgramInv
  <2>3. Len(finished') = Len(finished) + 1
    <3>1. PICK e : finished' = Append(finished, e)
      BY <2>1
    <3> QED
      BY <3>1 DEF IInv, ProgramInv
  <2>4. program' \in {<<>>} \cup {<<r>> : r \in Requests}
    <3>1. CASE Len(program) = 1
      BY <2>1, <2>2, <3>1 DEF IInv, ProgramInv
    <3>2. CASE Len(program) # 1
      <4>1. program \notin {<<r>> : r \in Requests}
        BY <3>2
      <4>2. program \in Programs
        BY <1>1, <2>1, <4>1
      <4> QED
        BY <2>1, <3>2, <4>2, ProgramLength
    <3> QED
      BY <3>1, <3>2
  <2>5. Len(finished') + Len(program') <= 2
    BY <1>1, <2>2, <2>3
  <2> QED
    BY <2>4, <2>5, Zenon DEF ShapeInv
<1>6. CASE ReadMailbox /\ ~Answers(Head(program), inMBox)
  BY <1>3, <1>6 DEF ReadMailbox, Throw
<1>7. CASE Check \/ AccessThrows
  BY <1>2, <1>3, <1>7 DEF Check, AccessThrows, Throw
<1>8. CASE WriteMailbox \/ AwaitReply \/ TakeRequest \/ Serve \/ SendUnsolicited \/ UNCHANGED vars
  BY <1>2, <1>8 DEF WriteMailbox, AwaitReply, TakeRequest, Serve, SendUnsolicited, vars
<1> QED
  BY <1>4, <1>5, <1>6, <1>7, <1>8 DEF Next, Call, Drive

\* The request of the call under way, and what the drive made of it.
LEMMA CallStep == IInv /\ [Next]_vars => CallInv'
<1> SUFFICES ASSUME IInv, [Next]_vars, ~disturbed' PROVE CallInv'
  BY DEF CallInv
<1> USE DEF IInv, CallInv
<1>1. ~disturbed
  BY DEF Next, Begin, Call, Check, WriteMailbox, AwaitReply, ReadMailbox, AccessThrows,
         Drive, TakeRequest, Serve, SendUnsolicited, vars
<1>2. program # <<>> => Head(program) = program[1] /\ program[1] \in Requests
  BY DEF ProgramInv
<1>3. pc # "check" => program # <<>>
  BY DEF ProgramInv
<1>4. CASE Begin
  <2>1. pc = "check"
    BY <1>3, <1>4 DEF Begin
  <2> QED
    BY <1>1, <1>4, <2>1 DEF Begin
<1>5. CASE Check
  BY <1>1, <1>5 DEF Check, Throw
<1>6. CASE WriteMailbox
  BY <1>1, <1>2, <1>3, <1>6 DEF WriteMailbox
<1>7. CASE AwaitReply
  BY <1>1, <1>7 DEF AwaitReply, ReplyIsTrue
<1>8. CASE ReadMailbox
  BY <1>1, <1>8 DEF ReadMailbox, Throw
<1>9. CASE AccessThrows
  <2>1. pc \notin {"await", "read"}
    BY <1>9, Zenon DEF AccessThrows
  <2>2. pc \in {"check", "write"}
    BY <2>1 DEF ProgramInv
  <2> QED
    BY <1>1, <1>9, <2>2 DEF AccessThrows, Throw
<1>10. CASE TakeRequest
  BY <1>1, <1>10 DEF TakeRequest
<1>11. CASE Serve
  <2>1. pc = "await" /\ serving = program[1] /\ outMBox = None /\ inMBox = None
    BY <1>1, <1>11 DEF Serve, ProgramInv
  <2>2. program[1] \in Requests
    BY <1>2, <1>3, <2>1
  <2>3. /\ inMBox' # None /\ serving' = None /\ outMBox' = None
        /\ pc' = pc /\ program' = program
    BY <1>11, <2>1 DEF Serve, None
  <2>4. ReplyIsTrue'
    <3> DEFINE call == program[1]
    <3>1. call.kind \in {"read", "write"} /\ call.object \in Objects
      BY <2>2, RequestShape
    <3>2. CASE /\ call.kind = "read" /\ UNCHANGED dictionary
               /\ inMBox' = [kind |-> "upload", data |-> dictionary[call.object]]
      BY <2>3, <3>2 DEF ReplyIsTrue, Answers
    <3>3. CASE /\ call.kind = "write" /\ inMBox' = [kind |-> "download"]
               /\ dictionary' = [dictionary EXCEPT ![call.object] = call.data]
      BY <2>3, <3>1, <3>3 DEF ReplyIsTrue, Answers
    <3>4. CASE inMBox' = [kind |-> "abort"]
      BY <2>3, <3>4 DEF ReplyIsTrue, Answers
    <3> QED
      BY <1>11, <2>1, <3>2, <3>3, <3>4 DEF Serve
  <2> QED
    BY <1>1, <2>1, <2>3, <2>4
<1>12. CASE SendUnsolicited
  BY <1>12 DEF SendUnsolicited
<1>13. CASE UNCHANGED vars
  BY <1>1, <1>13 DEF vars, ReplyIsTrue
<1> QED
  BY <1>4, <1>5, <1>6, <1>7, <1>8, <1>9, <1>10, <1>11, <1>12, <1>13 DEF Next, Call, Drive

\* The calls that returned, while the drive goes on to the next one's object.
LEMMA FinishedStep == IInv /\ [Next]_vars => FinishedInv'
<1> SUFFICES ASSUME IInv, [Next]_vars, ~disturbed' PROVE FinishedInv'
  BY DEF FinishedInv
<1> USE DEF IInv, FinishedInv
<1>1. ~disturbed
  BY DEF Next, Begin, Call, Check, WriteMailbox, AwaitReply, ReadMailbox, AccessThrows,
         Drive, TakeRequest, Serve, SendUnsolicited, vars
<1>2. CASE Begin
  BY <1>2 DEF Begin
<1>3. CASE Check \/ WriteMailbox \/ AwaitReply \/ AccessThrows \/ TakeRequest \/ UNCHANGED vars
  BY <1>1, <1>3 DEF Check, WriteMailbox, AwaitReply, AccessThrows, TakeRequest, vars
<1>4. CASE ReadMailbox
  <2>1. CASE Answers(Head(program), inMBox)
    <3> DEFINE call == Head(program)
               entry == [object |-> call.object, data |->
                           IF call.kind = "read" THEN inMBox.data ELSE call.data]
    <3>1. program # <<>> /\ pc = "read" /\ dictionary' = dictionary
          /\ finished' = Append(finished, entry)
      BY <1>4, <2>1 DEF ReadMailbox, ProgramInv
    <3>2. call = program[1] /\ call \in Requests
      BY <3>1 DEF ProgramInv
    <3>3. ReplyIsTrue
      BY <1>1, <3>1 DEF CallInv
    <3>4. dictionary[entry.object] = entry.data
      BY <2>1, <3>2, <3>3 DEF ReplyIsTrue
    <3>5. /\ call.object \in Objects /\ (call.kind = "write" => call.data \in Data)
          /\ call.kind \in {"read", "write"}
      BY <3>2, RequestShape
    <3>6. call.kind = "read" => inMBox.data \in Data
      BY <2>1 DEF Answers, Replies, None
    <3>7. entry \in [object : Objects, data : Data]
      BY <3>5, <3>6
    <3> HIDE DEF call, entry
    <3>8. /\ Len(finished') = Len(finished) + 1 /\ Len(finished) \in Nat
          /\ finished'[Len(finished) + 1] = entry
          /\ \A i \in 1 .. Len(finished) : finished'[i] = finished[i]
      BY <3>1, <3>7, AppendProperties DEF ProgramInv
    <3>9. ASSUME NEW i \in 1 .. Len(finished')
          PROVE  dictionary'[finished'[i].object] = finished'[i].data
      <4>1. CASE i \in 1 .. Len(finished)
        BY <1>1, <3>1, <3>8, <4>1
      <4>2. CASE i = Len(finished) + 1
        BY <3>1, <3>4, <3>8, <4>2
      <4> QED
        BY <3>8, <4>1, <4>2
    <3> QED
      BY <3>9
  <2>2. CASE ~Answers(Head(program), inMBox)
    <3>1. finished' = finished /\ dictionary' = dictionary
      BY <1>4, <2>2 DEF ReadMailbox
    <3> QED
      BY <1>1, <3>1
  <2> QED
    BY <2>1, <2>2
<1>5. CASE Serve
  <2>1. pc = "await" /\ serving = program[1] /\ finished' = finished
    BY <1>1, <1>5 DEF Serve, ProgramInv, CallInv
  <2>2. program # <<>> /\ 1 \in 1 .. Len(program) /\ program[1] \in Requests
    BY <2>1 DEF ProgramInv
  <2>3. serving.object \in Objects
    BY <2>1, <2>2, RequestShape
  <2>4. \A o \in Objects : o # serving.object => dictionary'[o] = dictionary[o]
    BY <1>5, <2>3 DEF Serve
  <2>5. ASSUME NEW i \in 1 .. Len(finished')
        PROVE  dictionary'[finished'[i].object] = finished'[i].data
    <3>1. finished[i].object # serving.object
      BY <2>1, <2>2, <2>5 DEF ProgramInv
    <3>2. finished[i].object \in Objects
      <4>1. finished[i] \in [object : Objects, data : Data]
        BY <2>1, <2>5, ElementOfSeq DEF ProgramInv
      <4> QED
        BY <4>1
    <3> QED
      BY <1>1, <2>1, <2>4, <2>5, <3>1, <3>2
  <2> QED
    BY <2>5
<1>6. CASE SendUnsolicited
  BY <1>6 DEF SendUnsolicited
<1> QED
  BY <1>2, <1>3, <1>4, <1>5, <1>6 DEF Next, Call, Drive

\* The dictionary keeps its type and the mailboxes their messages.
LEMMA DriveStep ==
  IInv /\ [Next]_vars =>
    /\ dictionary' \in [Objects -> Data] /\ disturbed' \in BOOLEAN
    /\ {outMBox', serving'} \subseteq Requests \cup {None} /\ inMBox' \in Replies \cup {None}
<1> SUFFICES ASSUME IInv, [Next]_vars
             PROVE  /\ dictionary' \in [Objects -> Data] /\ disturbed' \in BOOLEAN
                    /\ {outMBox', serving'} \subseteq Requests \cup {None}
                    /\ inMBox' \in Replies \cup {None}
  OBVIOUS
<1> USE DEF IInv
<1>1. CASE Begin \/ Check \/ AwaitReply \/ TakeRequest \/ UNCHANGED vars
  BY <1>1 DEF Begin, Check, AwaitReply, TakeRequest, vars
<1>2. CASE WriteMailbox
  <2>1. Head(program) \in Requests
    BY <1>2 DEF WriteMailbox, ProgramInv
  <2> QED
    BY <1>2, <2>1 DEF WriteMailbox
<1>3. CASE ReadMailbox
  BY <1>3 DEF ReadMailbox
<1>4. CASE AccessThrows
  <2>1. disturbed' \in BOOLEAN
    BY <1>4, Zenon DEF AccessThrows
  <2> QED
    BY <1>4, <2>1 DEF AccessThrows
<1>5. CASE SendUnsolicited
  BY <1>5 DEF SendUnsolicited
<1>6. CASE Serve
  <2>1. serving.object \in Objects /\ (serving.kind = "write" => serving.data \in Data)
    BY <1>6, RequestShape DEF Serve
  <2>2. dictionary' \in [Objects -> Data]
    BY <1>6, <2>1 DEF Serve
  <2>3. dictionary[serving.object] \in Data
    BY <2>1
  <2>4. inMBox' \in Replies
    BY <1>6, <2>3 DEF Serve, Replies
  <2> QED
    BY <1>6, <2>2, <2>4 DEF Serve
<1> QED
  BY <1>1, <1>2, <1>3, <1>4, <1>5, <1>6 DEF Next, Call, Drive

\* The invariant is inductive.
THEOREM Inductive == Spec => []IInv
<1>1. IInv /\ [Next]_vars => IInv'
  BY ProgramStep, ShapeStep, CallStep, FinishedStep, DriveStep DEF IInv
<1> QED
  BY <1>1, InitInv, PTL DEF Spec

--------------------------------------------------------------------------------
(* What follows.                                                               *)

\* A call that returned read the object it was to read or wrote the one it was to
\* write, for any number of earlier calls, interrupted ones included.
THEOREM CallsTakeEffect == Spec => []FinishedCallsTookEffect
<1>1. IInv => FinishedCallsTookEffect
  BY DEF IInv, FinishedInv, FinishedCallsTookEffect
<1> QED
  BY <1>1, Inductive, PTL

\* A call that returned, or threw at an abort of the drive, leaves both mailboxes
\* empty, if no call was cut short before it.
THEOREM MailboxesAreLeftEmpty == Spec => []CallsLeaveNothingBehind
<1>1. IInv => CallsLeaveNothingBehind
  BY DEF IInv, CallInv, CallsLeaveNothingBehind
<1> QED
  BY <1>1, Inductive, PTL

\* No request is written over another, also after interrupted calls and with
\* messages of the drive that nobody asked for.
THEOREM RequestsAreNotOverwritten == Spec => RequestIsNotOverwritten
<1>1. IInv /\ [Next]_vars => [outMBox # None /\ outMBox' # None => outMBox' = outMBox]_vars
  <2> SUFFICES ASSUME IInv, [Next]_vars, outMBox # None, outMBox' # None
               PROVE  outMBox' = outMBox
    OBVIOUS
  <2>1. ~WriteMailbox
    BY DEF IInv, MailboxInv, WriteMailbox
  <2>2. ~TakeRequest
    BY DEF TakeRequest
  <2> QED
    BY <2>1, <2>2 DEF Next, Begin, Call, Check, AwaitReply, ReadMailbox, AccessThrows,
       Drive, Serve, SendUnsolicited, vars
<1> QED
  BY <1>1, Inductive, PTL DEF Spec, RequestIsNotOverwritten

\* The types.  A call never returns more than a program has calls.
THEOREM TypeCorrect == Spec => []TypeOK
<1>1. IInv => TypeOK
  <2> SUFFICES ASSUME IInv PROVE TypeOK
    OBVIOUS
  <2>1. Len(finished) <= 2
    BY DEF IInv, ShapeInv, ProgramInv
  <2> QED
    BY <2>1, Zenon DEF IInv, ShapeInv, ProgramInv, TypeOK
<1> QED
  BY <1>1, Inductive, PTL

--------------------------------------------------------------------------------
(* The refinement.                                                             *)

LEMMA SameCarried ==
  ASSUME Carried' <=> Carried
  PROVE  UNCHANGED Carried
BY DEF Carried

\* An answer in the mailbox is about the call that waits for it.
LEMMA CarriedCall ==
  ASSUME IInv, ~disturbed, Carried
  PROVE  /\ program # <<>> /\ outMBox = None /\ serving = None /\ inMBox # None
         /\ dictionary[Head(program).object] =
              IF Head(program).kind = "read" THEN inMBox.data ELSE Head(program).data
<1>1. pc \in {"await", "read"} /\ program # <<>> /\ Head(program) = program[1]
  BY DEF Carried, IInv, ProgramInv
<1>2. inMBox # None
  BY DEF Carried, Answers, None
<1>3. ReplyIsTrue /\ outMBox = None /\ serving = None
  BY <1>1, <1>2 DEF IInv, CallInv
<1> QED
  BY <1>1, <1>2, <1>3 DEF ReplyIsTrue, Carried

\* Every step is one of the transfer's, or none.
LEMMA TransferStep == IInv /\ [Next]_vars => [Transfer!Next]_Transfer!vars
<1> SUFFICES ASSUME IInv, [Next]_vars, ~disturbed' PROVE [Transfer!Next]_Transfer!vars
  BY DEF Transfer!Next, Transfer!Disturbed
<1>1. ~disturbed /\ UNCHANGED disturbed
  BY DEF IInv, Next, Begin, Call, Check, WriteMailbox, AwaitReply, ReadMailbox, AccessThrows,
         Drive, TakeRequest, Serve, SendUnsolicited, vars
<1>2. pc \in {"check", "write", "await", "read"} /\ (pc # "check" => program # <<>>)
  BY DEF IInv, ProgramInv
<1>3. CASE Begin
  <2>1. pc = "check" /\ ~Carried /\ ~Carried'
    BY <1>2, <1>3 DEF Begin, Carried
  <2> QED
    BY <1>1, <1>3, <2>1, SameCarried, Zenon DEF Begin, Transfer!Next, Transfer!Begin
<1>4. CASE Check
  <2>1. outMBox = None /\ program # <<>>
    BY <1>1, <1>4 DEF Check, IInv, CallInv
  <2>2. pc' = "write" /\ UNCHANGED <<program, dictionary, finished>> /\ ~Carried /\ ~Carried'
    BY <1>4, <2>1 DEF Check, Carried
  <2> QED
    BY <1>1, <2>2, SameCarried, Zenon DEF Transfer!vars
<1>5. CASE WriteMailbox
  <2>1. inMBox = None /\ ~Carried /\ ~Carried'
    BY <1>1, <1>5 DEF WriteMailbox, IInv, CallInv, Carried, Answers, None
  <2> QED
    BY <1>1, <1>5, <2>1, SameCarried, Zenon DEF WriteMailbox, Transfer!vars
<1>6. CASE AwaitReply
  <2>1. Carried' <=> Carried
    BY <1>6 DEF AwaitReply, Carried
  <2> QED
    BY <1>1, <1>6, <2>1, SameCarried, Zenon DEF AwaitReply, Transfer!vars
<1>7. CASE ReadMailbox
  <2>1. pc = "read" /\ program # <<>> /\ pc' = "check" /\ ~Carried' /\ UNCHANGED dictionary
    BY <1>2, <1>7 DEF ReadMailbox, Throw, Carried
  <2>2. CASE Answers(Head(program), inMBox)
    <3>1. Carried
      BY <2>1, <2>2 DEF Carried
    <3>2. dictionary[Head(program).object] =
            IF Head(program).kind = "read" THEN inMBox.data ELSE Head(program).data
      BY <1>1, <3>1, CarriedCall
    <3>3. /\ program' = Tail(program)
          /\ finished' = Append(finished, [object |-> Head(program).object,
                                          data |-> dictionary[Head(program).object]])
      BY <1>7, <2>2, <3>2 DEF ReadMailbox
    <3> QED
      BY <1>1, <2>1, <3>1, <3>3, Zenon DEF Transfer!Next, Transfer!Return
  <2>3. CASE ~Answers(Head(program), inMBox)
    <3>1. ~Carried /\ program' = <<>> /\ UNCHANGED finished
      BY <1>7, <2>3 DEF ReadMailbox, Throw, Carried
    <3> QED
      BY <1>1, <2>1, <3>1, SameCarried, Zenon DEF Transfer!Next, Transfer!Fail
  <2> QED
    BY <2>2, <2>3
<1>8. CASE AccessThrows
  <2>1. pc \notin {"await", "read"}
    BY <1>8, Zenon DEF AccessThrows
  <2>2. ~Carried /\ ~Carried' /\ program # <<>> /\ program' = <<>>
        /\ UNCHANGED <<dictionary, finished>>
    BY <1>8, <2>1 DEF AccessThrows, Throw, Carried
  <2> QED
    BY <1>1, <2>2, SameCarried, Zenon DEF Transfer!Next, Transfer!Fail
<1>9. CASE TakeRequest
  <2>1. Carried' <=> Carried
    BY <1>9 DEF TakeRequest, Carried
  <2> QED
    BY <1>1, <1>9, <2>1, SameCarried, Zenon DEF TakeRequest, Transfer!vars
<1>10. CASE Serve
  <2>1. /\ pc = "await" /\ serving = program[1] /\ inMBox = None
        /\ pc' = pc /\ program' = program /\ finished' = finished
    BY <1>1, <1>2, <1>10 DEF Serve, IInv, CallInv
  <2>2. program # <<>> /\ Head(program) = program[1] /\ program[1] \in Requests
    BY <1>2, <2>1 DEF IInv, ProgramInv
  <2>3. ~Carried
    BY <2>1 DEF Carried, Answers, None
  <2>4. CASE /\ serving.kind = "read" /\ UNCHANGED dictionary
             /\ inMBox' = [kind |-> "upload", data |-> dictionary[serving.object]]
    <3>1. Carried' /\ Head(program).kind # "write"
      BY <2>1, <2>2, <2>4 DEF Carried, Answers
    <3> QED
      BY <1>1, <2>1, <2>2, <2>3, <2>4, <3>1, Zenon DEF Transfer!Next, Transfer!CarryOut
  <2>5. CASE /\ serving.kind = "write" /\ inMBox' = [kind |-> "download"]
             /\ dictionary' = [dictionary EXCEPT ![serving.object] = serving.data]
    <3>1. Carried' /\ Head(program).kind = "write"
      BY <2>1, <2>2, <2>5 DEF Carried, Answers
    <3>2. dictionary' = [dictionary EXCEPT ![Head(program).object] = Head(program).data]
      BY <2>1, <2>2, <2>5
    <3> QED
      BY <1>1, <2>1, <2>2, <2>3, <3>1, <3>2, Zenon DEF Transfer!Next, Transfer!CarryOut
  <2>6. CASE inMBox' = [kind |-> "abort"] /\ UNCHANGED dictionary
    <3>1. ~Carried'
      BY <2>6 DEF Carried, Answers
    <3> QED
      BY <1>1, <2>1, <2>3, <2>6, <3>1, SameCarried, Zenon DEF Transfer!vars
  <2> QED
    BY <1>10, <2>4, <2>5, <2>6 DEF Serve
<1>11. CASE SendUnsolicited
  BY <1>11 DEF SendUnsolicited
<1>12. CASE UNCHANGED vars
  BY <1>12 DEF vars, Carried, Transfer!vars
<1> QED
  BY <1>3, <1>4, <1>5, <1>6, <1>7, <1>8, <1>9, <1>10, <1>11, <1>12 DEF Next, Call, Drive

\* The calls do what SdoTransfer promises: carried out once and in order before they
\* return, or not at all when they throw, as long as nothing disturbs the mailboxes.
THEOREM Implements == Spec => ImplementsTransfer
<1>1. Init => Transfer!Init
  BY DEF Init, Carried, Transfer!Init
<1> QED
  BY <1>1, TransferStep, Inductive, PTL DEF Spec, ImplementsTransfer, Transfer!Spec
================================================================================
