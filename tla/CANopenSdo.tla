------------------------------- MODULE CANopenSdo ------------------------------
(***************************************************************************)
(* EtherCAT::CANopen on top of the mailbox half of SyncManager: ReadSDO,    *)
(* WriteSDO and the two-call SetInputPDO and SetOutputPDO, which write to   *)
(* and read from the object dictionary of a drive through two one-message   *)
(* mailboxes.                                                              *)
(*                                                                         *)
(* The drive takes a request out of its mailbox, works on it, and answers   *)
(* when the other mailbox is empty; it may also send a message nobody asked *)
(* for.  Requests and replies carry no number, and the object looks at      *)
(* nothing of a reply but its command.  A register or mailbox access that   *)
(* no slave answers throws, in the middle of a call; callers may go on.     *)
(* The mailboxes are configured as Master::Setup does.                      *)
(***************************************************************************)
EXTENDS Sequences, Naturals

CONSTANTS
  Objects,       \* entries of the object dictionary
  Entry, Count,  \* two of them: the PDO assignment and the number of PDOs
  Data           \* the values an object can have

ASSUME PDOAssumption == {Entry, Count} \subseteq Objects /\ Entry # Count
ASSUME DataAssumption == 1 \in Data

VARIABLES
  pc,         \* where the calling thread is in the first call of program
  program,    \* the calls still to make, the one under way first
  outMBox,    \* the request in the mailbox to the drive
  inMBox,     \* the message in the mailbox from the drive
  serving,    \* the request the drive works on
  dictionary, \* the drive's objects
  finished,   \* the calls made since program began, with what they returned
  disturbed   \* may a message be in the mailboxes that nobody waits for?

vars == <<pc, program, outMBox, inMBox, serving, dictionary, finished, disturbed>>

None == [kind |-> "none"]
Read(object) == [kind |-> "read", object |-> object]
Write(object, data) == [kind |-> "write", object |-> object, data |-> data]

Requests == {Read(o) : o \in Objects} \cup {Write(o, d) : o \in Objects, d \in Data}

\* What a reply's command and data say; "other" is anything the object throws for.
Replies ==
  {[kind |-> "upload", data |-> d] : d \in Data}
    \cup {[kind |-> k] : k \in {"download", "abort", "other"}}

Init ==
  /\ pc = "check" /\ program = <<>>
  /\ outMBox = None /\ inMBox = None /\ serving = None
  /\ dictionary \in [Objects -> Data]
  /\ finished = <<>> /\ disturbed = FALSE

--------------------------------------------------------------------------------
(* Faulty variants, for mutation analysis.                                     *)

\* WriteMailbox without the check of MailboxFull.
CheckNothing ==
  /\ pc = "check" /\ program # <<>>
  /\ pc' = "write"
  /\ UNCHANGED <<program, outMBox, inMBox, serving, dictionary, finished, disturbed>>

\* The call ends when the request is written.
WriteOnly ==
  /\ pc = "write"
  /\ outMBox' = Head(program)
  /\ pc' = "check"
  /\ program' = Tail(program)
  /\ finished' = Append(finished, [object |-> Head(program).object, data |-> 1])
  /\ UNCHANGED <<inMBox, serving, dictionary, disturbed>>

\* An abort is taken for an answer.
AnsweredOrAborted(call, reply) ==
  \/ reply.kind = "abort" /\ call.kind = "write"
  \/ call.kind = "write" /\ reply.kind = "download"
  \/ call.kind = "read" /\ reply.kind = "upload"

\* The loop on MailboxFull is left when the mailbox is empty.
AwaitEmpty ==
  /\ pc = "await"
  /\ inMBox = None /\ serving = None /\ outMBox = None
  /\ pc' = "read"
  /\ UNCHANGED <<program, outMBox, inMBox, serving, dictionary, finished, disturbed>>

\* As long as no answer came, the request is written again.
AwaitResending ==
  /\ pc = "await"
  /\ pc' = IF inMBox # None THEN "read" ELSE "check"
  /\ UNCHANGED <<program, outMBox, inMBox, serving, dictionary, finished, disturbed>>

--------------------------------------------------------------------------------
(* The object.                                                                 *)

\* SetInputPDO and SetOutputPDO: the assignment, then the number of PDOs.
SetPDO(pdo) == <<Write(Entry, pdo), Write(Count, 1)>>

Programs == {<<r>> : r \in Requests} \cup {SetPDO(d) : d \in Data}

Begin ==
  /\ program = <<>>
  /\ program' \in Programs
  /\ finished' = <<>>
  /\ UNCHANGED <<pc, outMBox, inMBox, serving, dictionary, disturbed>>

\* The exception leaves every call that is still to make unmade.
Throw ==
  /\ pc' = "check"
  /\ program' = <<>>

\* With a request still in the mailbox the call throws.
Check ==
  /\ pc = "check" /\ program # <<>>
  /\ IF outMBox = None
     THEN pc' = "write" /\ UNCHANGED program
     ELSE Throw
  /\ UNCHANGED <<outMBox, inMBox, serving, dictionary, finished, disturbed>>

WriteMailbox ==
  /\ pc = "write"
  /\ outMBox' = Head(program)
  /\ pc' = "await"
  /\ UNCHANGED <<program, inMBox, serving, dictionary, finished, disturbed>>

\* MailboxFull is polled until it is true.
AwaitReply ==
  /\ pc = "await"
  /\ inMBox # None
  /\ pc' = "read"
  /\ UNCHANGED <<program, outMBox, inMBox, serving, dictionary, finished, disturbed>>

\* The command a call accepts.
Answers(call, reply) ==
  \/ call.kind = "write" /\ reply.kind = "download"
  \/ call.kind = "read" /\ reply.kind = "upload"

\* Reading the mailbox empties it, whatever the message turns out to be.
ReadMailbox ==
  /\ pc = "read"
  /\ inMBox' = None
  /\ LET call == Head(program) IN
     IF Answers(call, inMBox)
     THEN /\ pc' = "check"
          /\ program' = Tail(program)
          /\ finished' = Append(finished, [object |-> call.object, data |->
               IF call.kind = "read" THEN inMBox.data ELSE call.data])
     ELSE Throw /\ UNCHANGED finished
  /\ UNCHANGED <<outMBox, serving, dictionary, disturbed>>

\* No slave answers an access of the call.
AccessThrows ==
  /\ program # <<>>
  /\ Throw
  /\ disturbed' = (disturbed \/ pc \in {"await", "read"})
  /\ UNCHANGED <<outMBox, inMBox, serving, dictionary, finished>>

--------------------------------------------------------------------------------
(* The drive.                                                                  *)

TakeRequest ==
  /\ outMBox # None /\ serving = None
  /\ serving' = outMBox
  /\ outMBox' = None
  /\ UNCHANGED <<pc, program, inMBox, dictionary, finished, disturbed>>

Serve ==
  /\ serving # None /\ inMBox = None
  /\ \/ serving.kind = "read"
        /\ inMBox' = [kind |-> "upload", data |-> dictionary[serving.object]]
        /\ UNCHANGED dictionary
     \/ serving.kind = "write"
        /\ inMBox' = [kind |-> "download"]
        /\ dictionary' = [dictionary EXCEPT ![serving.object] = serving.data]
     \/ inMBox' = [kind |-> "abort"] /\ UNCHANGED dictionary
  /\ serving' = None
  /\ UNCHANGED <<pc, program, outMBox, finished, disturbed>>

\* An emergency, or a message of another mailbox protocol.  The first bytes of an
\* emergency may look like any reply.
SendUnsolicited ==
  /\ inMBox = None
  /\ inMBox' \in Replies
  /\ disturbed' = TRUE
  /\ UNCHANGED <<pc, program, outMBox, serving, dictionary, finished>>

--------------------------------------------------------------------------------
Call == Check \/ WriteMailbox \/ AwaitReply \/ ReadMailbox

Drive == TakeRequest \/ Serve

Next == Begin \/ Call \/ AccessThrows \/ Drive \/ SendUnsolicited

Spec == Init /\ [][Next]_vars

\* The thread goes on, and the drive serves the requests it is sent.
FairSpec == Spec /\ WF_vars(Call) /\ WF_vars(Drive)

--------------------------------------------------------------------------------
(* Properties.                                                                 *)

TypeOK ==
  /\ pc \in {"check", "write", "await", "read"}
  /\ program \in {<<>>} \cup {<<r>> : r \in Requests} \cup Programs
  /\ pc # "check" => program # <<>>
  /\ {outMBox, serving} \subseteq Requests \cup {None}
  /\ inMBox \in Replies \cup {None}
  /\ dictionary \in [Objects -> Data]
  /\ Len(finished) <= 2
  /\ disturbed \in BOOLEAN

\* "If it's full, it means the slave hasn't read the previous request": a request
\* is never written over another, whatever became of earlier calls.
RequestIsNotOverwritten ==
  [][outMBox # None /\ outMBox' # None => outMBox' = outMBox]_vars

\* When every call of ReadSDO, WriteSDO or SetXxxPDO returned, the drive's objects
\* are what was written and what was read: no call takes the answer of another
\* for its own, in mailboxes that only calls which came to their end have used.
FinishedCallsTookEffect ==
  program = <<>> /\ ~disturbed =>
    \A i \in 1 .. Len(finished) : dictionary[finished[i].object] = finished[i].data

\* A call that returned, or threw at an abort of the drive, leaves no message in
\* the mailboxes for the next call to take for its answer.  One that an exception
\* cut short between its write and its read does leave one (disturbed).
CallsLeaveNothingBehind ==
  pc \in {"check", "write"} /\ ~disturbed => outMBox = None /\ inMBox = None /\ serving = None

\* The drive has carried out the call under way when an answer to it is in the mailbox.
Carried ==
  /\ pc \in {"await", "read"}
  /\ Answers(Head(program), inMBox)

Transfer == INSTANCE SdoTransfer WITH carried <- Carried

\* The calls do what SdoTransfer promises: each is carried out once, in the order
\* of the program, before it returns, or not at all when it throws; and what it
\* returns is what the drive's object holds, unless something disturbed the
\* mailboxes.
ImplementsTransfer == Transfer!Spec

\* A call ends, though it polls without a timeout: also one that finds the
\* leftovers of an interrupted call.
CallsEnd == program # <<>> ~> program = <<>>
--------------------------------------------------------------------------------
(* The inductive invariant.                                                    *)

\* The calls of a program are about different objects, and so are those it made.
ProgramInv ==
  /\ pc \in {"check", "write", "await", "read"}
  /\ pc # "check" => program # <<>>
  /\ program \in Seq(Requests)
  /\ finished \in Seq([object : Objects, data : Data])
  /\ \A i, j \in 1 .. Len(program) : i # j => program[i].object # program[j].object
  /\ \A i \in 1 .. Len(finished), j \in 1 .. Len(program) :
       finished[i].object # program[j].object

\* A request is written into an empty mailbox only.
MailboxInv == pc = "write" => outMBox = None

\* The reply of the drive is about the call that waits for it.
ReplyIsTrue ==
  LET call == program[1] IN
  Answers(call, inMBox) =>
    dictionary[call.object] = IF call.kind = "read" THEN inMBox.data ELSE call.data

\* Undisturbed, the request of the call under way is in one of three places.
CallInv ==
  ~disturbed =>
    /\ pc \in {"check", "write"} => outMBox = None /\ serving = None /\ inMBox = None
    /\ pc \in {"await", "read"} =>
         \/ /\ pc = "await" /\ inMBox = None
            /\ \/ outMBox = program[1] /\ serving = None
               \/ outMBox = None /\ serving = program[1]
         \/ outMBox = None /\ serving = None /\ inMBox # None /\ ReplyIsTrue

FinishedInv ==
  ~disturbed =>
    \A i \in 1 .. Len(finished) : dictionary[finished[i].object] = finished[i].data

\* A program has one call or is what is left of a SetPDO.
ShapeInv ==
  /\ program \in {<<>>} \cup {<<r>> : r \in Requests} \cup Programs
  /\ Len(finished) + Len(program) <= 2

IInv ==
  /\ dictionary \in [Objects -> Data] /\ disturbed \in BOOLEAN
  /\ {outMBox, serving} \subseteq Requests \cup {None} /\ inMBox \in Replies \cup {None}
  /\ ProgramInv /\ ShapeInv /\ MailboxInv /\ CallInv /\ FinishedInv
================================================================================
