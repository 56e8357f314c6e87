---------------------------- MODULE FlexMasterProofs ----------------------------
(***************************************************************************)
(* Proofs about the whole program, for any number of axes, moves and        *)
(* troubles.                                                               *)
(***************************************************************************)
EXTENDS FlexMaster, FiniteSetTheorems, TLAPS

USE MasterAssumption

--------------------------------------------------------------------------------
(* The inductive invariant.                                                    *)

\* Main's places, up to Run, while the cyclic thread runs, and the working ones
\* among these: between Setup and Teardown.
Early    == {"probe", "construct", "toInit"}
Building == {"clearClock", "mailbox", "toPreop", "process", "toSafeop", "register", "run"}
Switching == {"lookReady", "waitReady", "switchOn", "waitOn", "enable", "waitEnabled"}
Homing == {"homeUp", "homeWatch", "homeDown", "downWait", "homeStop", "setHome"}
Moves == {"moveTo", "scale", "moveSet", "moveWait", "switchOff"}
Working == Switching \cup Homing \cup Moves
Running == {"settle", "toOp", "teardown", "stop"} \cup Working
Phases  == Early \cup Building \cup Running \cup {"join", "returned"}
Loop    == {"check", "collect", "exchange", "update"}

Flags == {"switchOn", "enableOperation"}
Bits  == {"readyToSwitchOn", "switchedOn", "operationEnabled", "fault"}
Controller ==
  [control : SUBSET Flags, status : SUBSET Bits, torque : SUBSET (Flags \cup {"pressing"}),
   position : Int, velocity : {-1, 0, 1}, velocityLimit : BOOLEAN,
   positionSetpoint : Int, homePosition : Int, done : BOOLEAN]

MainTypes ==
  /\ phase \in Phases /\ axis \in Axes
  /\ step \in {"call", "read", "write", "poll", "status"}
  /\ awaitSwitchOn \in BOOLEAN /\ passes \in 0 .. 2 /\ moves \in 0 .. MaxMoves
  /\ phase \notin Moves \cup {"teardown", "stop", "join", "returned"} => moves = 0
  /\ phase = "moveTo" => moves < MaxMoves
  /\ state \in [Axes -> States \cup {"unset"}]

MoveTypes == theta \in [Axes -> Int]

HomeTypes == homeDone \subseteq Axes /\ homeDoneNum = Cardinality(homeDone)

CycTypes ==
  /\ registered \in 0 .. Slaves /\ runCyclicThread \in BOOLEAN
  /\ cyc \in Loop \cup {"absent", "exited", "killed"}
  /\ msg \in {"none", "queued", "inFrame", "ready"}
  /\ reply \in {"none", "silent", "event", "quiet", "ok"} \cup States

VelTypes == vel \in [Axes -> Controller]

\* A frame carries the outputs to the slaves, and the inputs back.
FrameTypes ==
  /\ frame \in [Axes -> [low : Int, mid : SUBSET (Flags \cup {"pressing"}), high : SUBSET Bits]]
  /\ cyc = "exchange" => \A i \in Axes : /\ frame[i].low \in {-1, 0, 1}
                                          /\ frame[i].mid \subseteq Flags /\ frame[i].high = {}

SlaveTypes ==
  /\ al \in [Axes -> States] /\ request \in [Axes -> States \cup {"none"}]
  /\ error \in [Axes -> BOOLEAN] /\ event \in [Axes -> BOOLEAN]
  /\ config \in [Axes -> {"none", "mailbox", "process"}]
  /\ drive \in [Axes -> DOMAIN StatusWord]
  /\ out \in [Axes -> [velocity : {-1, 0, 1}, control : SUBSET Flags]]
  /\ arm \in [Axes -> Positions] /\ reach \in 0 .. Slaves /\ troubles \in 0 .. MaxTroubles

Types ==
  /\ MainTypes /\ MoveTypes /\ HomeTypes /\ CycTypes /\ VelTypes /\ FrameTypes
  /\ SlaveTypes

\* The cyclic thread is there from Run to the join in Stop, with every controller.
ThreadInv ==
  ~Died =>
    /\ phase \in Early \cup Building => ~runCyclicThread /\ cyc = "absent"
    /\ phase \in Running => runCyclicThread /\ cyc \in Loop
    /\ phase = "join" => ~runCyclicThread /\ cyc \in Loop \cup {"exited"}
    /\ phase = "returned" => cyc = "absent"
    /\ phase \in (Early \cup Building) \ {"register", "run"} => registered = 0
    /\ phase = "register" => registered = axis - 1
    /\ phase \in {"run", "join", "returned"} \cup Running => registered = Slaves

\* How far each slave is, as its object knows.
ProgressInv ==
  ~Died =>
    \A i \in Axes :
      /\ (phase = "construct" /\ i < axis) \/ phase \in {"toInit", "clearClock"}
           => state[i] \in States
      /\ (phase = "toInit" /\ i < axis) \/ phase = "clearClock" => state[i] = "INIT"
      /\ phase \in {"mailbox", "toPreop"} => state[i] = IF i < axis THEN "PREOP" ELSE "INIT"
      /\ phase \in {"process", "toSafeop"} => state[i] = IF i < axis THEN "SAFEOP" ELSE "PREOP"
      /\ phase \in {"register", "run", "settle"} => state[i] = "SAFEOP"
      /\ phase = "toOp" => state[i] = IF i < axis THEN "OP" ELSE "SAFEOP"
      /\ phase \in Working => state[i] = "OP"
      /\ phase = "teardown" => state[i] = IF i < axis THEN "INIT" ELSE "OP"
      /\ phase \in {"stop", "join", "returned"} => state[i] = "INIT"

\* What each slave has been configured for.
ConfigInv ==
  ~Died =>
    \A i \in Axes :
      /\ phase = "mailbox" /\ i < axis => config[i] # "none"
      /\ phase = "toPreop" /\ i <= axis => config[i] # "none"
      /\ phase \notin Early \cup {"clearClock", "mailbox", "toPreop"} => config[i] # "none"
      /\ phase = "process" /\ i < axis => config[i] = "process"
      /\ phase = "toSafeop" /\ i <= axis => config[i] = "process"
      /\ phase \notin Early \cup {"clearClock", "mailbox", "toPreop", "process", "toSafeop"}
           => config[i] = "process"

\* What slave i makes of ChangeState under way: nothing yet, or the request is
\* pending, or it has taken it up; one that shows an error may have ignored it.
Unasked(i)  == request[i] = "none" /\ ~event[i] /\ al[i] = state[i]
Pending(i)  == request[i] = Target[phase] /\ ~event[i] /\ al[i] = state[i]
TakenUp(i)  == al[i] = Target[phase] \/ (al[i] = state[i] /\ Rank[Target[phase]] > Rank[state[i]])
Answered(i) == request[i] = "none" /\ event[i] /\ TakenUp(i)

\* Has the slave had main's datagram?
Served == msg \in {"inFrame", "ready"} /\ reply # "silent"

\* Slave i is still as an earlier master left it.
AsFound(i) == phase = "probe" \/ (phase = "construct" /\ i >= axis)

CallInv ==
  ~Died =>
    /\ \A i \in Axes : i # axis \/ step = "call" => request[i] = "none"
    /\ \A i \in Axes :
         i # axis \/ step = "call" => (~event[i] /\ al[i] = state[i]) \/ AsFound(i)
    /\ step = "call" => msg = "none"
    /\ step # "call" => /\ phase \in DOMAIN Target /\ state[axis] \in States
                        /\ state[axis] # Target[phase]
                        /\ ~InvalidHop(state[axis], Target[phase])
    /\ step = "read" \/ (step = "write" /\ ~Served) => Unasked(axis)
    /\ step = "poll" \/ (step = "write" /\ Served)
         => Pending(axis) \/ Answered(axis) \/ (Unasked(axis) /\ error[axis])
    /\ (step = "status" /\ ~Served) \/ reply = "event" => Answered(axis)
    /\ step = "status" /\ Served =>
         request[axis] = "none" /\ ~event[axis] /\ reply = al[axis] /\ TakenUp(axis)
    /\ step # "status" => reply \notin States
    /\ msg \in {"none", "queued"} => reply = "none"
    /\ msg = "queued" => runCyclicThread
    /\ msg = "inFrame" => cyc = "update"
    /\ reply = "silent" => axis > reach

\* A slave that is not in OP has taken its outputs back.
DriveInv ==
  \A i \in Axes : al[i] # "OP" => out[i] = NoOutputs /\ drive[i] \in {"disabled", "fault"}

\* Nothing moves before DoHoming, and nothing down before every axis was at the stop.
Still == Early \cup Building \cup {"settle", "toOp"} \cup Switching
Lifting == phase \in Still \cup {"homeUp", "homeWatch"} \/ (phase = "homeDown" /\ axis = 1)

LiftInv ==
  \A i \in Axes :
    /\ Lifting =>
         /\ vel[i].done /\ vel[i].velocity # -1 /\ out[i].velocity # -1
         /\ cyc = "exchange" => frame[i].low # -1
         /\ "pressing" \in vel[i].torque \/ i \in homeDone => arm[i] = Top
         /\ cyc = "update" /\ "pressing" \in frame[i].mid => arm[i] = Top
    /\ phase \in Still =>
         /\ vel[i].velocity = 0 /\ out[i].velocity = 0
         /\ cyc = "exchange" => frame[i].low = 0
    /\ phase = "homeDown" => homeDone = Axes

\* From the first answer of Teardown on the frames carry control words without flags.
PastFirst == axis > 1 \/ step \in {"write", "poll", "status"} \/ msg = "ready"

OffInv ==
  ~Died =>
    \A i \in Axes :
      /\ phase = "switchOff" /\ i < axis => vel[i].control = {}
      /\ phase = "teardown" => vel[i].control = {}
      /\ phase = "teardown" /\ PastFirst /\ cyc = "exchange" => frame[i].mid = {}
      /\ phase = "teardown" /\ request[i] # "none" /\ al[i] = "OP" => out[i].control = {}

\* A drive that showed it is ready keeps showing it, and one that shows a fault
\* shows nothing else.
Coherent(word) == "fault" \in word => word = {"fault"}

Shows(i) == "readyToSwitchOn" \in vel[i].status

After == {"teardown", "stop", "join", "returned"}

Shown(i) ==
  /\ Coherent(vel[i].status) /\ Coherent(frame[i].high)
  /\ phase \in Early \cup Building => ~Shows(i)
  /\ phase \notin After =>
       /\ Shows(i) => drive[i] \in {"ready", "on", "enabled"}
       /\ cyc = "update" /\ Shows(i) => "readyToSwitchOn" \in frame[i].high
       /\ cyc = "update" /\ "readyToSwitchOn" \in frame[i].high
            => drive[i] \in {"ready", "on", "enabled"}
  /\ (phase = "lookReady" /\ i < axis) \/ phase = "waitReady" => awaitSwitchOn \/ Shows(i)
  /\ phase = "switchOn" => Shows(i)

\* A slave that has been configured goes where it is asked to.
Obeys ==
  ~Died /\ step # "call" =>
    /\ step = "status" /\ Served => reply = Target[phase]
    /\ request[axis] = "none" /\ event[axis] => al[axis] = Target[phase]

ReadyInv == troubles = 0 => reach = Slaves /\ Obeys /\ \A i \in Axes : Shown(i)

IInv ==
  /\ Types /\ ThreadInv /\ ProgressInv /\ ConfigInv /\ CallInv /\ DriveInv /\ LiftInv
  /\ OffInv /\ ReadyInv /\ NobodyLeftMoving /\ ExceptionsHaveACause

--------------------------------------------------------------------------------
(* Data.                                                                       *)

LEMMA StatusWords ==
  /\ DOMAIN StatusWord = {"disabled", "ready", "on", "enabled", "fault"}
  /\ \A d \in DOMAIN StatusWord :
       /\ StatusWord[d] \subseteq Bits
       /\ "fault" \in StatusWord[d] <=> d = "fault"
       /\ "readyToSwitchOn" \in StatusWord[d] <=> d \in {"ready", "on", "enabled"}
BY DEF StatusWord, Bits

LEMMA FollowSteps ==
  ASSUME NEW d \in DOMAIN StatusWord, NEW word
  PROVE  /\ Follow(d, word) \in DOMAIN StatusWord
         /\ Follow(d, word) # d => Follow(d, word) \in {"ready", "on", "enabled"}
         /\ Follow(d, word) = "fault" <=> d = "fault"
BY DEF StatusWord, Follow

\* What the calls and callbacks make of a controller.
LEMMA VelocityKeepsType ==
  ASSUME NEW c \in Controller, NEW v \in {-1, 0, 1}
  PROVE  LET d == [c EXCEPT !.velocity = v, !.done = TRUE]
         IN  /\ d \in Controller /\ d.velocity = v /\ d.done
             /\ d.control = c.control /\ d.status = c.status /\ d.torque = c.torque
BY DEF Controller

LEMMA ControlKeepsType ==
  ASSUME NEW c \in Controller, NEW f \in Flags
  PROVE  LET d == [c EXCEPT !.control = @ \cup {f}]
         IN  /\ d \in Controller /\ d.velocity = c.velocity /\ d.done = c.done
             /\ d.status = c.status /\ d.torque = c.torque
BY DEF Controller

LEMMA SetpointKeepsType ==
  ASSUME NEW c \in Controller, NEW p \in Int, NEW q \in BOOLEAN
  PROVE  LET d == [c EXCEPT !.positionSetpoint = p, !.velocityLimit = q, !.done = FALSE]
         IN  d \in Controller /\ d.control = c.control /\ d.status = c.status
BY DEF Controller

LEMMA HomeKeepsType ==
  ASSUME NEW c \in Controller
  PROVE  LET d == [c EXCEPT !.homePosition = c.position]
         IN  d \in Controller /\ d.control = c.control /\ d.status = c.status
BY DEF Controller

LEMMA SwitchOffKeepsType ==
  ASSUME NEW c \in Controller
  PROVE  LET d == [c EXCEPT !.control = {}, !.homePosition = 0]
         IN  d \in Controller /\ d.control = {} /\ d.status = c.status
<1>1. {} \in SUBSET Flags /\ 0 \in Int
  OBVIOUS
<1>2. ASSUME NEW w \in SUBSET Flags, NEW p \in Int
      PROVE  LET d == [c EXCEPT !.control = w, !.homePosition = p]
             IN  d \in Controller /\ d.control = w /\ d.status = c.status
  BY DEF Controller
<1> QED
  BY <1>1, <1>2, Zenon

Updated(c, p, t, s) == Interpolated([c EXCEPT !.position = p, !.torque = t, !.status = s])

LEMMA UpdateKeepsType ==
  ASSUME NEW c \in Controller, NEW p \in Int, NEW t \in SUBSET (Flags \cup {"pressing"}),
         NEW s \in SUBSET Bits
  PROVE  LET d == Updated(c, p, t, s)
         IN  /\ d \in Controller /\ d.control = c.control /\ d.status = s /\ d.torque = t
             /\ c.done => d.done /\ d.velocity = c.velocity
<1> DEFINE u == [c EXCEPT !.position = p, !.torque = t, !.status = s]
<1>1. u \in Controller /\ u.control = c.control /\ u.status = s /\ u.torque = t
      /\ u.done = c.done /\ u.velocity = c.velocity
  BY DEF Controller
<1>2. ASSUME NEW v \in {-1, 0, 1}, NEW b \in BOOLEAN
      PROVE  LET d == [u EXCEPT !.done = TRUE, !.velocity = 0]
                 e == [u EXCEPT !.velocity = v]
             IN  /\ d \in Controller /\ d.control = c.control /\ d.status = s /\ d.torque = t
                 /\ e \in Controller /\ e.control = c.control /\ e.status = s /\ e.torque = t
  BY <1>1 DEF Controller
<1>3. Direction(u.position, u.positionSetpoint) \in {-1, 0, 1}
  BY <1>1 DEF Direction
<1> QED
  BY <1>1, <1>2, <1>3 DEF Interpolated, Updated

--------------------------------------------------------------------------------
(* The frames of the steps.                                                    *)

SetupSteps ==
  \/ Probe \/ InitSlave \/ ClearClock \/ ConfigureMailbox \/ ConfigureProcessData
  \/ Register \/ Run
ChangeSteps == ChangeState \/ Send \/ Receive \/ ReceiveSilence
WorkSteps ==
  \/ LookReady \/ SwitchOn \/ EnableOperation \/ HomeUp \/ HomeWatch \/ HomeDown
  \/ HomeStop \/ SetHome \/ MoveTo \/ ScaleSpeeds \/ SetSpeeds \/ SwitchOff

EnvironmentSteps == (\E i \in Axes : Axis(i)) \/ Troubles
Steps == Main \/ CyclicThread \/ EnvironmentSteps

LEMMA Places ==
  /\ DOMAIN Target = {"toInit", "toPreop", "toSafeop", "toOp", "teardown"}
  /\ \A p \in DOMAIN Target : Target[p] \in States /\ LoopHead[p] \in Phases /\ Then[p] \in Phases
  /\ DOMAIN AfterWait = {"settle", "waitReady", "waitOn", "waitEnabled", "downWait", "moveWait"}
  /\ 1 \in Axes
BY DEF Target, LoopHead, Then, AfterWait, States, Phases, Early, Building, Running, Working,
       Switching, Homing, Moves, Axes

LEMMA Targets ==
  /\ Target["toInit"] = "INIT" /\ Target["toPreop"] = "PREOP" /\ Target["toSafeop"] = "SAFEOP"
  /\ Target["toOp"] = "OP" /\ Target["teardown"] = "INIT"
BY DEF Target

LEMMA IterateSteps ==
  ASSUME NEW head, NEW next, axis \in Axes, Iterate(head, next)
  PROVE  /\ axis' \in Axes
         /\ \/ phase' = head /\ axis' = axis + 1 /\ axis < Slaves
            \/ phase' = next /\ axis' = 1 /\ axis = Slaves
BY DEF Iterate, Goto, Axes

\* Where the loops around ChangeState go on.
LEMMA NextSlaveSteps ==
  ASSUME axis \in Axes, phase \in DOMAIN Target, NextSlave
  PROVE  /\ axis' \in Axes
         /\ \/ /\ axis < Slaves /\ axis' = axis + 1
               /\ \/ phase \in {"toInit", "toOp", "teardown"} /\ phase' = phase
                  \/ phase = "toPreop" /\ phase' = "mailbox"
                  \/ phase = "toSafeop" /\ phase' = "process"
            \/ /\ axis = Slaves /\ axis' = 1
               /\ \/ phase = "toInit" /\ phase' = "clearClock"
                  \/ phase = "toPreop" /\ phase' = "process"
                  \/ phase = "toSafeop" /\ phase' = "register"
                  \/ phase = "toOp" /\ phase' = "lookReady"
                  \/ phase = "teardown" /\ phase' = "stop"
BY IterateSteps DEF NextSlave, LoopHead, Then, Target

\* What comes back moves ChangeState on by one access, or ends it.
LEMMA ReceiveSteps ==
  ASSUME MainTypes, CallInv, ~Died, Receive
  PROVE  /\ phase \in DOMAIN Target /\ msg = "ready" /\ reply # "silent"
         /\ msg' = "none" /\ reply' = "none"
         /\ UNCHANGED <<homing, move, vel, passes, slaveVars, driveVars, bus>>
         /\ \/ /\ \/ step = "read" /\ step' = "write"
                  \/ step = "write" /\ step' = "poll"
                  \/ step = "poll" /\ reply # "event" /\ step' = "poll"
                  \/ step = "poll" /\ reply = "event" /\ step' = "status"
               /\ UNCHANGED <<phase, axis, state, cycVars>>
            \/ /\ step = "status" /\ step' = "call"
               /\ reply = Target[phase] /\ state' = [state EXCEPT ![axis] = reply]
               /\ NextSlave /\ UNCHANGED cycVars
            \/ /\ step = "status" /\ step' = "call"
               /\ reply # Target[phase] /\ Dies /\ UNCHANGED state
<1>1. msg = "ready" /\ step # "call" /\ phase \in DOMAIN Target
  BY DEF Receive, CallInv
<1>2. step \in {"read", "write", "poll", "status"}
  BY <1>1 DEF MainTypes
<1>3. UNCHANGED <<homing, move, vel, passes, slaveVars, driveVars, bus>>
  BY DEF Receive
<1>4. CASE step = "status"
  BY <1>1, <1>3, <1>4 DEF Receive
<1>5. CASE step # "status"
  BY <1>1, <1>2, <1>3, <1>5 DEF Receive
<1> QED
  BY <1>4, <1>5

\* The steps of main between Setup and Teardown leave the slaves alone.
LEMMA WorkFrame ==
  ASSUME axis \in Axes, WorkSteps
  PROVE  /\ phase \in Working \ {"waitReady", "waitOn", "waitEnabled", "downWait", "moveWait"}
         /\ axis' \in Axes
         /\ \/ phase' \in Working /\ cyc' = cyc
            \/ phase = "switchOff" /\ phase' = "teardown" /\ axis' = 1 /\ cyc' = cyc
            \/ cyc' = "killed" /\ UNCHANGED <<phase, axis, vel, homing, move>>
         /\ UNCHANGED <<step, state, registered, runCyclicThread, frame, msgVars, passes,
                        slaveVars, driveVars, bus>>
<1> USE IterateSteps DEF Call, Working, Switching, Homing, Moves, cycVars
<1>1. CASE LookReady \/ HomeUp \/ HomeDown \/ HomeStop \/ SetHome
  BY <1>1 DEF LookReady, HomeUp, HomeDown, HomeStop, SetHome
<1>2. CASE SwitchOn \/ EnableOperation
  BY <1>2 DEF SwitchOn, EnableOperation, Checked, Dies, homing, move
<1>3. CASE HomeWatch
  BY <1>3 DEF HomeWatch
<1>4. CASE MoveTo
  BY <1>4, Places DEF MoveTo, Goto
<1>5. CASE ScaleSpeeds \/ SetSpeeds \/ SwitchOff
  BY <1>5 DEF ScaleSpeeds, SetSpeeds, SwitchOff
<1> QED
  BY <1>1, <1>2, <1>3, <1>4, <1>5 DEF WorkSteps

--------------------------------------------------------------------------------
(* Types.                                                                      *)

LEMMA InitTypes == Init => Types
<1> SUFFICES ASSUME Init PROVE Types
  OBVIOUS
<1>1. TRUE \in BOOLEAN /\ FALSE \in BOOLEAN
  BY Zenon
<1>2. MainTypes
  <2>1. awaitSwitchOn \in BOOLEAN
    BY <1>1, Zenon DEF Init
  <2>2. axis \in Axes /\ state \in [Axes -> States \cup {"unset"}]
    BY DEF Init, Axes
  <2> QED
    BY <2>1, <2>2 DEF Init, MainTypes, Phases, Early, Moves
<1>7. CycTypes
  <2>1. runCyclicThread \in BOOLEAN
    BY <1>1, Zenon DEF Init
  <2> QED
    BY <2>1 DEF Init, CycTypes
<1>3. HomeTypes
  BY FS_EmptySet DEF Init, HomeTypes
<1>4. VelTypes
  <2>1. NewController \in Controller
    BY <1>1 DEF NewController, Controller
  <2> QED
    BY <2>1 DEF Init, VelTypes
<1>5. FrameTypes
  BY DEF Init, FrameTypes, NoFrame
<1>6. SlaveTypes
  <2>1. error \in [Axes -> BOOLEAN] /\ event \in [Axes -> BOOLEAN]
    BY Zenon DEF Init
  <2>2. out \in [Axes -> [velocity : {-1, 0, 1}, control : SUBSET Flags]]
    BY DEF Init, NoOutputs
  <2>3. drive \in [Axes -> DOMAIN StatusWord]
    BY DEF Init
  <2> QED
    BY <2>1, <2>2, <2>3 DEF Init, SlaveTypes, Zero, Positions
<1>8. MoveTypes
  BY DEF Init, MoveTypes, Zero
<1> QED
  BY <1>2, <1>3, <1>4, <1>5, <1>6, <1>7, <1>8 DEF Types

\* Main's place, and what it keeps in locals.
LEMMA MainTypesStep ==
  ASSUME Types, CallInv, ~Died, Steps
  PROVE  MainTypes'
<1> USE DEF Types, MainTypes
<1> USE DEF Phases, Early, Building, Running, Working, Switching, Homing, Moves
<1>1. CASE Probe \/ ClearClock \/ ConfigureMailbox \/ ConfigureProcessData \/ Register \/ Run
  BY <1>1, IterateSteps, Places
  DEF Probe, ClearClock, ConfigureMailbox, ConfigureProcessData, Configures, Register, Run,
      Accesses,
      Dies, Configures, Goto, homing, move
<1>2. CASE InitSlave
  BY <1>2, IterateSteps, Places DEF InitSlave, Accesses, Dies, homing, move, SlaveTypes
<1>3. CASE ChangeState \/ Send
  BY <1>3, NextSlaveSteps DEF ChangeState, Send, Dies, homing, move
<1>4. CASE Receive
  <2>1. UNCHANGED <<homing, move, passes>>
    BY <1>4 DEF Receive
  <2>2. step' \in {"call", "read", "write", "poll", "status"}
    BY <1>4, ReceiveSteps
  <2>3. CASE UNCHANGED <<phase, axis, state>>
    BY <2>1, <2>2, <2>3 DEF homing, move
  <2>4. CASE /\ phase \in DOMAIN Target /\ reply = Target[phase]
             /\ state' = [state EXCEPT ![axis] = reply] /\ NextSlave
    <3>1. state' \in [Axes -> States \cup {"unset"}]
      BY <2>4, Places
    <3> QED
      BY <2>1, <2>2, <2>4, <3>1, NextSlaveSteps DEF homing, move
  <2> QED
    BY <1>4, <2>3, <2>4, ReceiveSteps DEF Dies
<1>5. CASE ReceiveSilence
  BY <1>5, Places DEF ReceiveSilence, Dies, homing, move
<1>6. CASE Wait
  BY <1>6, Places DEF Wait, Goto, AfterWait, homing, move
<1>7. CASE LookReady
  <2>1. awaitSwitchOn' \in BOOLEAN
    BY <1>7, Zenon DEF LookReady
  <2> QED
    BY <1>7, <2>1, IterateSteps DEF LookReady, Call, move
<1>8. CASE SwitchOn \/ EnableOperation \/ HomeUp \/ HomeDown \/ HomeStop \/ SetHome
  BY <1>8, IterateSteps
  DEF SwitchOn, EnableOperation, Checked, HomeUp, HomeDown, HomeStop, SetHome, Call, Dies,
      homing, move
<1>9. CASE HomeWatch
  BY <1>9, IterateSteps DEF HomeWatch, move
<1>10. CASE MoveTo
  BY <1>10, Places DEF MoveTo, Goto, homing
<1>11. CASE ScaleSpeeds \/ SetSpeeds \/ SwitchOff
  BY <1>11, IterateSteps DEF ScaleSpeeds, SetSpeeds, SwitchOff, Call, homing, move
<1>12. CASE Stop \/ Join
  BY <1>12, Places DEF Stop, Join, Goto, homing, move
<1>13. CASE CyclicThread
  <2>1. passes' \in 0 .. 2
    <3>1. CASE UpdateControllers
      <4>1. passes' = IF phase \in DOMAIN AfterWait /\ passes < 2 THEN passes + 1 ELSE passes
        BY <3>1, Zenon DEF UpdateControllers
      <4> QED
        BY <4>1
    <3>2. CASE CheckRun \/ CollectControllers \/ Exchange
      BY <3>2 DEF CheckRun, CollectControllers, Exchange
    <3> QED
      BY <1>13, <3>1, <3>2 DEF CyclicThread
  <2>2. UNCHANGED mainVars
    BY <1>13, Zenon DEF CyclicThread, CheckRun, CollectControllers, Exchange, UpdateControllers
  <2> QED
    BY <2>1, <2>2 DEF mainVars, homing, move
<1>14. CASE EnvironmentSteps
  BY <1>14 DEF EnvironmentSteps, Axis, Ignore, TakeUp, DriveFollows, ArmMoves, Troubles, Cut,
      DriveFaults,
               mainVars, homing, move
<1> QED
  BY <1>1, <1>2, <1>3, <1>4, <1>5, <1>6, <1>7, <1>8, <1>9, <1>10, <1>11, <1>12, <1>13, <1>14
  DEF Steps, Main

\* The targets are those MoveTo was given, until the speeds are set.
LEMMA MoveTypesStep ==
  ASSUME Types, Steps
  PROVE  MoveTypes'
<1> USE DEF Types, MoveTypes, move
<1>1. CASE MoveTo
  BY <1>1 DEF MoveTo
<1>2. CASE SetSpeeds
  BY <1>2 DEF SetSpeeds, Zero
<1>3. CASE WorkSteps /\ ~MoveTo /\ ~SetSpeeds
  BY <1>3
  DEF WorkSteps, LookReady, SwitchOn, EnableOperation, Checked, HomeUp, HomeWatch, HomeDown,
      HomeStop, SetHome, ScaleSpeeds, SwitchOff
<1>4. CASE Probe \/ InitSlave \/ ClearClock \/ ConfigureMailbox \/ ConfigureProcessData \/ Register
           \/ Run \/ Wait \/ Stop \/ Join
  BY <1>4
  DEF Probe, InitSlave, ClearClock, ConfigureMailbox, ConfigureProcessData,
      Configures, Register, Run, Accesses, Wait, Stop, Join
<1>5. CASE ChangeSteps
  BY <1>5 DEF ChangeSteps, ChangeState, Send, Receive, ReceiveSilence
<1>6. CASE CyclicThread
  BY <1>6 DEF CyclicThread, CheckRun, CollectControllers, Exchange, UpdateControllers, mainVars
<1>7. CASE EnvironmentSteps
  BY <1>7 DEF EnvironmentSteps, Axis, Ignore, TakeUp, DriveFollows, ArmMoves, Troubles, Cut,
              DriveFaults, mainVars
<1> QED
  BY <1>1, <1>2, <1>3, <1>4, <1>5, <1>6, <1>7 DEF Steps, Main, WorkSteps, ChangeSteps

\* Only DoHoming counts axes.
LEMMA HomeTypesStep ==
  ASSUME Types, Steps
  PROVE  HomeTypes'
<1> USE DEF Types, HomeTypes, homing
<1>1. CASE HomeWatch
  <2>1. CASE "pressing" \in vel[axis].torque /\ axis \notin homeDone
    <3>1. homeDone' = homeDone \cup {axis} /\ homeDoneNum' = homeDoneNum + 1
      BY <1>1, <2>1 DEF HomeWatch
    <3>2. axis \in Axes /\ IsFiniteSet(Axes)
      BY FS_Interval DEF Axes, MainTypes
    <3>3. IsFiniteSet(homeDone)
      BY <3>2, FS_Subset
    <3> QED
      BY <2>1, <3>1, <3>2, <3>3, FS_AddElement
  <2>2. CASE ~("pressing" \in vel[axis].torque /\ axis \notin homeDone)
    BY <1>1, <2>2 DEF HomeWatch
  <2> QED
    BY <2>1, <2>2
<1>2. CASE WorkSteps /\ ~HomeWatch
  BY <1>2
  DEF WorkSteps, LookReady, SwitchOn, EnableOperation, Checked, HomeUp, HomeDown, HomeStop,
      SetHome, MoveTo, ScaleSpeeds, SetSpeeds, SwitchOff
<1>3. CASE Probe \/ InitSlave \/ ClearClock \/ ConfigureMailbox \/ ConfigureProcessData \/ Register
           \/ Run \/ Wait \/ Stop \/ Join
  BY <1>3
  DEF Probe, InitSlave, ClearClock, ConfigureMailbox, ConfigureProcessData,
      Configures, Register, Run, Accesses, Wait, Stop, Join
<1>4. CASE ChangeSteps
  BY <1>4 DEF ChangeSteps, ChangeState, Send, Receive, ReceiveSilence
<1>5. CASE CyclicThread
  BY <1>5 DEF CyclicThread, CheckRun, CollectControllers, Exchange, UpdateControllers, mainVars
<1>6. CASE EnvironmentSteps
  BY <1>6 DEF EnvironmentSteps, Axis, Ignore, TakeUp, DriveFollows, ArmMoves, Troubles, Cut,
              DriveFaults, mainVars
<1> QED
  BY <1>1, <1>2, <1>3, <1>4, <1>5, <1>6 DEF Steps, Main, WorkSteps, ChangeSteps

\* What the slave of this iteration makes of main's datagram.
LEMMA ServeSteps ==
  ASSUME MainTypes, SlaveTypes, step # "call", Serve
  PROVE  \/ ~Answers(axis) /\ reply' = "silent" /\ UNCHANGED <<error, request, event>>
         \/ Answers(axis) /\ step = "read" /\ reply' = "ok" /\ UNCHANGED <<error, request, event>>
         \/ /\ Answers(axis) /\ step = "write" /\ reply' = "ok"
            /\ request' = [request EXCEPT ![axis] = Target[phase]] /\ UNCHANGED event
            /\ error' \in [Axes -> BOOLEAN]
         \/ /\ Answers(axis) /\ step = "poll" /\ UNCHANGED <<error, request, event>>
            /\ reply' = IF event[axis] THEN "event" ELSE "quiet"
         \/ /\ Answers(axis) /\ step = "status" /\ reply' = al[axis]
            /\ event' = [event EXCEPT ![axis] = FALSE] /\ UNCHANGED <<error, request>>
<1>1. step \in {"read", "write", "poll", "status"}
  BY DEF MainTypes
<1>2. CASE ~Answers(axis)
  BY <1>2 DEF Serve
<1>3. CASE Answers(axis) /\ step = "read"
  BY <1>3 DEF Serve
<1>4. CASE Answers(axis) /\ step = "write"
  <2>1. error \in [Axes -> BOOLEAN] /\ FALSE \in BOOLEAN
    BY Zenon DEF SlaveTypes
  <2>2. error' = [error EXCEPT ![axis] = FALSE] \/ UNCHANGED error
    BY <1>4, Zenon DEF Serve
  <2>3. error' \in [Axes -> BOOLEAN]
    BY <2>1, <2>2
  <2> QED
    BY <1>4, <2>3 DEF Serve
<1>5. CASE Answers(axis) /\ step = "poll"
  BY <1>5 DEF Serve
<1>6. CASE Answers(axis) /\ step = "status"
  BY <1>6 DEF Serve
<1> QED
  BY <1>1, <1>2, <1>3, <1>4, <1>5, <1>6

LEMMA CycTypesStep ==
  ASSUME Types, ThreadInv, CallInv, ~Died, Steps
  PROVE  CycTypes'
<1> USE DEF Types, CycTypes, cycVars, msgVars
<1>1. CASE WorkSteps
  BY <1>1, WorkFrame DEF MainTypes
<1>2. CASE Register
  <2>1. registered' \in 0 .. Slaves
    BY <1>2 DEF Register, Dies, ThreadInv, MainTypes, Axes
  <2> QED
    BY <1>2, <2>1 DEF Register, Dies
<1>3. CASE Probe \/ InitSlave \/ ClearClock \/ ConfigureMailbox \/ ConfigureProcessData \/ Wait
  BY <1>3
  DEF Probe, InitSlave, ClearClock, ConfigureMailbox, ConfigureProcessData, Configures, Accesses,
      Wait, Dies
<1>4. CASE Run \/ Stop \/ Join
  <2>1. runCyclicThread' \in BOOLEAN
    BY <1>4, Zenon DEF Run, Stop, Join
  <2> QED
    BY <1>4, <2>1 DEF Run, Stop, Join, Loop
<1>5. CASE ChangeState \/ ReceiveSilence
  BY <1>5 DEF ChangeState, ReceiveSilence, Dies
<1>6. CASE Send
  BY <1>6, ServeSteps DEF Send, SlaveTypes, MainTypes
<1>7. CASE Receive
  BY <1>7, ReceiveSteps DEF Dies
<1>8. CASE CheckRun \/ CollectControllers \/ UpdateControllers
  BY <1>8 DEF CheckRun, CollectControllers, UpdateControllers, Loop
<1>9. CASE Exchange
  <2>1. step # "call" \/ msg # "queued"
    BY DEF CallInv
  <2>2. cyc' \in Loop /\ UNCHANGED <<registered, runCyclicThread>>
    BY <1>9 DEF Exchange, Loop
  <2>3. msg' \in {"none", "queued", "inFrame", "ready"}
    BY <1>9 DEF Exchange
  <2>4. CASE msg = "queued"
    BY <1>9, <2>1, <2>2, <2>3, <2>4, ServeSteps DEF Exchange, SlaveTypes, MainTypes
  <2>5. CASE msg # "queued"
    BY <1>9, <2>2, <2>5 DEF Exchange
  <2> QED
    BY <2>4, <2>5
<1>10. CASE EnvironmentSteps
  BY <1>10 DEF EnvironmentSteps, Axis, Ignore, TakeUp, DriveFollows, ArmMoves, Troubles, Cut,
      DriveFaults
<1> QED
  BY <1>1, <1>2, <1>3, <1>4, <1>5, <1>6, <1>7, <1>8, <1>9, <1>10
  DEF Steps, Main, WorkSteps, CyclicThread

\* A call on the controller of this iteration's axis.
LEMMA CallType ==
  ASSUME VelTypes, axis \in Axes, NEW c \in Controller, vel' = [vel EXCEPT ![axis] = c]
  PROVE  VelTypes' /\ \A i \in Axes : vel'[i] = IF i = axis THEN c ELSE vel[i]
BY DEF VelTypes

\* What the calls of main leave of a controller, and what they change.
LEMMA WorkVel ==
  ASSUME Types, WorkSteps
  PROVE  /\ VelTypes' /\ \A i \in Axes : vel'[i].status = vel[i].status
         /\ \A i \in Axes :
              i # axis \/ phase \notin {"switchOn", "enable", "switchOff"}
                => vel'[i].control = vel[i].control
         /\ phase = "switchOff" => vel'[axis].control = {}
<1> USE DEF VelTypes
<1>1. axis \in Axes /\ vel[axis] \in Controller
  BY DEF Types, MainTypes
<1>2. CASE UNCHANGED vel /\ phase # "switchOff"
  BY <1>2 DEF Types
<1>3. CASE LookReady \/ ScaleSpeeds
  <2>1. vel' = [vel EXCEPT ![axis] = vel[axis]]
    BY <1>3, Zenon DEF LookReady, ScaleSpeeds, Call
  <2>2. UNCHANGED vel
    BY <2>1 DEF Types
  <2> QED
    BY <1>2, <1>3, <2>2 DEF LookReady, ScaleSpeeds, Call
<1>4. CASE SwitchOn \/ EnableOperation
  <2>1. PICK f \in Flags : vel' = [vel EXCEPT ![axis] = [vel[axis] EXCEPT !.control = @ \cup {f}]]
                           \/ UNCHANGED vel
    BY <1>4 DEF SwitchOn, EnableOperation, Checked, Call, Flags
  <2>2. phase \in {"switchOn", "enable"}
    BY <1>4 DEF SwitchOn, EnableOperation, Checked, Call
  <2> DEFINE c == [vel[axis] EXCEPT !.control = @ \cup {f}]
  <2>3. c \in Controller /\ c.status = vel[axis].status
    BY <1>1, ControlKeepsType
  <2>4. vel' = [vel EXCEPT ![axis] = c] \/ UNCHANGED vel
    BY <2>1
  <2> HIDE DEF c
  <2> QED
    BY <1>1, <1>2, <2>2, <2>3, <2>4, CallType DEF Types
<1>5. CASE HomeUp \/ HomeDown \/ HomeStop
  <2>1. PICK v \in {-1, 0, 1} :
          vel' = [vel EXCEPT ![axis] = [vel[axis] EXCEPT !.velocity = v, !.done = TRUE]]
    BY <1>5 DEF HomeUp, HomeDown, HomeStop, Call, Velocity
  <2>2. phase \in {"homeUp", "homeDown", "homeStop"}
    BY <1>5 DEF HomeUp, HomeDown, HomeStop, Call
  <2> QED
    <3> DEFINE c == [vel[axis] EXCEPT !.velocity = v, !.done = TRUE]
    <3>1. c \in Controller /\ c.control = vel[axis].control /\ c.status = vel[axis].status
      BY <1>1, VelocityKeepsType
    <3>2. vel' = [vel EXCEPT ![axis] = c]
      BY <2>1
    <3> HIDE DEF c
    <3> QED
      BY <1>1, <2>2, <3>1, <3>2, CallType DEF Types
<1>6. CASE HomeWatch
  <2>1. \/ vel' = [vel EXCEPT ![axis] = [vel[axis] EXCEPT !.velocity = 0, !.done = TRUE]]
        \/ UNCHANGED vel
    BY <1>6 DEF HomeWatch, Velocity
  <2>2. phase = "homeWatch"
    BY <1>6 DEF HomeWatch
  <2> QED
    <3> DEFINE c == [vel[axis] EXCEPT !.velocity = 0, !.done = TRUE]
    <3>1. c \in Controller /\ c.control = vel[axis].control /\ c.status = vel[axis].status
      BY <1>1, VelocityKeepsType
    <3>2. vel' = [vel EXCEPT ![axis] = c] \/ UNCHANGED vel
      BY <2>1
    <3> HIDE DEF c
    <3> QED
      BY <1>1, <1>2, <2>2, <3>1, <3>2, CallType DEF Types
<1>7. CASE SetHome
  <2>1. phase = "setHome"
        /\ vel' = [vel EXCEPT ![axis] = [vel[axis] EXCEPT !.homePosition = vel[axis].position]]
    BY <1>7 DEF SetHome, Call
  <2> DEFINE c == [vel[axis] EXCEPT !.homePosition = vel[axis].position]
  <2>2. c \in Controller /\ c.control = vel[axis].control /\ c.status = vel[axis].status
    BY <1>1, HomeKeepsType
  <2>3. vel' = [vel EXCEPT ![axis] = c]
    BY <2>1
  <2> HIDE DEF c
  <2> QED
    BY <1>1, <2>1, <2>2, <2>3, CallType DEF Types
<1>8. CASE MoveTo
  BY <1>2, <1>8 DEF MoveTo
<1>9. CASE SetSpeeds
  <2> DEFINE p == theta[axis] + vel[axis].homePosition
             q == Share(deltaTheta[axis])
             c == [vel[axis] EXCEPT !.positionSetpoint = p, !.velocityLimit = q, !.done = FALSE]
  <2>1. phase = "moveSet" /\ vel' = [vel EXCEPT ![axis] = c]
    BY <1>9 DEF SetSpeeds, Call
  <2>2. p \in Int
    BY <1>1 DEF Types, MoveTypes, Controller
  <2>3. q \in BOOLEAN
    BY Zenon DEF Share
  <2> HIDE DEF p, q
  <2>4. c \in Controller /\ c.control = vel[axis].control /\ c.status = vel[axis].status
    BY <1>1, <2>2, <2>3, SetpointKeepsType
  <2> HIDE DEF c
  <2> QED
    BY <1>1, <2>1, <2>4, CallType DEF Types
<1>10. CASE SwitchOff
  <2>1. phase = "switchOff"
        /\ vel' = [vel EXCEPT ![axis] = [vel[axis] EXCEPT !.control = {}, !.homePosition = 0]]
    BY <1>10 DEF SwitchOff, Call
  <2> DEFINE c == [vel[axis] EXCEPT !.control = {}, !.homePosition = 0]
  <2>2. c \in Controller /\ c.control = {} /\ c.status = vel[axis].status
    BY <1>1, SwitchOffKeepsType
  <2>3. vel' = [vel EXCEPT ![axis] = c]
    BY <2>1
  <2> HIDE DEF c
  <2> QED
    BY <1>1, <2>1, <2>2, <2>3, CallType DEF Types
<1> QED
  BY <1>3, <1>4, <1>5, <1>6, <1>7, <1>8, <1>9, <1>10 DEF WorkSteps

\* UpdateData of every controller.
LEMMA UpdateVel ==
  ASSUME Types, UpdateControllers, registered = Slaves
  PROVE  /\ VelTypes'
         /\ \A i \in Axes :
              /\ vel'[i].control = vel[i].control
              /\ vel'[i].status = frame[i].high /\ vel'[i].torque = frame[i].mid
              /\ vel[i].done => vel'[i].done /\ vel'[i].velocity = vel[i].velocity
<1> DEFINE d(i) == Updated(vel[i], frame[i].low, frame[i].mid, frame[i].high)
<1>1. vel' = [i \in Axes |-> IF i <= registered THEN d(i) ELSE vel[i]]
  BY DEF UpdateControllers, Updated
<1>2. ASSUME NEW i \in Axes
      PROVE  /\ d(i) \in Controller /\ d(i).control = vel[i].control
             /\ d(i).status = frame[i].high /\ d(i).torque = frame[i].mid
             /\ vel[i].done => d(i).done /\ d(i).velocity = vel[i].velocity
  <2>1. /\ vel[i] \in Controller /\ frame[i].low \in Int
        /\ frame[i].mid \in SUBSET (Flags \cup {"pressing"}) /\ frame[i].high \in SUBSET Bits
    BY <1>2 DEF Types, VelTypes, FrameTypes
  <2> QED
    BY <2>1, UpdateKeepsType
<1> HIDE DEF d
<1>3. \A i \in Axes : i <= registered
  BY DEF Axes
<1> QED
  BY <1>1, <1>2, <1>3 DEF VelTypes

\* While the loop of the cyclic thread runs it has every controller.
LEMMA LoopServes ==
  ASSUME MainTypes, ThreadInv, ~Died, cyc \in Loop
  PROVE  registered = Slaves /\ phase \in Running \cup {"join"}
BY DEF MainTypes, ThreadInv, Phases, Loop

LEMMA VelTypesStep ==
  ASSUME Types, ThreadInv, ~Died, Steps
  PROVE  VelTypes'
<1>1. CASE WorkSteps
  BY <1>1, WorkVel
<1>2. CASE UpdateControllers
  <2>1. registered = Slaves
    BY <1>2, LoopServes DEF UpdateControllers, Loop, Types
  <2> QED
    BY <1>2, <2>1, UpdateVel
<1> USE DEF Types, VelTypes
<1>3. CASE SetupSteps \/ Wait \/ Stop \/ Join
  BY <1>3
  DEF SetupSteps, Probe, InitSlave, ClearClock, ConfigureMailbox, ConfigureProcessData,
      Configures, Register, Run, Accesses, Wait, Stop, Join
<1>4. CASE ChangeSteps
  BY <1>4 DEF ChangeSteps, ChangeState, Send, Receive, ReceiveSilence
<1>5. CASE CheckRun \/ CollectControllers \/ Exchange
  BY <1>5 DEF CheckRun, CollectControllers, Exchange
<1>6. CASE EnvironmentSteps
  BY <1>6 DEF EnvironmentSteps, Axis, Ignore, TakeUp, DriveFollows, ArmMoves, Troubles, Cut,
      DriveFaults
<1> QED
  BY <1>1, <1>2, <1>3, <1>4, <1>5, <1>6
  DEF Steps, Main, WorkSteps, ChangeSteps, SetupSteps, CyclicThread

\* The exchange, axis by axis.
LEMMA ExchangeSteps ==
  ASSUME Types, Exchange, registered = Slaves
  PROVE  /\ \A i \in Axes :
              /\ IF Answers(i) /\ al[i] = "OP"
                 THEN out'[i].velocity = frame[i].low /\ out'[i].control = frame[i].mid
                 ELSE out'[i] = out[i]
              /\ IF Answers(i) /\ al[i] \in {"SAFEOP", "OP"}
                 THEN /\ frame'[i].low = arm[i] /\ frame'[i].high = StatusWord[drive[i]]
                      /\ frame'[i].mid = IF Presses(i) THEN {"pressing"} ELSE {}
                 ELSE frame'[i] = frame[i]
         /\ FrameTypes'
         /\ out' \in [Axes -> [velocity : {-1, 0, 1}, control : SUBSET Flags]]
<1> DEFINE sent(i) == [velocity |-> frame[i].low, control |-> frame[i].mid]
           back(i) == [low |-> arm[i], mid |-> IF Presses(i) THEN {"pressing"} ELSE {},
                       high |-> StatusWord[drive[i]]]
<1>1. \A i \in Axes : i <= registered
  BY DEF Axes
<1>2. cyc' = "update"
      /\ out' = [i \in Axes |-> IF Answers(i) /\ al[i] = "OP" /\ i <= registered
                                THEN sent(i) ELSE out[i]]
      /\ frame' = [i \in Axes |-> IF Answers(i) /\ al[i] \in {"SAFEOP", "OP"} /\ i <= registered
                                  THEN back(i) ELSE frame[i]]
  BY DEF Exchange
<1>3. ASSUME NEW i \in Axes
      PROVE  /\ sent(i) \in [velocity : {-1, 0, 1}, control : SUBSET Flags]
             /\ sent(i).velocity = frame[i].low /\ sent(i).control = frame[i].mid
  <2>1. frame[i].low \in {-1, 0, 1} /\ frame[i].mid \in SUBSET Flags
    BY DEF Types, FrameTypes, Exchange
  <2> QED
    BY <2>1
<1>4. ASSUME NEW i \in Axes
      PROVE  /\ back(i) \in [low : Int, mid : SUBSET (Flags \cup {"pressing"}), high : SUBSET Bits]
             /\ back(i).low = arm[i] /\ back(i).high = StatusWord[drive[i]]
             /\ back(i).mid = IF Presses(i) THEN {"pressing"} ELSE {}
  <2>1. arm[i] \in Int /\ StatusWord[drive[i]] \in SUBSET Bits
    BY StatusWords DEF Types, SlaveTypes, Positions
  <2>2. (IF Presses(i) THEN {"pressing"} ELSE {}) \in SUBSET (Flags \cup {"pressing"})
    OBVIOUS
  <2> QED
    BY <2>1, <2>2
<1> HIDE DEF sent, back
<1>5. FrameTypes'
  BY <1>2, <1>4 DEF Types, FrameTypes
<1>6. out' \in [Axes -> [velocity : {-1, 0, 1}, control : SUBSET Flags]]
  BY <1>2, <1>3 DEF Types, SlaveTypes
<1> QED
  BY <1>1, <1>2, <1>3, <1>4, <1>5, <1>6

\* GetDatagram of every controller.
LEMMA CollectSteps ==
  ASSUME Types, CollectControllers, registered = Slaves
  PROVE  /\ \A i \in Axes : /\ frame'[i].low = vel[i].velocity
                            /\ frame'[i].mid = vel[i].control /\ frame'[i].high = {}
         /\ FrameTypes'
<1> DEFINE packed(i) == [low |-> vel[i].velocity, mid |-> vel[i].control, high |-> {}]
<1>1. \A i \in Axes : i <= registered
  BY DEF Axes
<1>2. frame' = [i \in Axes |-> IF i <= registered THEN packed(i) ELSE frame[i]]
  BY DEF CollectControllers
<1>3. ASSUME NEW i \in Axes
      PROVE  /\ packed(i) \in [low : {-1, 0, 1}, mid : SUBSET Flags, high : SUBSET Bits]
             /\ packed(i).low = vel[i].velocity /\ packed(i).mid = vel[i].control
             /\ packed(i).high = {}
  <2>1. vel[i].velocity \in {-1, 0, 1} /\ vel[i].control \in SUBSET Flags
    BY DEF Types, VelTypes, Controller
  <2> QED
    BY <2>1
<1>4. ASSUME NEW x \in [low : {-1, 0, 1}, mid : SUBSET Flags, high : SUBSET Bits]
      PROVE  /\ x \in [low : Int, mid : SUBSET (Flags \cup {"pressing"}), high : SUBSET Bits]
             /\ x.low \in {-1, 0, 1} /\ x.mid \subseteq Flags
  OBVIOUS
<1> HIDE DEF packed
<1>5. FrameTypes'
  BY <1>1, <1>2, <1>3, <1>4 DEF FrameTypes
<1> QED
  BY <1>1, <1>2, <1>3, <1>5

LEMMA FrameTypesStep ==
  ASSUME Types, ThreadInv, CallInv, ~Died, Steps
  PROVE  FrameTypes'
<1>1. CASE CollectControllers
  BY <1>1, LoopServes, CollectSteps DEF CollectControllers, Loop, Types
<1>2. CASE Exchange
  BY <1>2, LoopServes, ExchangeSteps DEF Exchange, Loop, Types
<1>3. CASE UpdateControllers
  <2>1. frame' = NoFrame /\ cyc' = "check"
    BY <1>3 DEF UpdateControllers
  <2> QED
    BY <2>1 DEF FrameTypes, NoFrame
<1> USE DEF Types, FrameTypes, cycVars
<1>4. CASE CheckRun
  BY <1>4 DEF CheckRun
<1>5. CASE WorkSteps
  BY <1>5, WorkFrame DEF MainTypes
<1>6. CASE SetupSteps \/ Wait \/ Stop \/ Join
  BY <1>6
  DEF SetupSteps, Probe, InitSlave, ClearClock, ConfigureMailbox, ConfigureProcessData,
      Configures, Register, Run, Accesses, Wait, Stop, Join, Dies
<1>7. CASE ChangeSteps
  <2>1. UNCHANGED <<frame, cyc>> \/ (UNCHANGED frame /\ cyc' = "killed")
    BY <1>7, ReceiveSteps DEF ChangeSteps, ChangeState, Send, ReceiveSilence, Dies
  <2> QED
    BY <2>1
<1>8. CASE EnvironmentSteps
  BY <1>8 DEF EnvironmentSteps, Axis, Ignore, TakeUp, DriveFollows, ArmMoves, Troubles, Cut,
      DriveFaults
<1> QED
  BY <1>1, <1>2, <1>3, <1>4, <1>5, <1>6, <1>7, <1>8
  DEF Steps, Main, WorkSteps, ChangeSteps, SetupSteps, CyclicThread

\* A slave that ignores its request.
LEMMA IgnoreSteps ==
  ASSUME Types, NEW i \in Axes, Ignore(i)
  PROVE  /\ request[i] # "none" /\ error[i]
         /\ request' \in [Axes -> States \cup {"none"}]
         /\ \A j \in Axes : request'[j] = IF j = i THEN "none" ELSE request[j]
         /\ UNCHANGED <<phase, axis, step, homing, move, state, vel, cyc, frame, registered,
                        runCyclicThread, msg, reply, passes, al, error, event, config, drive,
                        out, arm, reach, troubles>>
BY DEF Ignore, Types, SlaveTypes, mainVars, cycVars, msgVars, driveVars, bus

\* A slave takes up its request, or refuses to go up.
LEMMA TakeUpSteps ==
  ASSUME Types, NEW i \in Axes, TakeUp(i)
  PROVE  /\ request[i] # "none" /\ request' = [request EXCEPT ![i] = "none"]
         /\ UNCHANGED error \/ error' = [error EXCEPT ![i] = TRUE]
         /\ event' = [event EXCEPT ![i] = TRUE]
         /\ \/ /\ MayEnter(i, request[i]) /\ al' = [al EXCEPT ![i] = request[i]]
               /\ UNCHANGED troubles
               /\ \/ /\ al[i] = "OP" /\ request[i] # "OP" /\ out' = [out EXCEPT ![i] = NoOutputs]
                     /\ drive' = [drive EXCEPT ![i] = IF drive[i] = "fault" THEN "fault"
                                                      ELSE "disabled"]
                  \/ ~(al[i] = "OP" /\ request[i] # "OP") /\ UNCHANGED <<out, drive>>
            \/ /\ Rank[request[i]] > Rank[al[i]] /\ UNCHANGED <<al, out, drive>>
               /\ \/ MayEnter(i, request[i]) /\ troubles < MaxTroubles /\ troubles' = troubles + 1
                  \/ ~MayEnter(i, request[i]) /\ UNCHANGED troubles
         /\ UNCHANGED <<mainVars, vel, cycVars, msgVars, passes, config, arm, reach>>
BY DEF TakeUp, Enters

LEMMA SlaveTypesStep ==
  ASSUME Types, ThreadInv, CallInv, ~Died, Steps
  PROVE  SlaveTypes'
<1> USE DEF SlaveTypes, slaveVars, driveVars, bus
<1>1. CASE WorkSteps
  BY <1>1, WorkFrame DEF Types, MainTypes
<1>2. CASE Probe \/ ClearClock \/ Register \/ Run \/ Wait \/ Stop \/ Join
  BY <1>2 DEF Types, Probe, ClearClock, Accesses, Register, Run, Wait, Stop, Join
<1>3. CASE InitSlave
  <2>1. event' \in [Axes -> BOOLEAN]
    <3>1. FALSE \in BOOLEAN /\ event \in [Axes -> BOOLEAN]
      BY Zenon DEF Types
    <3>2. event' = [event EXCEPT ![axis] = FALSE] \/ UNCHANGED event
      BY <1>3 DEF InitSlave
    <3> QED
      BY <3>1, <3>2
  <2> QED
    BY <1>3, <2>1 DEF Types, InitSlave, Accesses
<1>4. CASE ConfigureMailbox \/ ConfigureProcessData
  BY <1>4 DEF Types, ConfigureMailbox, ConfigureProcessData, Configures
<1>5. CASE ChangeState \/ Receive \/ ReceiveSilence
  BY <1>5 DEF Types, ChangeState, Receive, ReceiveSilence
<1>6. ASSUME Serve, step # "call"
      PROVE  /\ request' \in [Axes -> States \cup {"none"}] /\ event' \in [Axes -> BOOLEAN]
             /\ error' \in [Axes -> BOOLEAN]
  <2>1. Target[phase] \in States /\ FALSE \in BOOLEAN
    BY <1>6, Places DEF CallInv
  <2> QED
    BY <1>6, <2>1, ServeSteps DEF Types
<1>7. CASE Send
  BY <1>6, <1>7 DEF Send, Types
<1>8. CASE Exchange
  <2>1. out' \in [Axes -> [velocity : {-1, 0, 1}, control : SUBSET Flags]]
    BY <1>8, LoopServes, ExchangeSteps DEF Exchange, Loop, Types
  <2>2. /\ request' \in [Axes -> States \cup {"none"}] /\ event' \in [Axes -> BOOLEAN]
        /\ error' \in [Axes -> BOOLEAN]
    BY <1>6, <1>8 DEF Exchange, CallInv, Types
  <2> QED
    BY <1>8, <2>1, <2>2 DEF Exchange, Types
<1>9. CASE CheckRun \/ CollectControllers \/ UpdateControllers
  BY <1>9 DEF CheckRun, CollectControllers, UpdateControllers, Types
<1>10. ASSUME NEW i \in Axes, TakeUp(i)
       PROVE  SlaveTypes'
  <2>1. request[i] \in States /\ TRUE \in BOOLEAN /\ NoOutputs \in [velocity : {-1, 0, 1}, control : SUBSET Flags]
        /\ {"fault", "disabled"} \subseteq DOMAIN StatusWord
    BY <1>10, StatusWords DEF Types, TakeUp, NoOutputs
  <2>2. al' \in [Axes -> States] /\ troubles' \in 0 .. MaxTroubles
    BY <1>10, <2>1, TakeUpSteps DEF Types
  <2>3. /\ request' \in [Axes -> States \cup {"none"}] /\ event' \in [Axes -> BOOLEAN]
        /\ error' \in [Axes -> BOOLEAN]
    BY <1>10, <2>1, TakeUpSteps DEF Types
  <2>4. out' \in [Axes -> [velocity : {-1, 0, 1}, control : SUBSET Flags]]
    <3>1. out' = [out EXCEPT ![i] = NoOutputs] \/ UNCHANGED out
      BY <1>10, TakeUpSteps
    <3> QED
      BY <2>1, <3>1 DEF Types
  <2>5. drive' \in [Axes -> DOMAIN StatusWord]
    <3>1. (IF drive[i] = "fault" THEN "fault" ELSE "disabled") \in DOMAIN StatusWord
      BY <2>1
    <3>2. \/ drive' = [drive EXCEPT ![i] = IF drive[i] = "fault" THEN "fault" ELSE "disabled"]
          \/ UNCHANGED drive
      BY <1>10, TakeUpSteps
    <3> QED
      BY <3>1, <3>2 DEF Types
  <2> QED
    BY <1>10, <2>2, <2>3, <2>4, <2>5 DEF Types, TakeUp
<1>11. ASSUME NEW i \in Axes, DriveFollows(i) \/ ArmMoves(i) \/ DriveFaults(i)
       PROVE  SlaveTypes'
  <2>1. "fault" \in DOMAIN StatusWord
    BY StatusWords
  <2>2. CASE DriveFollows(i)
    BY <2>2, FollowSteps DEF Types, DriveFollows
  <2>3. CASE ArmMoves(i)
    BY <2>3 DEF Types, ArmMoves
  <2>4. CASE DriveFaults(i)
    BY <2>1, <2>4 DEF Types, DriveFaults
  <2> QED
    BY <1>11, <2>2, <2>3, <2>4
<1>12. CASE Cut
  BY <1>12 DEF Types, Cut
<1>13. ASSUME NEW i \in Axes, Ignore(i)
       PROVE  SlaveTypes'
  BY <1>13, IgnoreSteps DEF Types
<1> QED
  BY <1>1, <1>2, <1>3, <1>4, <1>5, <1>7, <1>8, <1>9, <1>10, <1>11, <1>12, <1>13
  DEF Steps, Main, WorkSteps, CyclicThread, EnvironmentSteps, Axis, Troubles

LEMMA TypesStep ==
  ASSUME Types, ThreadInv, CallInv, ~Died, Steps
  PROVE  Types'
BY MainTypesStep, MoveTypesStep, HomeTypesStep, CycTypesStep, VelTypesStep, FrameTypesStep,
   SlaveTypesStep DEF Types

\* The types TLC checks follow.
LEMMA TypesSuffice == Types => TypeOK
<1> SUFFICES ASSUME Types PROVE TypeOK
  OBVIOUS
<1>1. homeDoneNum \in 0 .. Slaves
  <2>1. IsFiniteSet(Axes) /\ Cardinality(Axes) = Slaves
    BY FS_Interval DEF Axes
  <2>2. IsFiniteSet(homeDone) /\ Cardinality(homeDone) <= Cardinality(Axes)
    BY <2>1, FS_Subset DEF Types, HomeTypes
  <2> QED
    BY <2>1, <2>2, FS_CardinalityType DEF Types, HomeTypes
<1>2. \A i \in Axes : vel[i].velocity \in {-1, 0, 1}
  BY DEF Types, VelTypes, Controller
<1> QED
  BY <1>1, <1>2 DEF Types, MainTypes, HomeTypes, CycTypes, SlaveTypes, TypeOK

--------------------------------------------------------------------------------
(* The cyclic thread.                                                          *)

LEMMA WaitSteps ==
  ASSUME axis \in Axes, Wait
  PROVE  /\ axis' = 1 /\ passes' = 0
         /\ \/ phase = "settle" /\ phase' = "toOp"
            \/ phase = "waitReady" /\ phase' = IF awaitSwitchOn THEN "lookReady" ELSE "switchOn"
            \/ phase = "waitOn" /\ phase' = "enable"
            \/ phase = "waitEnabled" /\ phase' = "homeUp"
            \/ phase = "downWait" /\ phase' = "homeStop"
            \/ phase = "moveWait" /\ phase' \in {"moveTo", "switchOff"}
         /\ UNCHANGED <<step, homing, move, state, vel, cycVars, msgVars, slaveVars,
                        driveVars, bus>>
BY DEF Wait, Goto, AfterWait

LEMMA ThreadStep ==
  ASSUME Types, ThreadInv, CallInv, ~Ended, Steps
  PROVE  ThreadInv'
<1> USE DEF ThreadInv, Died, cycVars
<1> USE DEF Early, Building, Running, Working, Switching, Homing, Moves, Loop
<1>0. axis \in Axes /\ ~Died
  BY DEF Types, MainTypes, Ended
<1>1. CASE WorkSteps
  BY <1>0, <1>1, WorkFrame
<1>2. CASE Wait
  BY <1>0, <1>2, WaitSteps
<1>3. CASE Probe \/ InitSlave \/ ClearClock
  BY <1>0, <1>3, IterateSteps DEF Probe, InitSlave, ClearClock, Accesses, Goto, Dies
<1>4. CASE ConfigureMailbox \/ ConfigureProcessData
  BY <1>0, <1>4 DEF ConfigureMailbox, ConfigureProcessData, Configures, Dies
<1>5. CASE Register
  BY <1>0, <1>5, IterateSteps DEF Register, Dies, Axes
<1>6. CASE Run \/ Stop \/ Join
  BY <1>0, <1>6 DEF Run, Stop, Join, Goto
<1>7. CASE ChangeState \/ Send
  BY <1>0, <1>7, NextSlaveSteps DEF ChangeState, Send, Dies
<1>8. CASE Receive
  BY <1>0, <1>8, ReceiveSteps, NextSlaveSteps DEF Types, Dies
<1>9. CASE ReceiveSilence
  BY <1>9 DEF ReceiveSilence, Dies
<1>10. CASE CyclicThread
  BY <1>0, <1>10
  DEF CyclicThread, CheckRun, CollectControllers, Exchange, UpdateControllers, mainVars
<1>11. CASE EnvironmentSteps
  BY <1>0, <1>11
  DEF EnvironmentSteps, Axis, Ignore, TakeUp, DriveFollows, ArmMoves, Troubles, Cut, DriveFaults,
      mainVars
<1> QED
  BY <1>1, <1>2, <1>3, <1>4, <1>5, <1>6, <1>7, <1>8, <1>9, <1>10, <1>11
  DEF Steps, Main, WorkSteps

--------------------------------------------------------------------------------
(* How far the slaves are.                                                     *)

LEMMA ProgressStep ==
  ASSUME Types, ProgressInv, CallInv, ~Ended, Steps
  PROVE  ProgressInv'
<1> USE DEF ProgressInv, Died
<1> USE DEF Working, Switching, Homing, Moves
<1>0. axis \in Axes /\ ~Died /\ state \in [Axes -> States \cup {"unset"}]
  BY DEF Types, MainTypes, Ended
<1>1. CASE WorkSteps
  BY <1>0, <1>1, WorkFrame DEF Axes
<1>2. CASE Wait
  BY <1>0, <1>2, WaitSteps DEF Axes
<1>3. CASE Probe
  BY <1>0, <1>3 DEF Probe, Goto, Dies, Axes
<1>4. CASE InitSlave
  <2>1. CASE Answers(axis)
    <3>1. \A i \in Axes : state'[i] = IF i = axis THEN al[axis] ELSE state[i]
      BY <1>0, <1>4, <2>1 DEF InitSlave
    <3>2. phase = "construct" /\ al[axis] \in States /\ Iterate("construct", "toInit")
      BY <1>0, <1>4, <2>1 DEF InitSlave, Accesses, Types, SlaveTypes
    <3> QED
      BY <1>0, <3>1, <3>2, IterateSteps DEF Axes
  <2>2. CASE ~Answers(axis)
    BY <1>4, <2>2 DEF InitSlave, Accesses, Dies
  <2> QED
    BY <2>1, <2>2
<1>5. CASE ClearClock
  BY <1>0, <1>5, IterateSteps DEF ClearClock, Accesses, Dies, Axes
<1>6. CASE ConfigureMailbox \/ ConfigureProcessData
  BY <1>0, <1>6 DEF ConfigureMailbox, ConfigureProcessData, Configures, Dies
<1>7. CASE Register \/ Run \/ Stop \/ Join
  BY <1>0, <1>7, IterateSteps DEF Register, Run, Stop, Join, Goto, Dies
<1>8. CASE Send
  BY <1>0, <1>8 DEF Send
<1>9. ASSUME phase \in DOMAIN Target, NextSlave,
             state' = [state EXCEPT ![axis] = Target[phase]]
      PROVE  ProgressInv'
  <2>1. \A i \in Axes : state'[i] = IF i = axis THEN Target[phase] ELSE state[i]
    BY <1>0, <1>9
  <2>2. CASE phase = "toInit"
    BY <1>0, <1>9, <2>1, <2>2, NextSlaveSteps, Targets DEF Axes, States
  <2>3. CASE phase = "toPreop"
    BY <1>0, <1>9, <2>1, <2>3, NextSlaveSteps, Targets DEF Axes, States
  <2>4. CASE phase = "toSafeop"
    BY <1>0, <1>9, <2>1, <2>4, NextSlaveSteps, Targets DEF Axes, States
  <2>5. CASE phase = "toOp"
    BY <1>0, <1>9, <2>1, <2>5, NextSlaveSteps, Targets DEF Axes, States
  <2>6. CASE phase = "teardown"
    BY <1>0, <1>9, <2>1, <2>6, NextSlaveSteps, Targets DEF Axes, States
  <2> QED
    BY <1>9, <2>2, <2>3, <2>4, <2>5, <2>6, Places
<1>10. CASE ChangeState
  <2>1. CASE state[axis] = Target[phase]
    <3>1. phase \in DOMAIN Target /\ NextSlave /\ UNCHANGED state
      BY <1>10, <2>1 DEF ChangeState
    <3> QED
      BY <1>0, <1>9, <2>1, <3>1
  <2>2. CASE state[axis] # Target[phase]
    BY <1>0, <1>10, <2>2 DEF ChangeState, Dies
  <2> QED
    BY <2>1, <2>2
<1>11. CASE Receive
  <2>1. CASE UNCHANGED <<phase, axis, state, cycVars>>
    BY <1>0, <2>1 DEF cycVars
  <2>2. CASE Dies
    BY <2>2 DEF Dies
  <2>3. CASE NextSlave /\ reply = Target[phase] /\ state' = [state EXCEPT ![axis] = reply]
    BY <1>0, <1>9, <1>11, <2>3, ReceiveSteps DEF Types
  <2> QED
    BY <1>0, <1>11, <2>1, <2>2, <2>3, ReceiveSteps DEF Types
<1>12. CASE ReceiveSilence
  BY <1>12 DEF ReceiveSilence, Dies
<1>13. CASE CyclicThread
  BY <1>0, <1>13
  DEF CyclicThread, CheckRun, CollectControllers, Exchange, UpdateControllers, mainVars
<1>14. CASE EnvironmentSteps
  BY <1>0, <1>14
  DEF EnvironmentSteps, Axis, Ignore, TakeUp, DriveFollows, ArmMoves, Troubles, Cut, DriveFaults,
      mainVars
<1> QED
  BY <1>1, <1>2, <1>3, <1>4, <1>5, <1>6, <1>7, <1>8, <1>10, <1>11, <1>12, <1>13, <1>14
  DEF Steps, Main, WorkSteps

\* The configuration of a slave outlives everything but the process.
LEMMA ConfigStep ==
  ASSUME Types, ConfigInv, CallInv, ~Ended, Steps
  PROVE  ConfigInv'
<1> USE DEF ConfigInv, Died
<1> USE DEF Early, Working, Switching, Homing, Moves
<1>0. axis \in Axes /\ ~Died /\ config \in [Axes -> {"none", "mailbox", "process"}]
  BY DEF Types, MainTypes, SlaveTypes, Ended
<1>1. CASE WorkSteps
  BY <1>0, <1>1, WorkFrame DEF slaveVars
<1>2. CASE Wait
  BY <1>0, <1>2, WaitSteps DEF slaveVars
<1>3. CASE Probe
  BY <1>0, <1>3 DEF Probe, Goto, Dies
<1>4. CASE InitSlave
  BY <1>0, <1>4, IterateSteps DEF InitSlave, Accesses, Dies
<1>5. CASE ClearClock
  BY <1>0, <1>5, IterateSteps DEF ClearClock, Accesses, Dies, Axes
<1>6. CASE ConfigureMailbox
  BY <1>0, <1>6 DEF ConfigureMailbox, Configures, Dies, Axes
<1>7. CASE ConfigureProcessData
  BY <1>0, <1>7 DEF ConfigureProcessData, Configures, Dies, Axes
<1>8. CASE Register \/ Run \/ Stop \/ Join
  BY <1>0, <1>8, IterateSteps DEF Register, Run, Stop, Join, Goto, Dies, slaveVars
<1>9. ASSUME phase \in DOMAIN Target, NextSlave, UNCHANGED config
      PROVE  ConfigInv'
  BY <1>0, <1>9, NextSlaveSteps DEF Axes
<1>10. CASE ChangeState \/ Send
  BY <1>0, <1>9, <1>10 DEF ChangeState, Send, Dies, slaveVars
<1>11. CASE Receive
  BY <1>0, <1>9, <1>11, ReceiveSteps DEF Types, Dies, slaveVars
<1>12. CASE ReceiveSilence
  BY <1>12 DEF ReceiveSilence, Dies
<1>13. CASE CyclicThread
  BY <1>0, <1>13
  DEF CyclicThread, CheckRun, CollectControllers, Exchange, UpdateControllers, mainVars, slaveVars
<1>14. CASE EnvironmentSteps
  BY <1>0, <1>14
  DEF EnvironmentSteps, Axis, Ignore, TakeUp, DriveFollows, ArmMoves, Troubles, Cut, DriveFaults,
      mainVars,
      slaveVars
<1> QED
  BY <1>1, <1>2, <1>3, <1>4, <1>5, <1>6, <1>7, <1>8, <1>10, <1>11, <1>12, <1>13, <1>14
  DEF Steps, Main, WorkSteps

--------------------------------------------------------------------------------
(* ChangeState.                                                                *)

\* Outside ChangeState nothing is asked of a slave.
LEMMA CallQuiet ==
  ASSUME CallInv, ~Died, step = "call",
         UNCHANGED <<step, state, request, event, al, msg, reply, reach>>,
         \/ phase \notin {"probe", "construct"}
         \/ phase = "probe" /\ phase' = "construct" /\ axis' = 1
  PROVE  CallInv'
BY DEF CallInv, AsFound, Axes, Served

\* The slave gets main's datagram.
LEMMA CallServed ==
  ASSUME Types, CallInv, ~Died, step # "call", msg \in {"none", "queued"},
         Serve, msg' = "ready" \/ (msg' = "inFrame" /\ cyc' = "update"),
         UNCHANGED <<phase, axis, step, state, al, reach>>
  PROVE  CallInv'
<1> USE DEF CallInv, AsFound, Served, Unasked, Pending, TakenUp, Answered
<1>0. /\ axis \in Axes /\ phase \in DOMAIN Target /\ Target[phase] \in States
      /\ al[axis] \in States /\ request \in [Axes -> States \cup {"none"}]
      /\ event \in [Axes -> BOOLEAN] /\ "silent" \notin States
  BY Places DEF Types, MainTypes, SlaveTypes, States
<1>1. CASE ~Answers(axis)
  <2>1. axis > reach
    BY <1>0, <1>1 DEF Answers, Types, SlaveTypes, Axes
  <2>2. reply' = "silent" /\ UNCHANGED <<error, request, event>>
    BY <1>1, ServeSteps DEF Types
  <2> QED
    BY <1>0, <2>1, <2>2 DEF States
<1>2. CASE Answers(axis) /\ step = "read"
  BY <1>0, <1>2, ServeSteps DEF Types, States
<1>3. CASE Answers(axis) /\ step = "write"
  BY <1>0, <1>3, ServeSteps DEF Types, States
<1>4. CASE Answers(axis) /\ step = "poll"
  BY <1>0, <1>4, ServeSteps DEF Types, States
<1>5. CASE Answers(axis) /\ step = "status"
  BY <1>0, <1>5, ServeSteps DEF Types, States
<1> QED
  BY <1>1, <1>2, <1>3, <1>4, <1>5 DEF Types, MainTypes

\* The slave takes the request up: it was pending.
LEMMA CallTakenUp ==
  ASSUME Types, CallInv, ~Died, NEW i \in Axes, TakeUp(i)
  PROVE  /\ i = axis /\ step \in {"write", "poll"} /\ phase \in DOMAIN Target
         /\ Served \/ step = "poll"
         /\ Pending(axis) /\ request[axis] = Target[phase] /\ CallInv'
<1> USE DEF Served, Unasked, Pending, TakenUp, Answered
<1>1. /\ i = axis /\ step \in {"write", "poll"} /\ phase \in DOMAIN Target
      /\ Pending(axis) /\ (Served \/ step = "poll") /\ reply # "event"
  BY DEF TakeUp, CallInv, Types, MainTypes
<1>2. /\ request'[axis] = "none" /\ event'[axis]
      /\ \A j \in Axes : j # axis => /\ request'[j] = request[j] /\ event'[j] = event[j]
                                     /\ al'[j] = al[j]
  BY <1>1, TakeUpSteps DEF Types, SlaveTypes
<1>3. \/ al'[axis] = Target[phase]
      \/ al'[axis] = state[axis] /\ Rank[Target[phase]] > Rank[state[axis]]
  BY <1>1, TakeUpSteps DEF Types, SlaveTypes
<1>4. UNCHANGED <<phase, axis, step, state, msg, reply, reach, cyc, runCyclicThread>>
  BY TakeUpSteps DEF mainVars, cycVars, msgVars
<1> QED
  BY <1>1, <1>2, <1>3, <1>4, Places DEF CallInv, AsFound, Died

\* The slave ignores the request: it was pending, and it is as if nothing was asked.
LEMMA CallIgnored ==
  ASSUME Types, CallInv, ~Died, NEW i \in Axes, Ignore(i)
  PROVE  /\ i = axis /\ step \in {"write", "poll"}
         /\ Pending(axis) /\ CallInv'
<1> USE DEF Served, Unasked, Pending, TakenUp, Answered
<1>1. /\ i = axis /\ step \in {"write", "poll"} /\ phase \in DOMAIN Target
      /\ Pending(axis) /\ (Served \/ step = "poll") /\ reply # "event"
  BY IgnoreSteps DEF CallInv, Types, MainTypes
<1>2. request'[axis] = "none" /\ error[axis] /\ \A j \in Axes : j # axis => request'[j] = request[j]
  BY <1>1, IgnoreSteps
<1>3. UNCHANGED <<phase, axis, step, state, al, error, event, msg, reply, reach, cyc, runCyclicThread>>
  BY IgnoreSteps
<1> QED
  BY <1>1, <1>2, <1>3 DEF CallInv, AsFound, Died

LEMMA CallStep ==
  ASSUME Types, ThreadInv, CallInv, ~Ended, Steps
  PROVE  CallInv'
<1> USE DEF slaveVars, msgVars, bus
<1>0. axis \in Axes /\ ~Died
  BY DEF Types, MainTypes, Ended
<1>1. ASSUME Dies PROVE CallInv'
  BY <1>1 DEF Dies, CallInv, Died
<1>2. phase \notin DOMAIN Target => step = "call"
  BY <1>0 DEF CallInv
<1>3. CASE WorkSteps
  BY <1>0, <1>2, <1>3, WorkFrame, Places, CallQuiet DEF Working, Switching, Homing, Moves
<1>4. CASE Wait
  BY <1>0, <1>2, <1>4, WaitSteps, Places, CallQuiet
<1>5. CASE Probe
  <2>1. CASE reach = Slaves
    BY <1>0, <1>2, <1>5, <2>1, Places, CallQuiet DEF Probe, Goto
  <2>2. CASE reach # Slaves
    BY <1>1, <1>5, <2>2 DEF Probe
  <2> QED
    BY <2>1, <2>2
<1>6. CASE InitSlave
  <2>1. CASE Answers(axis)
    <3>1. step = "call" /\ phase = "construct" /\ Iterate("construct", "toInit")
      BY <1>2, <1>6, <2>1, Places DEF InitSlave, Accesses
    <3>2. /\ \A i \in Axes : state'[i] = IF i = axis THEN al[axis] ELSE state[i]
          /\ \A i \in Axes : ~event'[i] <=> (~event[i] \/ i = axis)
          /\ UNCHANGED <<request, al, msg, reply, step, reach>>
      BY <1>0, <1>6, <2>1 DEF InitSlave, Accesses, Types, MainTypes, SlaveTypes
    <3> QED
      BY <1>0, <3>1, <3>2, IterateSteps DEF CallInv, AsFound, Served, Axes
  <2>2. CASE ~Answers(axis)
    BY <1>1, <1>6, <2>2 DEF InitSlave, Accesses
  <2> QED
    BY <2>1, <2>2
<1>7. CASE ClearClock \/ ConfigureMailbox \/ ConfigureProcessData \/ Register \/ Run \/ Stop \/ Join
  <2>1. step = "call" /\ phase \notin {"probe", "construct"}
    BY <1>2, <1>7, Places
    DEF ClearClock, Accesses, ConfigureMailbox, ConfigureProcessData, Configures, Register, Run,
        Stop, Join
  <2>2. UNCHANGED <<step, state, request, event, al, msg, reply, reach>>
    BY <1>7
    DEF ClearClock, Accesses, ConfigureMailbox, ConfigureProcessData, Configures, Register, Run,
        Stop, Join
  <2> QED
    BY <1>0, <2>1, <2>2, CallQuiet
<1>8. CASE ChangeState
  <2>1. phase \in DOMAIN Target /\ step = "call"
        /\ UNCHANGED <<state, request, event, al, msg, reply, reach>>
    BY <1>8 DEF ChangeState
  <2>2. CASE state[axis] = Target[phase]
    <3>1. UNCHANGED step
      BY <1>8, <2>2 DEF ChangeState
    <3> QED
      BY <1>0, <2>1, <3>1, CallQuiet, Places
  <2>3. CASE state[axis] # Target[phase] /\ InvalidHop(state[axis], Target[phase])
    BY <1>1, <1>8, <2>3 DEF ChangeState
  <2>4. CASE state[axis] # Target[phase] /\ ~InvalidHop(state[axis], Target[phase])
    <3>1. step' = "read" /\ UNCHANGED <<phase, axis, cycVars>>
      BY <1>8, <2>4 DEF ChangeState
    <3>2. al[axis] = state[axis] /\ ~event[axis] /\ al[axis] \in States
      BY <1>0, <2>1, Places DEF CallInv, AsFound, Types, SlaveTypes
    <3> QED
      BY <1>0, <2>1, <2>4, <3>1, <3>2 DEF CallInv, AsFound, Unasked, Served, cycVars
  <2> QED
    BY <2>2, <2>3, <2>4
<1>9. CASE Send
  <2>1. step # "call" /\ msg = "none"
        /\ UNCHANGED <<phase, axis, step, state, al, reach, cyc, runCyclicThread>>
    BY <1>9 DEF Send, cycVars
  <2>2. CASE runCyclicThread
    <3>1. msg' = "queued" /\ UNCHANGED <<reply, error, request, event>>
      BY <1>9, <2>2 DEF Send
    <3> QED
      BY <1>0, <2>1, <2>2, <3>1 DEF CallInv, AsFound, Unasked, Pending, TakenUp, Answered, Served,
          Died
  <2>3. CASE ~runCyclicThread
    <3>1. msg' = "ready" /\ Serve
      BY <1>9, <2>3 DEF Send
    <3> QED
      BY <1>0, <2>1, <3>1, CallServed
  <2> QED
    BY <2>2, <2>3
<1>10. CASE Receive
  <2>1. /\ phase \in DOMAIN Target /\ msg = "ready" /\ reply # "silent"
        /\ msg' = "none" /\ reply' = "none"
        /\ UNCHANGED <<error, request, event, al, reach>>
    BY <1>0, <1>10, ReceiveSteps DEF Types
  <2>2. ASSUME UNCHANGED <<phase, axis, state, cycVars>>,
               \/ step = "read" /\ step' = "write"
               \/ step = "write" /\ step' = "poll"
               \/ step = "poll" /\ reply # "event" /\ step' = "poll"
               \/ step = "poll" /\ reply = "event" /\ step' = "status"
        PROVE  CallInv'
    <3>1. "none" \notin States
      BY DEF States
    <3>2. UNCHANGED <<phase, axis, state, error, request, event, al, runCyclicThread, cyc>>
      BY <2>1, <2>2 DEF cycVars
    <3>3. CASE step = "read" /\ step' = "write"
      BY <1>0, <2>1, <3>1, <3>2, <3>3
      DEF CallInv, AsFound, Unasked, Pending, TakenUp, Answered, Served, Died
    <3>4. CASE step = "write" /\ step' = "poll"
      BY <1>0, <2>1, <3>1, <3>2, <3>4
      DEF CallInv, AsFound, Unasked, Pending, TakenUp, Answered, Served, Died
    <3>5. CASE step = "poll" /\ reply # "event" /\ step' = "poll"
      BY <1>0, <2>1, <3>1, <3>2, <3>5
      DEF CallInv, AsFound, Unasked, Pending, TakenUp, Answered, Served, Died
    <3>6. CASE step = "poll" /\ reply = "event" /\ step' = "status"
      BY <1>0, <2>1, <3>1, <3>2, <3>6
      DEF CallInv, AsFound, Unasked, Pending, TakenUp, Answered, Served, Died
    <3> QED
      BY <2>2, <3>3, <3>4, <3>5, <3>6
  <2>3. ASSUME step = "status", step' = "call", reply = Target[phase],
               state' = [state EXCEPT ![axis] = reply], NextSlave, UNCHANGED cycVars
        PROVE  CallInv'
    <3>1. \A i \in Axes : state'[i] = IF i = axis THEN reply ELSE state[i]
      BY <1>0, <2>3 DEF Types, MainTypes
    <3>2. al[axis] = reply /\ request[axis] = "none" /\ ~event[axis]
      BY <1>0, <2>1, <2>3 DEF CallInv, Served
    <3>3. phase \notin {"probe", "construct"} /\ phase' \notin {"probe", "construct"}
      BY <1>0, <2>1, <2>3, NextSlaveSteps, Places
    <3>4. \A i \in Axes : request'[i] = "none" /\ ~event'[i] /\ al'[i] = state'[i]
      BY <1>0, <2>1, <2>3, <3>1, <3>2, <3>3 DEF CallInv, AsFound
    <3> QED
      BY <2>1, <2>3, <3>4, Places DEF CallInv, AsFound, Served, States
  <2> QED
    BY <1>0, <1>1, <1>10, <2>2, <2>3, ReceiveSteps DEF Types
<1>11. CASE ReceiveSilence
  BY <1>1, <1>11 DEF ReceiveSilence
<1>12. CASE CheckRun \/ CollectControllers
  BY <1>0, <1>12
  DEF CheckRun, CollectControllers, mainVars, CallInv, AsFound, Unasked, Pending, TakenUp,
      Answered, Served,
      Died
<1>13. CASE Exchange
  <2>1. cyc = "exchange" /\ cyc' = "update"
        /\ UNCHANGED <<phase, axis, step, state, al, reach, runCyclicThread>>
    BY <1>13 DEF Exchange, mainVars
  <2>2. CASE msg = "queued"
    <3>1. msg' = "inFrame" /\ Serve
      BY <1>13, <2>2 DEF Exchange
    <3> QED
      BY <1>0, <2>1, <2>2, <3>1, CallServed DEF CallInv
  <2>3. CASE msg # "queued"
    <3>1. UNCHANGED <<msg, reply, error, request, event>>
      BY <1>13, <2>3 DEF Exchange
    <3> QED
      BY <1>0, <2>1, <2>3, <3>1 DEF CallInv, AsFound, Unasked, Pending, TakenUp, Answered, Served,
          Died
  <2> QED
    BY <2>2, <2>3
<1>14. CASE UpdateControllers
  <2>1. /\ UNCHANGED <<phase, axis, step, state, al, error, request, event, reach, runCyclicThread,
                       reply>>
        /\ msg' = IF msg = "inFrame" THEN "ready" ELSE msg
    BY <1>14 DEF UpdateControllers, mainVars
  <2> QED
    BY <1>0, <2>1 DEF CallInv, AsFound, Unasked, Pending, TakenUp, Answered, Served
<1>15. ASSUME NEW i \in Axes, TakeUp(i) \/ Ignore(i)
       PROVE  CallInv'
  BY <1>0, <1>15, CallTakenUp, CallIgnored
<1>16. ASSUME UNCHANGED <<phase, axis, step, state, al, error, request, event, runCyclicThread, cyc,
                          msg, reply>>, reach' \in 0 .. reach
       PROVE  CallInv'
  BY <1>0, <1>16
  DEF CallInv, AsFound, Unasked, Pending, TakenUp, Answered, Served, Died, Types, MainTypes,
      SlaveTypes, Axes
<1>17. ASSUME NEW i \in Axes, DriveFollows(i) \/ ArmMoves(i) \/ DriveFaults(i)
       PROVE  CallInv'
  BY <1>16, <1>17
  DEF DriveFollows, ArmMoves, DriveFaults, mainVars, cycVars, Types, SlaveTypes
<1>18. CASE Cut
  BY <1>16, <1>18 DEF Cut, mainVars, cycVars, Types, SlaveTypes
<1> QED
  BY <1>3, <1>4, <1>5, <1>6, <1>7, <1>8, <1>9, <1>10, <1>11, <1>12, <1>13, <1>14, <1>15, <1>17, <1>18
  DEF Steps, Main, WorkSteps, CyclicThread, EnvironmentSteps, Axis, Troubles

--------------------------------------------------------------------------------
(* The drives.                                                                 *)

\* Main itself moves nothing.
LEMMA MainFrame ==
  ASSUME Main
  PROVE  UNCHANGED <<al, drive, out, arm, reach, troubles>>
<1> USE DEF slaveVars, driveVars, bus
<1>1. CASE SetupSteps \/ Wait \/ Stop \/ Join
  BY <1>1
  DEF SetupSteps, Probe, InitSlave, ClearClock, ConfigureMailbox, ConfigureProcessData, Configures,
      Register, Run, Accesses, Wait, Stop, Join
<1>2. CASE ChangeSteps
  BY <1>2 DEF ChangeSteps, ChangeState, Send, Receive, ReceiveSilence
<1>3. CASE WorkSteps
  BY <1>3
  DEF WorkSteps, LookReady, SwitchOn, EnableOperation, Checked, Call, HomeUp, HomeWatch, HomeDown,
      HomeStop, SetHome, MoveTo, ScaleSpeeds, SetSpeeds, SwitchOff
<1> QED
  BY <1>1, <1>2, <1>3 DEF Main, SetupSteps, ChangeSteps, WorkSteps

LEMMA DriveStep ==
  ASSUME Types, ThreadInv, DriveInv, ~Ended, Steps
  PROVE  DriveInv'
<1> USE DEF DriveInv
<1>1. CASE Main
  BY <1>1, MainFrame
<1>2. CASE CheckRun \/ CollectControllers \/ UpdateControllers
  BY <1>2 DEF CheckRun, CollectControllers, UpdateControllers, slaveVars, driveVars
<1>3. CASE Exchange
  <2>1. UNCHANGED <<al, drive>>
    BY <1>3 DEF Exchange
  <2>2. \A i \in Axes : al[i] # "OP" => out'[i] = out[i]
    BY <1>3, LoopServes, ExchangeSteps DEF Exchange, Loop, Types, Ended
  <2> QED
    BY <2>1, <2>2
<1>4. ASSUME NEW i \in Axes, TakeUp(i)
      PROVE  DriveInv'
  <2>1. \A j \in Axes : j # i => al'[j] = al[j] /\ out'[j] = out[j] /\ drive'[j] = drive[j]
    BY <1>4, TakeUpSteps DEF Types, SlaveTypes
  <2>2. al'[i] # "OP" => out'[i] = NoOutputs /\ drive'[i] \in {"disabled", "fault"}
    BY <1>4, TakeUpSteps DEF Types, SlaveTypes
  <2> QED
    BY <2>1, <2>2
<1>5. CASE \E i \in Axes : DriveFollows(i) \/ ArmMoves(i) \/ DriveFaults(i)
  BY <1>5 DEF DriveFollows, ArmMoves, DriveFaults, slaveVars, Types, SlaveTypes
<1>6. CASE Cut
  BY <1>6 DEF Cut, slaveVars, driveVars
<1>7. CASE \E i \in Axes : Ignore(i)
  BY <1>7, IgnoreSteps
<1> QED
  BY <1>1, <1>2, <1>3, <1>4, <1>5, <1>6, <1>7 DEF Steps, CyclicThread, EnvironmentSteps, Axis,
      Troubles

--------------------------------------------------------------------------------
(* Homing.                                                                     *)

LEMMA LiftFrame ==
  ASSUME LiftInv, UNCHANGED <<vel, out, frame, arm, homeDone>>,
         cyc' = cyc \/ cyc' \notin {"exchange", "update"},
         phase' \in Still => phase \in Still, Lifting' => Lifting,
         phase' = "homeDown" => phase = "homeDown"
  PROVE  LiftInv'
BY DEF LiftInv

\* What main commands before an axis goes down.
LEMMA LiftCalls ==
  ASSUME Types, WorkSteps, phase \in Switching \cup {"homeUp", "homeWatch"}
  PROVE  /\ UNCHANGED <<out, frame, arm>> /\ cyc' \in {cyc, "killed"}
         /\ \A i \in Axes :
              /\ vel'[i].torque = vel[i].torque
              /\ \/ vel'[i].done = vel[i].done /\ vel'[i].velocity = vel[i].velocity
                 \/ vel'[i].done /\ vel'[i].velocity \in {0, 1} /\ phase \in {"homeUp", "homeWatch"}
         /\ \A i \in Axes : i \in homeDone' => i \in homeDone \/ "pressing" \in vel[i].torque
         /\ \/ phase \in Switching /\ phase' \in Still
            \/ phase = "homeUp" /\ phase' \in {"homeUp", "homeWatch"}
            \/ phase = "homeWatch" /\ phase' = "homeWatch"
            \/ phase = "homeWatch" /\ phase' = "homeDown" /\ axis' = 1 /\ homeDoneNum' = Slaves
<1>0. axis \in Axes /\ vel \in [Axes -> Controller] /\ vel[axis] \in Controller
  BY DEF Types, MainTypes, VelTypes
<1> USE DEF Switching, Still, homing, driveVars, cycVars
<1>1. CASE LookReady
  <2>1. vel' = [vel EXCEPT ![axis] = vel[axis]]
    BY <1>1, Zenon DEF LookReady, Call
  <2>2. UNCHANGED vel
    BY <1>0, <2>1
  <2> QED
    BY <1>0, <1>1, <2>2, IterateSteps DEF LookReady, Call
<1>2. CASE SwitchOn \/ EnableOperation
  <2>1. PICK f \in Flags : vel' = [vel EXCEPT ![axis] = [vel[axis] EXCEPT !.control = @ \cup {f}]]
                           \/ UNCHANGED vel
    BY <1>2 DEF SwitchOn, EnableOperation, Checked, Call, Flags
  <2> DEFINE c == [vel[axis] EXCEPT !.control = @ \cup {f}]
  <2>2. c.velocity = vel[axis].velocity /\ c.done = vel[axis].done /\ c.torque = vel[axis].torque
    BY <1>0, ControlKeepsType
  <2>3. vel' = [vel EXCEPT ![axis] = c] \/ UNCHANGED vel
    BY <2>1
  <2> HIDE DEF c
  <2>4. \A i \in Axes : /\ vel'[i].torque = vel[i].torque /\ vel'[i].done = vel[i].done
                        /\ vel'[i].velocity = vel[i].velocity
    BY <1>0, <2>2, <2>3
  <2>5. /\ UNCHANGED <<out, frame, arm, homeDone>> /\ cyc' \in {cyc, "killed"}
        /\ phase \in Switching /\ phase' \in Still
    BY <1>0, <1>2, IterateSteps DEF SwitchOn, EnableOperation, Checked, Call, Dies
  <2> QED
    BY <2>4, <2>5
<1>3. CASE HomeUp
  <2> DEFINE c == [vel[axis] EXCEPT !.velocity = 1, !.done = TRUE]
  <2>1. c.velocity = 1 /\ c.done /\ c.torque = vel[axis].torque
    BY <1>0, VelocityKeepsType
  <2>2. vel' = [vel EXCEPT ![axis] = c]
    BY <1>3 DEF HomeUp, Call, Velocity
  <2> HIDE DEF c
  <2>3. \A i \in Axes : /\ vel'[i].torque = vel[i].torque
                        /\ \/ vel'[i].done = vel[i].done /\ vel'[i].velocity = vel[i].velocity
                           \/ vel'[i].done /\ vel'[i].velocity \in {0, 1}
    BY <1>0, <2>1, <2>2
  <2>4. /\ UNCHANGED <<out, frame, arm, homeDone, cyc>>
        /\ phase = "homeUp" /\ phase' \in {"homeUp", "homeWatch"}
    BY <1>0, <1>3, IterateSteps DEF HomeUp, Call
  <2> QED
    BY <2>3, <2>4
<1>4. CASE HomeWatch
  <2>0. /\ UNCHANGED <<out, frame, arm, cyc>>
        /\ phase = "homeWatch" /\ phase' \in {"homeWatch", "homeDown"}
        /\ phase' = "homeDown" => axis' = 1 /\ homeDoneNum' = Slaves
    BY <1>0, <1>4, IterateSteps DEF HomeWatch
  <2> DEFINE c == [vel[axis] EXCEPT !.velocity = 0, !.done = TRUE]
  <2>1. c.velocity = 0 /\ c.done /\ c.torque = vel[axis].torque
    BY <1>0, VelocityKeepsType
  <2>2. \/ vel' = [vel EXCEPT ![axis] = c] /\ homeDone' = homeDone \cup {axis}
           /\ "pressing" \in vel[axis].torque
        \/ UNCHANGED <<vel, homeDone>>
    BY <1>4 DEF HomeWatch, Velocity
  <2> HIDE DEF c
  <2>3. \A i \in Axes : /\ vel'[i].torque = vel[i].torque
                        /\ \/ vel'[i].done = vel[i].done /\ vel'[i].velocity = vel[i].velocity
                           \/ vel'[i].done /\ vel'[i].velocity \in {0, 1}
    BY <1>0, <2>1, <2>2
  <2>4. \A i \in Axes : i \in homeDone' => i \in homeDone \/ "pressing" \in vel[i].torque
    BY <2>2
  <2> QED
    BY <2>0, <2>3, <2>4
<1>5. ~(HomeDown \/ HomeStop \/ SetHome \/ MoveTo \/ ScaleSpeeds \/ SetSpeeds \/ SwitchOff)
  BY DEF HomeDown, HomeStop, SetHome, MoveTo, ScaleSpeeds, SetSpeeds, SwitchOff, Call
<1> QED
  BY <1>1, <1>2, <1>3, <1>4, <1>5 DEF WorkSteps

\* The axes that are done are counted, so as many as there are is all of them.
LEMMA AllCounted ==
  ASSUME NEW counted \in SUBSET Axes, Cardinality(counted) = Slaves
  PROVE  counted = Axes
<1>1. IsFiniteSet(Axes) /\ Cardinality(Axes) = Slaves
  BY FS_Interval DEF Axes
<1> QED
  BY <1>1, FS_Subset

LEMMA LiftStep ==
  ASSUME Types, HomeTypes', ThreadInv, CallInv, LiftInv, ~Ended, Steps
  PROVE  LiftInv'
<1>0. axis \in Axes /\ phase \in Phases /\ phase' \in Phases /\ ~Died
  <2>1. MainTypes'
    BY MainTypesStep DEF Ended
  <2> QED
    BY <2>1 DEF Types, MainTypes, Ended
<1> USE DEF Still, Early, Building, Switching
<1>1. CASE WorkSteps /\ phase \in Switching \cup {"homeUp", "homeWatch"}
  <2>1. Lifting
    BY <1>1 DEF Lifting
  <2>2. \A i \in Axes : "pressing" \in vel'[i].torque \/ i \in homeDone' => arm'[i] = Top
    BY <1>1, <2>1, LiftCalls DEF LiftInv
  <2>3. \A i \in Axes : vel'[i].done /\ vel'[i].velocity # -1
    BY <1>1, <2>1, LiftCalls DEF LiftInv
  <2>4. phase' = "homeDown" => homeDone' = Axes
    BY <1>1, LiftCalls, AllCounted DEF HomeTypes
  <2>5. phase' \in Still => phase \in Still /\ \A i \in Axes : vel'[i].velocity = 0
    BY <1>1, LiftCalls DEF LiftInv
  <2>6. UNCHANGED <<out, frame, arm>> /\ cyc' \in {cyc, "killed"}
    BY <1>1, LiftCalls
  <2> QED
    BY <2>1, <2>2, <2>3, <2>4, <2>5, <2>6 DEF LiftInv
<1>2. CASE WorkSteps /\ phase \notin Switching \cup {"homeUp", "homeWatch"}
  <2>1. CASE HomeDown
    <3>1. phase = "homeDown" /\ Iterate("homeDown", "downWait") /\ UNCHANGED homeDone
      BY <2>1 DEF HomeDown, Call, homing
    <3>2. phase' = "downWait" \/ (phase' = "homeDown" /\ axis' # 1)
      BY <1>0, <3>1, IterateSteps DEF Axes
    <3> QED
      BY <3>1, <3>2 DEF LiftInv, Lifting
  <2>2. CASE HomeStop \/ SetHome \/ MoveTo \/ ScaleSpeeds \/ SetSpeeds \/ SwitchOff
    <3>1. phase' \in {"homeStop", "setHome", "teardown"} \cup Moves
      BY <1>0, <2>2, IterateSteps
      DEF HomeStop, SetHome, MoveTo, ScaleSpeeds, SetSpeeds, SwitchOff, Call, Goto, Moves
    <3> QED
      BY <3>1 DEF LiftInv, Lifting, Moves
  <2> QED
    BY <1>2, <2>1, <2>2
    DEF WorkSteps, LookReady, SwitchOn, EnableOperation, Checked, Call, HomeUp, HomeWatch
<1>3. CASE Wait
  BY <1>0, <1>3, WaitSteps, LiftFrame DEF Lifting, homing, cycVars, driveVars
<1>4. CASE SetupSteps
  <2>1. phase \in Still /\ phase' # "homeDown"
        /\ UNCHANGED <<vel, out, frame, arm, homeDone>> /\ cyc' \in {cyc, "killed", "check"}
    BY <1>0, <1>4, IterateSteps
    DEF SetupSteps, Probe, InitSlave, ClearClock, ConfigureMailbox, ConfigureProcessData,
        Configures, Register, Run, Accesses, Goto, Dies, homing, cycVars, driveVars
  <2> QED
    BY <2>1, LiftFrame DEF Lifting
<1>5. CASE Stop \/ Join
  <2>1. /\ phase' \in {"join", "returned"}
        /\ UNCHANGED <<vel, out, frame, arm, homeDone>> /\ cyc' \in {cyc, "absent"}
    BY <1>5 DEF Stop, Join, Goto, homing, driveVars
  <2> QED
    BY <2>1, LiftFrame DEF Lifting
<1>6. CASE ChangeSteps
  <2>1. UNCHANGED <<vel, out, frame, arm, homeDone>> /\ cyc' \in {cyc, "killed"}
    BY <1>0, <1>6, ReceiveSteps
    DEF Types, ChangeSteps, ChangeState, Send, ReceiveSilence, Dies, homing, cycVars, driveVars
  <2>2. UNCHANGED <<phase, axis>> \/ (phase \in DOMAIN Target /\ NextSlave)
    BY <1>0, <1>6, ReceiveSteps DEF Types, ChangeSteps, ChangeState, Send, ReceiveSilence, Dies
  <2>3. \/ UNCHANGED <<phase, axis>>
        \/ phase \in Still /\ phase' \in Still
        \/ phase = "teardown" /\ phase' \in {"teardown", "stop"}
    BY <1>0, <2>2, NextSlaveSteps
  <2> QED
    BY <2>1, <2>3, LiftFrame DEF Lifting
<1>7. CASE CheckRun
  BY <1>7, LiftFrame DEF CheckRun, mainVars, homing, driveVars, Lifting
<1>8. CASE CollectControllers
  <2>1. registered = Slaves
    BY <1>0, <1>8, LoopServes DEF CollectControllers, Loop, Types
  <2>2. \A i \in Axes : frame'[i].low = vel[i].velocity
    BY <1>8, <2>1, CollectSteps
  <2>3. UNCHANGED <<phase, axis, homeDone, vel, out, arm>> /\ cyc' = "exchange"
    BY <1>8 DEF CollectControllers, mainVars, homing, driveVars
  <2> QED
    BY <2>2, <2>3 DEF LiftInv, Lifting
<1>9. CASE Exchange
  <2>1. registered = Slaves
    BY <1>0, <1>9, LoopServes DEF Exchange, Loop, Types
  <2>2. cyc = "exchange" /\ cyc' = "update" /\ UNCHANGED <<phase, axis, homeDone, vel, arm>>
    BY <1>9 DEF Exchange, mainVars, homing
  <2>3. \A i \in Axes : out'[i].velocity = frame[i].low \/ out'[i] = out[i]
    BY <1>9, <2>1, ExchangeSteps
  <2>4. \A i \in Axes : "pressing" \in frame'[i].mid => arm[i] = Top
    <3>1. \A i \in Axes : "pressing" \notin frame[i].mid
      BY <2>2 DEF Types, FrameTypes, Flags
    <3>2. \A i \in Axes : \/ frame'[i] = frame[i]
                         \/ frame'[i].mid = IF Presses(i) THEN {"pressing"} ELSE {}
      BY <1>9, <2>1, ExchangeSteps
    <3> QED
      BY <3>1, <3>2 DEF Presses
  <2> QED
    BY <2>2, <2>3, <2>4 DEF LiftInv, Lifting
<1>10. CASE UpdateControllers
  <2>1. registered = Slaves
    BY <1>0, <1>10, LoopServes DEF UpdateControllers, Loop, Types
  <2>2. cyc = "update" /\ cyc' = "check" /\ UNCHANGED <<phase, axis, homeDone, out, arm>>
    BY <1>10 DEF UpdateControllers, mainVars, homing, driveVars
  <2>3. \A i \in Axes : /\ vel'[i].torque = frame[i].mid
                        /\ vel[i].done => vel'[i].done /\ vel'[i].velocity = vel[i].velocity
    BY <1>10, <2>1, UpdateVel
  <2> QED
    BY <2>2, <2>3 DEF LiftInv, Lifting
<1>11. ASSUME NEW i \in Axes, TakeUp(i)
       PROVE  LiftInv'
  <2>1. \A j \in Axes : out'[j] = out[j] \/ out'[j].velocity = 0
    BY <1>11, TakeUpSteps DEF Types, SlaveTypes, NoOutputs
  <2>2. UNCHANGED <<phase, axis, homeDone, vel, frame, cyc, arm>>
    BY <1>11, TakeUpSteps DEF mainVars, homing, cycVars
  <2> QED
    BY <2>1, <2>2 DEF LiftInv, Lifting
<1>12. ASSUME Cut \/ \E i \in Axes : Ignore(i) \/ DriveFollows(i) \/ DriveFaults(i)
       PROVE  LiftInv'
  <2>1. UNCHANGED <<phase, axis, homeDone, vel, out, frame, cyc, arm>>
    BY <1>12, IgnoreSteps DEF DriveFollows, DriveFaults, Cut, mainVars, homing, cycVars, driveVars
  <2> QED
    BY <2>1, LiftFrame DEF Lifting
<1>13. ASSUME NEW i \in Axes, ArmMoves(i)
       PROVE  LiftInv'
  <2>1. UNCHANGED <<phase, axis, homeDone, vel, out, frame, cyc>>
    BY <1>13 DEF ArmMoves, mainVars, homing, cycVars
  <2>2. Lifting => UNCHANGED arm \/ arm[i] # Top
    BY <1>13 DEF ArmMoves, LiftInv, Types, SlaveTypes, Positions
  <2>3. \A j \in Axes : j # i => arm'[j] = arm[j]
    BY <1>13 DEF ArmMoves, Types, SlaveTypes
  <2> QED
    BY <1>13, <2>1, <2>2, <2>3 DEF LiftInv, Lifting
<1> QED
  BY <1>1, <1>2, <1>3, <1>4, <1>5, <1>6, <1>7, <1>8, <1>9, <1>10, <1>11, <1>12, <1>13
  DEF Steps, Main, SetupSteps, ChangeSteps, CyclicThread, EnvironmentSteps, Axis, Troubles,
      WorkSteps

--------------------------------------------------------------------------------
(* Teardown.                                                                   *)

LEMMA OffFrame ==
  ASSUME OffInv, ~Died, UNCHANGED <<phase, axis, step, vel, frame, al, out>>,
         \A i \in Axes : request'[i] = "none" \/ request'[i] = request[i],
         cyc' = cyc \/ cyc' # "exchange", msg' = "ready" => msg = "ready" \/ cyc' # "exchange"
  PROVE  OffInv'
BY DEF OffInv, PastFirst, Died

\* Steps of main before Teardown, and after it.
LEMMA OffElsewhere ==
  ASSUME phase' \notin {"switchOff", "teardown"} \/ (phase' = "switchOff" /\ axis' = 1)
  PROVE  OffInv'
BY DEF OffInv, Axes

LEMMA OffStep ==
  ASSUME Types, ThreadInv, ProgressInv, CallInv, OffInv, ~Ended, Steps
  PROVE  OffInv'
<1> USE DEF slaveVars, driveVars, msgVars, cycVars
<1>0. axis \in Axes /\ ~Died
  BY DEF Types, MainTypes, Ended
<1>1. ASSUME Dies PROVE OffInv'
  BY <1>1 DEF Dies, OffInv, Died
<1>2. CASE WorkSteps
  <2>1. CASE phase = "switchOff" /\ ~Dies
    <3>1. /\ \A i \in Axes : i < axis => vel'[i].control = {}
          /\ vel'[axis].control = {}
      BY <1>0, <1>2, <2>1, WorkVel DEF OffInv
    <3>2. \/ phase' = "switchOff" /\ axis' = axis + 1
          \/ phase' = "teardown" /\ axis' = 1 /\ axis = Slaves
      BY <1>0, <1>2, <2>1, IterateSteps
      DEF WorkSteps, LookReady, SwitchOn, EnableOperation, Checked, Call, HomeUp, HomeWatch,
          HomeDown,
          HomeStop, SetHome, MoveTo, ScaleSpeeds, SetSpeeds, SwitchOff
    <3>3. step = "call" /\ msg = "none" /\ \A i \in Axes : request[i] = "none"
      BY <1>0, <2>1, Places DEF CallInv
    <3>4. UNCHANGED <<step, msg, request>>
      BY <1>0, <1>2, WorkFrame
    <3> QED
      BY <1>0, <3>1, <3>2, <3>3, <3>4 DEF OffInv, PastFirst, Axes
  <2>2. CASE phase # "switchOff" /\ ~Dies
    <3>1. phase' \notin {"switchOff", "teardown"}
      <4>1. CASE LookReady \/ SwitchOn \/ EnableOperation
        <5>1. phase \in {"lookReady", "switchOn", "enable"}
          BY <4>1 DEF LookReady, SwitchOn, EnableOperation, Checked, Call
        <5> QED
          BY <1>2, <5>1, LiftCalls DEF Still, Early, Building, Switching
      <4>2. CASE HomeUp \/ HomeWatch \/ HomeDown \/ HomeStop \/ SetHome
        BY <1>0, <4>2, IterateSteps DEF HomeUp, HomeWatch, HomeDown, HomeStop, SetHome, Call
      <4>3. CASE MoveTo \/ ScaleSpeeds \/ SetSpeeds \/ SwitchOff
        BY <1>0, <2>2, <4>3, IterateSteps DEF MoveTo, ScaleSpeeds, SetSpeeds, SwitchOff, Call, Goto
      <4> QED
        BY <1>2, <4>1, <4>2, <4>3 DEF WorkSteps
    <3> QED
      BY <3>1, OffElsewhere
  <2> QED
    BY <1>1, <2>1, <2>2
<1>3. CASE Wait
  BY <1>0, <1>3, WaitSteps, OffElsewhere
<1>4. CASE SetupSteps
  <2>1. Dies \/ phase' \in Building \cup Early \cup {"settle"}
    BY <1>0, <1>4, IterateSteps
    DEF SetupSteps, Probe, InitSlave, ClearClock, ConfigureMailbox, ConfigureProcessData,
        Configures, Register, Run, Accesses, Goto, Building, Early
  <2> QED
    BY <1>1, <2>1, OffElsewhere DEF Building, Early
<1>5. CASE Stop \/ Join
  BY <1>5, OffElsewhere DEF Stop, Join, Goto
<1>6. ASSUME phase \in DOMAIN Target, NextSlave, phase # "teardown"
      PROVE  OffInv'
  BY <1>0, <1>6, NextSlaveSteps, OffElsewhere
<1>7. CASE ChangeState
  <2>1. phase = "teardown" => state[axis] = "OP" /\ ~InvalidHop("OP", Target[phase])
                              /\ Target[phase] = "INIT"
    BY <1>0, Targets DEF ProgressInv, InvalidHop, Axes
  <2>2. CASE phase # "teardown"
    BY <1>0, <1>1, <1>6, <1>7, <2>2, OffElsewhere DEF ChangeState, OffInv, PastFirst
  <2>3. CASE phase = "teardown"
    <3>1. step = "call" /\ step' = "read" /\ UNCHANGED <<phase, axis, cycVars, vel, request, al, out, msg>>
      BY <1>7, <2>1, <2>3 DEF ChangeState
    <3> QED
      BY <1>0, <3>1 DEF OffInv, PastFirst, Died
  <2> QED
    BY <2>2, <2>3
<1>8. CASE Send
  <2>1. UNCHANGED <<phase, axis, step, vel, cyc, frame, al, out>> /\ step # "call"
    BY <1>8 DEF Send
  <2>2. CASE phase = "teardown"
    <3>1. runCyclicThread
      BY <1>0, <2>2 DEF ThreadInv, Running
    <3>2. msg' = "queued" /\ UNCHANGED request
      BY <1>8, <3>1 DEF Send
    <3> QED
      BY <1>0, <2>1, <3>2, OffFrame
  <2>3. CASE phase # "teardown"
    <3>1. phase # "switchOff"
      BY <1>0, <2>1, Places DEF CallInv
    <3> QED
      BY <2>1, <2>3, <3>1, OffElsewhere
  <2> QED
    BY <2>2, <2>3
<1>9. CASE Receive
  <2>1. /\ phase \in DOMAIN Target /\ msg = "ready"
        /\ UNCHANGED <<vel, request, al, out>>
        /\ \/ UNCHANGED <<phase, axis, cycVars>> /\ step' \in {"write", "poll", "status"}
           \/ NextSlave /\ UNCHANGED cycVars
           \/ Dies
    BY <1>0, <1>9, ReceiveSteps DEF Types
  <2>2. CASE phase = "teardown" /\ ~Dies
    <3>1. /\ phase' \in {"teardown", "stop"}
          /\ UNCHANGED <<vel, frame, cyc, request, al, out>>
      BY <1>0, <2>1, <2>2, NextSlaveSteps
    <3>2. PastFirst
      BY <2>1 DEF PastFirst
    <3> QED
      BY <1>0, <2>2, <3>1, <3>2 DEF OffInv
  <2>3. CASE phase # "teardown"
    BY <1>0, <1>1, <1>6, <2>1, <2>3, Places, OffElsewhere
  <2> QED
    BY <1>1, <2>2, <2>3
<1>10. CASE ReceiveSilence
  BY <1>1, <1>10 DEF ReceiveSilence
<1>11. CASE CheckRun
  BY <1>0, <1>11, OffFrame DEF CheckRun, mainVars
<1>12. CASE CollectControllers
  <2>1. registered = Slaves
    BY <1>0, <1>12, LoopServes DEF CollectControllers, Loop, Types
  <2>2. \A i \in Axes : frame'[i].mid = vel[i].control
    BY <1>12, <2>1, CollectSteps
  <2>3. UNCHANGED <<phase, axis, step, vel, al, out, request>>
    BY <1>12 DEF CollectControllers, mainVars
  <2> QED
    BY <1>0, <2>2, <2>3 DEF OffInv
<1>13. CASE Exchange
  <2>1. registered = Slaves
    BY <1>0, <1>13, LoopServes DEF Exchange, Loop, Types
  <2>2. cyc = "exchange" /\ cyc' = "update" /\ UNCHANGED <<phase, axis, vel, al>>
    BY <1>13 DEF Exchange, mainVars
  <2>3. \A i \in Axes :
          \/ Answers(i) /\ al[i] = "OP" /\ out'[i].control = frame[i].mid
          \/ ~(Answers(i) /\ al[i] = "OP") /\ out'[i] = out[i]
    BY <1>13, <2>1, ExchangeSteps
  <2>4. \A i \in Axes :
          request'[i] # "none" =>
            request[i] # "none" \/ (i = axis /\ step = "write" /\ Answers(i))
    <3>1. CASE msg = "queued"
      BY <1>0, <1>13, <3>1, ServeSteps DEF Exchange, Types, SlaveTypes, CallInv
    <3>2. CASE msg # "queued"
      BY <1>13, <3>2 DEF Exchange
    <3> QED
      BY <3>1, <3>2
  <2>5. \A i \in Axes : request[i] # "none" => i = axis /\ step \in {"write", "poll", "status"}
    BY <1>0 DEF CallInv, Unasked, Types, MainTypes
  <2>6. ASSUME NEW i \in Axes, phase = "teardown", request'[i] # "none", al[i] = "OP"
        PROVE  out'[i].control = {}
    <3>1. PastFirst
      BY <2>4, <2>5, <2>6 DEF PastFirst
    <3>2. frame[i].mid = {}
      BY <1>0, <2>2, <2>6, <3>1 DEF OffInv
    <3> QED
      BY <1>0, <2>3, <2>4, <2>6, <3>2 DEF OffInv
  <2> QED
    BY <1>0, <2>2, <2>6 DEF OffInv
<1>14. CASE UpdateControllers
  <2>1. registered = Slaves
    BY <1>0, <1>14, LoopServes DEF UpdateControllers, Loop, Types
  <2>2. \A i \in Axes : vel'[i].control = vel[i].control
    BY <1>14, <2>1, UpdateVel
  <2>3. cyc' = "check" /\ UNCHANGED <<phase, axis, al, out, request>>
    BY <1>14 DEF UpdateControllers, mainVars
  <2> QED
    BY <1>0, <2>2, <2>3 DEF OffInv
<1>15. ASSUME NEW i \in Axes, TakeUp(i)
       PROVE  OffInv'
  <2>1. \A j \in Axes : /\ j # i => /\ request'[j] = request[j] /\ al'[j] = al[j]
                                   /\ out'[j] = out[j]
                        /\ request'[i] = "none"
    BY <1>15, TakeUpSteps DEF Types, SlaveTypes
  <2>2. UNCHANGED <<phase, axis, step, vel, cyc, frame, msg>>
    BY <1>15, TakeUpSteps DEF mainVars
  <2> QED
    BY <1>0, <2>1, <2>2 DEF OffInv, PastFirst, Died
<1>16. CASE Cut \/ \E i \in Axes : DriveFollows(i) \/ ArmMoves(i) \/ DriveFaults(i)
  <2>1. UNCHANGED <<phase, axis, step, vel, cyc, frame, al, out, request, msg>>
    BY <1>16 DEF Cut, DriveFollows, ArmMoves, DriveFaults, mainVars
  <2> QED
    BY <1>0, <2>1, OffFrame
<1>17. CASE \E i \in Axes : Ignore(i)
  <2>1. /\ UNCHANGED <<phase, axis, step, vel, cyc, frame, al, out, msg>>
        /\ \A j \in Axes : request'[j] = "none" \/ request'[j] = request[j]
    BY <1>17, IgnoreSteps
  <2> QED
    BY <1>0, <2>1, OffFrame
<1> QED
  BY <1>2, <1>3, <1>4, <1>5, <1>7, <1>8, <1>9, <1>10, <1>11, <1>12, <1>13, <1>14, <1>15, <1>16,
     <1>17
  DEF Steps, Main, SetupSteps, CyclicThread, EnvironmentSteps, Axis, Troubles, WorkSteps

--------------------------------------------------------------------------------
(* A run without trouble.                                                      *)

\* Main's datagram, as far as its slave obeys.
LEMMA ObeysServed ==
  ASSUME Types, CallInv, Obeys, ~Died, step # "call", msg \in {"none", "queued"}, Serve,
         UNCHANGED <<phase, axis, step, al>>
  PROVE  Obeys'
<1> USE DEF Obeys, Served
<1>0. axis \in Axes /\ Target[phase] \in States /\ "none" \notin States
      /\ request \in [Axes -> States \cup {"none"}] /\ event \in [Axes -> BOOLEAN]
  BY Places DEF Types, MainTypes, SlaveTypes, CallInv, States
<1>1. CASE ~Answers(axis)
  BY <1>0, <1>1, ServeSteps DEF Types
<1>2. CASE Answers(axis) /\ step \in {"read", "poll"}
  BY <1>0, <1>2, ServeSteps DEF Types
<1>3. CASE Answers(axis) /\ step = "write"
  <2>1. request'[axis] # "none" /\ step' # "status"
    BY <1>0, <1>3, ServeSteps DEF Types
  <2> QED
    BY <2>1
<1>4. CASE Answers(axis) /\ step = "status"
  <2>1. request[axis] = "none" /\ event[axis]
    BY <1>4 DEF CallInv, Answered
  <2>2. reply' = al[axis] /\ ~event'[axis]
    BY <1>0, <1>4, ServeSteps DEF Types
  <2> QED
    BY <1>4, <2>1, <2>2
<1> QED
  BY <1>1, <1>2, <1>3, <1>4 DEF Types, MainTypes

\* What is asked of a slave is a hop it is ready for.
LEMMA HopsMayBeMade ==
  ASSUME Types, ConfigInv, CallInv, ~Died, step # "call", Pending(axis)
  PROVE  MayEnter(axis, Target[phase])
<1>1. axis \in Axes /\ phase \in DOMAIN Target /\ al[axis] = state[axis] /\ al[axis] \in States
      /\ ~InvalidHop(al[axis], Target[phase])
  BY DEF Types, MainTypes, SlaveTypes, CallInv, Pending
<1>2. Reachable(al[axis], Target[phase])
  BY <1>1, Places DEF Reachable, InvalidHop, Rank, States
<1>3. CASE phase \in {"toInit", "teardown"}
  BY <1>2, <1>3, Targets DEF MayEnter
<1>4. CASE phase = "toPreop"
  BY <1>1, <1>2, <1>4, Targets DEF MayEnter, ConfigInv, Axes
<1>5. CASE phase \in {"toSafeop", "toOp"}
  BY <1>1, <1>2, <1>5, Targets DEF MayEnter, ConfigInv, Axes, Early
<1> QED
  BY <1>1, <1>3, <1>4, <1>5, Places

LEMMA ObeysStep ==
  ASSUME Types, ThreadInv, ConfigInv, CallInv, Obeys, ~Ended, Steps, UNCHANGED troubles
  PROVE  Obeys'
<1> USE DEF slaveVars, msgVars, bus
<1>0. axis \in Axes /\ ~Died
  BY DEF Types, MainTypes, Ended
<1>1. ASSUME Dies PROVE Obeys'
  BY <1>1 DEF Dies, Obeys, Died
<1>2. ASSUME step' = "call" PROVE Obeys'
  BY <1>2 DEF Obeys
<1>3. ASSUME UNCHANGED <<phase, axis, step, request, event, al>>,
             UNCHANGED <<msg, reply>> \/ msg' \in {"none", "queued"} \/ (msg = "inFrame" /\ reply' = reply)
      PROVE  Obeys'
  BY <1>0, <1>3 DEF Obeys, Served
<1>4. phase \notin DOMAIN Target => step = "call"
  BY <1>0 DEF CallInv
<1>5. CASE WorkSteps
  BY <1>0, <1>2, <1>4, <1>5, WorkFrame, Places DEF Working, Switching, Homing, Moves
<1>6. CASE SetupSteps \/ Wait \/ Stop \/ Join
  <2>1. phase \notin DOMAIN Target /\ UNCHANGED step
    BY <1>6, Places, WaitSteps
    DEF SetupSteps, Probe, InitSlave, ClearClock, ConfigureMailbox, ConfigureProcessData,
        Configures, Register, Run, Accesses, Wait, AfterWait, Stop, Join
  <2> QED
    BY <1>2, <1>4, <2>1
<1>7. CASE ChangeState
  <2>1. /\ step = "call" /\ step' \in {"call", "read"} /\ phase \in DOMAIN Target
        /\ UNCHANGED <<msg, reply, request, event, al>>
    BY <1>7 DEF ChangeState
  <2>2. CASE step' = "read" /\ UNCHANGED <<phase, axis>>
    BY <1>0, <2>1, <2>2, Places DEF Obeys, CallInv, AsFound
  <2> QED
    BY <1>1, <1>2, <1>7, <2>1, <2>2 DEF ChangeState
<1>8. CASE Send
  <2>1. step # "call" /\ msg = "none" /\ UNCHANGED <<phase, axis, step, al>>
    BY <1>8 DEF Send
  <2>2. CASE runCyclicThread
    BY <1>3, <1>8, <2>1, <2>2 DEF Send
  <2>3. CASE ~runCyclicThread
    BY <1>0, <1>8, <2>1, <2>3, ObeysServed DEF Send
  <2> QED
    BY <2>2, <2>3
<1>9. CASE Receive
  <2>1. /\ msg' = "none" /\ UNCHANGED <<request, event, al>>
        /\ step' = "call" \/ (step # "call" /\ UNCHANGED <<phase, axis>>)
    BY <1>0, <1>9, ReceiveSteps DEF Types
  <2> QED
    BY <1>0, <1>2, <2>1 DEF Obeys, Served
<1>10. CASE ReceiveSilence
  BY <1>1, <1>10 DEF ReceiveSilence
<1>11. CASE CheckRun \/ CollectControllers
  <2>1. UNCHANGED <<phase, axis, step, request, event, al, msg, reply>>
    BY <1>11 DEF CheckRun, CollectControllers, mainVars
  <2> QED
    BY <1>3, <2>1
<1>12. CASE Exchange
  <2>1. UNCHANGED <<phase, axis, step, al>>
    BY <1>12 DEF Exchange, mainVars
  <2>2. CASE msg = "queued"
    BY <1>0, <1>12, <2>1, <2>2, ObeysServed DEF Exchange, CallInv
  <2>3. CASE msg # "queued"
    BY <1>3, <1>12, <2>1, <2>3 DEF Exchange
  <2> QED
    BY <2>2, <2>3
<1>13. CASE UpdateControllers
  <2>1. UNCHANGED <<phase, axis, step, request, event, al, reply>>
        /\ (msg' = msg \/ msg = "inFrame")
    BY <1>13 DEF UpdateControllers, mainVars
  <2> QED
    BY <1>3, <2>1
<1>14. ASSUME NEW i \in Axes, TakeUp(i)
       PROVE  Obeys'
  <2>1. i = axis /\ step \in {"write", "poll"} /\ Pending(axis) /\ request[axis] = Target[phase]
    BY <1>0, <1>14, CallTakenUp
  <2>2. MayEnter(axis, request[axis])
    BY <1>0, <2>1, HopsMayBeMade
  <2>3. al'[axis] = Target[phase]
    <3>1. ~(troubles < MaxTroubles /\ troubles' = troubles + 1)
      BY DEF Types, SlaveTypes
    <3> QED
      BY <1>0, <1>14, <2>1, <2>2, <3>1, TakeUpSteps DEF Types, SlaveTypes
  <2>4. UNCHANGED <<phase, axis, step>>
    BY <1>14, TakeUpSteps DEF mainVars
  <2> QED
    BY <2>1, <2>3, <2>4 DEF Obeys
<1>15. CASE Cut \/ \E i \in Axes : DriveFollows(i) \/ ArmMoves(i) \/ DriveFaults(i)
  <2>1. UNCHANGED <<phase, axis, step, request, event, al, msg, reply>>
    BY <1>15 DEF Cut, DriveFollows, ArmMoves, DriveFaults, mainVars
  <2> QED
    BY <1>3, <2>1
<1>16. ASSUME NEW i \in Axes, Ignore(i)
       PROVE  Obeys'
  <2>1. i = axis /\ step \in {"write", "poll"} /\ ~event[axis]
    BY <1>0, <1>16, CallIgnored DEF Pending
  <2>2. UNCHANGED <<step, axis, event>>
    BY <1>16, IgnoreSteps
  <2> QED
    BY <2>1, <2>2 DEF Obeys
<1> QED
  BY <1>5, <1>6, <1>7, <1>8, <1>9, <1>10, <1>11, <1>12, <1>13, <1>14, <1>15, <1>16
  DEF Steps, Main, WorkSteps, SetupSteps, CyclicThread, EnvironmentSteps, Axis, Troubles

\* Main leaves the frame and the status words as they are.
LEMMA MainStatus ==
  ASSUME Types, CallInv, ~Died, Main
  PROVE  /\ UNCHANGED <<frame, drive>> /\ (cyc' = cyc \/ cyc' # "update")
         /\ \A i \in Axes : vel'[i].status = vel[i].status
<1>0. axis \in Axes
  BY DEF Types, MainTypes
<1>1. UNCHANGED drive
  BY MainFrame
<1>2. CASE WorkSteps
  BY <1>0, <1>1, <1>2, WorkFrame, WorkVel
<1>3. CASE SetupSteps \/ Wait \/ Stop \/ Join
  <2>1. UNCHANGED <<vel, frame>> /\ cyc' \in {cyc, "killed", "check", "absent"}
    BY <1>3, WaitSteps
    DEF SetupSteps, Probe, InitSlave, ClearClock, ConfigureMailbox, ConfigureProcessData,
        Configures, Register, Run, Accesses, Dies, Wait, Stop, Join, cycVars
  <2> QED
    BY <1>1, <2>1
<1>4. CASE ChangeSteps
  <2>1. UNCHANGED <<vel, frame>> /\ cyc' \in {cyc, "killed"}
    BY <1>0, <1>4, ReceiveSteps
    DEF Types, ChangeSteps, ChangeState, Send, ReceiveSilence, Dies, cycVars
  <2> QED
    BY <1>1, <2>1
<1> QED
  BY <1>2, <1>3, <1>4 DEF Main, WorkSteps, SetupSteps, ChangeSteps

\* The places at which something is asserted of what the drives showed.
Looking == {"lookReady", "waitReady", "switchOn"}

LEMMA MainPlaces ==
  ASSUME Types, CallInv, ~Died, Main
  PROVE  /\ phase' \in Early \cup Building => phase \in Early \cup Building
         /\ phase \in After => phase' \in After
         /\ \/ phase' \notin Looking \/ (phase' = "lookReady" /\ axis' = 1)
            \/ UNCHANGED <<phase, axis, awaitSwitchOn>>
            \/ LookReady \/ Wait \/ SwitchOn
<1>0. axis \in Axes
  BY DEF Types, MainTypes
<1> USE DEF Early, Building, Looking, After
<1>1. CASE LookReady \/ SwitchOn \/ EnableOperation
  <2>1. phase \in {"lookReady", "switchOn", "enable"}
    BY <1>1 DEF LookReady, SwitchOn, EnableOperation, Checked, Call
  <2>2. phase' \in Switching \cup {"homeUp"}
    BY <1>0, <1>1, <2>1, IterateSteps DEF LookReady, SwitchOn, EnableOperation, Checked, Call,
        Dies, Switching
  <2>3. EnableOperation => phase' \notin Looking
    BY <1>0, IterateSteps DEF EnableOperation, Checked, Call, Dies
  <2> QED
    BY <1>1, <2>1, <2>2, <2>3 DEF Switching
<1>2. CASE HomeUp \/ HomeWatch \/ HomeDown \/ HomeStop \/ SetHome
  BY <1>0, <1>2, IterateSteps DEF HomeUp, HomeWatch, HomeDown, HomeStop, SetHome, Call
<1>3. CASE MoveTo \/ ScaleSpeeds \/ SetSpeeds \/ SwitchOff
  BY <1>0, <1>3, IterateSteps DEF MoveTo, ScaleSpeeds, SetSpeeds, SwitchOff, Call, Goto
<1>4. CASE Wait
  BY <1>0, <1>4, WaitSteps
<1>5. CASE SetupSteps
  BY <1>0, <1>5, IterateSteps
  DEF SetupSteps, Probe, InitSlave, ClearClock, ConfigureMailbox, ConfigureProcessData,
      Configures, Register, Run, Accesses, Goto, Dies
<1>6. CASE Stop \/ Join
  BY <1>6 DEF Stop, Join, Goto
<1>7. CASE ChangeSteps
  <2>1. UNCHANGED awaitSwitchOn
    BY <1>7 DEF ChangeSteps, ChangeState, Send, Receive, ReceiveSilence, homing
  <2>2. UNCHANGED <<phase, axis>> \/ (phase \in DOMAIN Target /\ NextSlave)
    BY <1>0, <1>7, ReceiveSteps DEF Types, ChangeSteps, ChangeState, Send, ReceiveSilence, Dies
  <2> QED
    BY <1>0, <2>1, <2>2, NextSlaveSteps
<1> QED
  BY <1>1, <1>2, <1>3, <1>4, <1>5, <1>6, <1>7 DEF Main, SetupSteps, ChangeSteps

LEMMA ShownFrame ==
  ASSUME NEW i \in Axes, Shown(i), UNCHANGED <<phase, axis, awaitSwitchOn, frame>>,
         cyc' = cyc \/ cyc' # "update", vel'[i].status = vel[i].status,
         \/ drive'[i] = drive[i]
         \/ drive'[i] \in {"ready", "on", "enabled"} \/ phase \in After
         \/ phase \in Early \cup Building /\ cyc # "update"
  PROVE  Shown(i)'
BY DEF Shown, Shows

LEMMA ShownStep ==
  ASSUME Types, ThreadInv, ProgressInv, CallInv, DriveInv, ~Ended, Steps, UNCHANGED troubles,
         reach = Slaves, \A i \in Axes : Shown(i)
  PROVE  \A i \in Axes : Shown(i)'
<1>0. axis \in Axes /\ ~Died
  BY DEF Types, MainTypes, Ended
<1>1. CASE Main
  <2>1. \A i \in Axes : Shows(i)' = Shows(i)
    BY <1>0, <1>1, MainStatus DEF Shows
  <2>2. ASSUME NEW i \in Axes,
               (phase' = "lookReady" /\ i < axis') \/ phase' = "waitReady" =>
                  awaitSwitchOn' \/ Shows(i),
               phase' = "switchOn" => Shows(i)
        PROVE  Shown(i)'
    <3>1. /\ drive'[i] = drive[i] /\ vel'[i].status = vel[i].status /\ frame'[i] = frame[i]
          /\ cyc' = cyc \/ cyc' # "update"
      BY <1>0, <1>1, MainStatus
    <3>2. Shows(i)' = Shows(i)
      BY <2>1
    <3>3. /\ phase' \in Early \cup Building => phase \in Early \cup Building
          /\ phase \in After => phase' \in After
      BY <1>0, <1>1, MainPlaces
    <3> QED
      BY <2>2, <3>1, <3>2, <3>3 DEF Shown
  <2>3. CASE LookReady
    <3>1. /\ phase = "lookReady" /\ Iterate("lookReady", "waitReady")
          /\ (axis > 1 /\ awaitSwitchOn) \/ ~Shows(axis) => awaitSwitchOn'
      <4>1. phase = "lookReady" /\ Iterate("lookReady", "waitReady")
        BY <2>3, Zenon DEF LookReady, Call
      <4>2. awaitSwitchOn' = (\/ axis > 1 /\ awaitSwitchOn
                              \/ "readyToSwitchOn" \notin vel[axis].status)
        BY <2>3, Zenon DEF LookReady
      <4> QED
        BY <4>1, <4>2, Zenon DEF Shows
    <3>2. \A i \in Axes : i <= axis => awaitSwitchOn' \/ Shows(i)
      BY <1>0, <3>1 DEF Shown, Axes
    <3>3. \/ phase' = "lookReady" /\ axis' = axis + 1
          \/ phase' = "waitReady" /\ axis = Slaves
      BY <1>0, <3>1, IterateSteps
    <3> QED
      BY <1>0, <2>2, <3>2, <3>3 DEF Axes
  <2>4. CASE Wait
    <3>1. /\ phase' = "lookReady" => axis' = 1
          /\ phase' # "waitReady"
          /\ phase' = "switchOn" => phase = "waitReady" /\ ~awaitSwitchOn
      BY <1>0, <2>4, WaitSteps
    <3> QED
      BY <2>2, <3>1 DEF Shown, Axes
  <2>5. CASE SwitchOn
    <3>1. phase = "switchOn" /\ phase' \in {"switchOn", "waitOn"}
      BY <1>0, <2>5, IterateSteps DEF SwitchOn, Checked, Call, Dies
    <3> QED
      BY <2>2, <3>1 DEF Shown
  <2>6. CASE UNCHANGED <<phase, axis, awaitSwitchOn>>
    BY <2>2, <2>6 DEF Shown
  <2>7. CASE phase' \notin Looking \/ (phase' = "lookReady" /\ axis' = 1)
    BY <2>2, <2>7 DEF Looking, Axes
  <2> QED
    BY <1>0, <1>1, <2>3, <2>4, <2>5, <2>6, <2>7, MainPlaces
<1>2. CASE CheckRun
  <2>1. UNCHANGED <<phase, axis, awaitSwitchOn, frame, vel, drive>> /\ cyc' # "update"
    BY <1>2 DEF CheckRun, mainVars, homing, driveVars
  <2> QED
    BY <2>1, ShownFrame
<1>3. CASE CollectControllers
  <2>1. registered = Slaves
    BY <1>0, <1>3, LoopServes DEF CollectControllers, Loop, Types
  <2>2. \A i \in Axes : frame'[i].high = {}
    BY <1>3, <2>1, CollectSteps
  <2>3. UNCHANGED <<phase, axis, awaitSwitchOn, vel, drive>> /\ cyc' = "exchange"
    BY <1>3 DEF CollectControllers, mainVars, homing, driveVars
  <2> QED
    BY <2>2, <2>3 DEF Shown, Shows, Coherent
<1>4. CASE Exchange
  <2>1. registered = Slaves
    BY <1>0, <1>4, LoopServes DEF Exchange, Loop, Types
  <2>2. UNCHANGED <<phase, axis, awaitSwitchOn, vel, drive>> /\ cyc = "exchange"
    BY <1>4 DEF Exchange, mainVars, homing
  <2>3. ASSUME NEW i \in Axes
        PROVE  Shown(i)'
    <3>1. Answers(i) /\ frame[i].high = {} /\ drive[i] \in DOMAIN StatusWord
      BY <2>2 DEF Answers, Axes, Types, FrameTypes, SlaveTypes
    <3>2. IF al[i] \in {"SAFEOP", "OP"} THEN frame'[i].high = StatusWord[drive[i]]
                                       ELSE frame'[i].high = {}
      BY <1>4, <2>1, <3>1, ExchangeSteps
    <3>3. phase \notin After /\ Shows(i) => al[i] = "OP"
      BY DEF Shown, DriveInv
    <3>4. /\ Coherent(frame'[i].high)
          /\ "readyToSwitchOn" \in frame'[i].high => drive[i] \in {"ready", "on", "enabled"}
          /\ phase \notin After /\ Shows(i) => "readyToSwitchOn" \in frame'[i].high
      <4>1. Coherent({}) /\ \A d \in DOMAIN StatusWord : Coherent(StatusWord[d])
        BY DEF Coherent, StatusWord
      <4> QED
        BY <3>1, <3>2, <3>3, <4>1, StatusWords DEF Shown
    <3> QED
      BY <2>2, <3>4 DEF Shown, Shows
  <2> QED
    BY <2>3
<1>5. CASE UpdateControllers
  <2>1. registered = Slaves /\ phase \in Running \cup {"join"}
    BY <1>0, <1>5, LoopServes DEF UpdateControllers, Loop, Types
  <2>2. UNCHANGED <<phase, axis, awaitSwitchOn, drive>> /\ cyc = "update" /\ cyc' = "check"
        /\ frame' = NoFrame
    BY <1>5 DEF UpdateControllers, mainVars, homing, driveVars
  <2>3. \A i \in Axes : vel'[i].status = frame[i].high
    BY <1>5, <2>1, UpdateVel
  <2>4. phase \notin Early \cup Building
    BY <2>1 DEF Early, Building, Running, Working, Switching, Homing, Moves
  <2>5. phase \in {"lookReady", "waitReady", "switchOn"} => phase \notin After
    BY DEF After
  <2>6. \A i \in Axes : frame'[i].high = {}
    BY <2>2 DEF NoFrame
  <2> QED
    BY <2>2, <2>3, <2>4, <2>5, <2>6 DEF Shown, Shows, Coherent
<1>6. ASSUME NEW i \in Axes, TakeUp(i)
      PROVE  \A j \in Axes : Shown(j)'
  <2>1. i = axis /\ request[axis] = Target[phase] /\ phase \in DOMAIN Target /\ al[axis] = state[axis]
    BY <1>0, <1>6, CallTakenUp DEF Pending
  <2>2. UNCHANGED <<phase, axis, awaitSwitchOn, frame, vel, cyc>>
    BY <1>6, TakeUpSteps DEF mainVars, homing, cycVars
  <2>3. \A j \in Axes : j # i => drive'[j] = drive[j]
    BY <1>6, TakeUpSteps DEF Types, SlaveTypes
  <2>4. drive'[i] = drive[i] \/ (al[i] = "OP" /\ request[i] # "OP")
    BY <1>6, TakeUpSteps DEF Types, SlaveTypes
  <2>5. CASE drive'[i] = drive[i]
    BY <2>2, <2>3, <2>5, ShownFrame
  <2>6. CASE drive'[i] # drive[i]
    <3>1. phase \in {"toInit", "teardown"}
      BY <1>0, <2>1, <2>4, <2>6, Places, Targets DEF Shown, ProgressInv, Axes
    <3>2. phase = "toInit" => cyc # "update"
      BY <1>0 DEF ThreadInv, Early
    <3> QED
      BY <2>2, <2>3, <2>4, <2>6, <3>1, <3>2, ShownFrame DEF Early, After, Shown
  <2> QED
    BY <2>5, <2>6
<1>7. ASSUME NEW i \in Axes, DriveFollows(i)
      PROVE  \A j \in Axes : Shown(j)'
  <2>1. UNCHANGED <<phase, axis, awaitSwitchOn, frame, vel, cyc>>
    BY <1>7 DEF DriveFollows, mainVars, homing, cycVars
  <2>2. \A j \in Axes : j # i => drive'[j] = drive[j]
    BY <1>7 DEF DriveFollows, Types, SlaveTypes
  <2>3. drive'[i] \in {"ready", "on", "enabled"}
    BY <1>7, FollowSteps DEF DriveFollows, Types, SlaveTypes
  <2> QED
    BY <2>1, <2>2, <2>3, ShownFrame
<1>8. CASE \E i \in Axes : ArmMoves(i)
  <2>1. UNCHANGED <<phase, axis, awaitSwitchOn, frame, vel, cyc, drive>>
    BY <1>8 DEF ArmMoves, mainVars, homing, cycVars
  <2> QED
    BY <2>1, ShownFrame
<1>9. ~Troubles
  BY DEF Troubles, Cut, DriveFaults, Types, SlaveTypes
<1>10. CASE \E i \in Axes : Ignore(i)
  <2>1. UNCHANGED <<phase, axis, awaitSwitchOn, frame, vel, cyc, drive>>
    BY <1>10, IgnoreSteps DEF homing
  <2> QED
    BY <2>1, ShownFrame
<1> QED
  BY <1>1, <1>2, <1>3, <1>4, <1>5, <1>6, <1>7, <1>8, <1>9, <1>10
  DEF Steps, CyclicThread, EnvironmentSteps, Axis

LEMMA ReadyStep ==
  ASSUME Types, ThreadInv, ProgressInv, ConfigInv, CallInv, DriveInv, ReadyInv, ~Ended, Steps
  PROVE  ReadyInv'
<1>1. UNCHANGED <<troubles, reach>> \/ troubles' = troubles + 1
  <2>1. Main => UNCHANGED <<troubles, reach>>
    BY MainFrame
  <2>2. CyclicThread => UNCHANGED <<troubles, reach>>
    BY DEF CyclicThread, CheckRun, CollectControllers, Exchange, UpdateControllers, bus
  <2>3. EnvironmentSteps => UNCHANGED <<troubles, reach>> \/ troubles' = troubles + 1
    BY DEF EnvironmentSteps, Axis, Ignore, TakeUp, DriveFollows, ArmMoves, Troubles, Cut,
        DriveFaults, bus
  <2> QED
    BY <2>1, <2>2, <2>3 DEF Steps
<1>2. CASE troubles' = troubles + 1
  BY <1>2 DEF ReadyInv, Types, SlaveTypes
<1>3. CASE UNCHANGED <<troubles, reach>>
  BY <1>3, ObeysStep, ShownStep DEF ReadyInv
<1> QED
  BY <1>1, <1>2, <1>3

--------------------------------------------------------------------------------
(* How the process ends.                                                       *)

\* Where an exception can end it: while everything is at rest, or in Teardown at
\* a slave that no longer answers; without a trouble only while a slave is configured and
\* in EnableOperation.
LEMMA Deaths ==
  ASSUME Types, ThreadInv, ProgressInv, CallInv, ReadyInv, ~Ended, Steps, Died'
  PROVE  /\ UNCHANGED <<phase, axis, vel, al, drive, out, reach, troubles>>
         /\ phase \in Still \/ (phase = "teardown" /\ axis > reach)
         /\ troubles = 0 => \/ phase = "process"
                            \/ phase = "enable" /\ "switchedOn" \notin vel[axis].status
<1> USE DEF Died
<1>0. axis \in Axes /\ cyc # "killed" /\ phase \in Phases /\ reach \in 0 .. Slaves
  BY DEF Types, MainTypes, SlaveTypes, Ended
<1>1. ~Answers(axis) => axis > reach /\ troubles # 0
  BY <1>0 DEF Answers, ReadyInv, Axes
<1>2. CASE WorkSteps
  <2>1. UNCHANGED <<phase, axis, vel, al, drive, out, reach, troubles>>
    BY <1>0, <1>2, WorkFrame DEF slaveVars, driveVars, bus
  <2>2. CASE SwitchOn
    <3>1. phase = "switchOn" /\ ("fault" \in vel[axis].status \/ ~Shows(axis))
      BY <1>0, <2>2 DEF SwitchOn, Checked, Call, cycVars, Shows
    <3> QED
      BY <1>0, <2>1, <3>1 DEF ReadyInv, Shown, Shows, Coherent, Still, Switching
  <2>3. CASE EnableOperation
    <3>1. phase = "enable" /\ ("fault" \in vel[axis].status \/ "switchedOn" \notin vel[axis].status)
      BY <1>0, <2>3 DEF EnableOperation, Checked, Call, cycVars
    <3> QED
      BY <1>0, <2>1, <3>1 DEF ReadyInv, Shown, Coherent, Still, Switching
  <2>4. ~(LookReady \/ HomeUp \/ HomeWatch \/ HomeDown \/ HomeStop \/ SetHome \/ MoveTo \/ ScaleSpeeds
          \/ SetSpeeds \/ SwitchOff)
    BY <1>0
    DEF LookReady, HomeUp, HomeWatch, HomeDown, HomeStop, SetHome, MoveTo, ScaleSpeeds, SetSpeeds,
        SwitchOff, Call, cycVars
  <2> QED
    BY <1>2, <2>2, <2>3, <2>4 DEF WorkSteps
<1>3. CASE SetupSteps
  <2>1. Main
    BY <1>3 DEF SetupSteps, Main
  <2>2. UNCHANGED <<al, drive, out, reach, troubles>>
    BY <2>1, MainFrame
  <2>3. Dies /\ UNCHANGED vel /\ phase \in Early \cup Building
        /\ \/ reach # Slaves \/ ~Answers(axis) \/ (phase = "register" /\ runCyclicThread)
           \/ phase = "process"
    <3>1. CASE ConfigureMailbox \/ ConfigureProcessData
      BY <1>0, <3>1
      DEF ConfigureMailbox, ConfigureProcessData, Configures, Building, cycVars
    <3>2. CASE Probe \/ InitSlave \/ ClearClock \/ Register \/ Run
      BY <1>0, <3>2
      DEF Probe, InitSlave, ClearClock, Register, Run, Accesses, Early, Building, cycVars
    <3> QED
      BY <1>3, <3>1, <3>2 DEF SetupSteps
  <2>4. troubles # 0 \/ phase = "process"
    BY <1>0, <1>1, <2>3 DEF ReadyInv, ThreadInv, Building
  <2> QED
    BY <2>2, <2>3, <2>4 DEF Dies, Still
<1>4. CASE ChangeSteps
  <2>1. Main
    BY <1>4 DEF ChangeSteps, Main
  <2>2. UNCHANGED <<al, drive, out, reach, troubles>>
    BY <2>1, MainFrame
  <2>3. phase \in DOMAIN Target /\ Dies /\ UNCHANGED vel
        /\ \/ state[axis] # Target[phase] /\ InvalidHop(state[axis], Target[phase])
           \/ step = "status" /\ Served /\ reply # Target[phase]
           \/ axis > reach
    <3>1. CASE ChangeState
      <4>1. phase \in DOMAIN Target /\ UNCHANGED vel
        BY <3>1 DEF ChangeState
      <4>2. state[axis] = Target[phase] => cyc' = cyc
        BY <3>1 DEF ChangeState, cycVars
      <4>3. state[axis] # Target[phase] /\ ~InvalidHop(state[axis], Target[phase]) => cyc' = cyc
        BY <3>1 DEF ChangeState, cycVars
      <4> QED
        BY <1>0, <3>1, <4>1, <4>2, <4>3 DEF ChangeState
    <3>2. CASE Send
      BY <1>0, <3>2 DEF Send, cycVars
    <3>3. CASE Receive
      BY <1>0, <3>3, ReceiveSteps DEF Types, Served, cycVars
    <3>4. CASE ReceiveSilence
      BY <1>0, <3>4 DEF ReceiveSilence, CallInv
    <3> QED
      BY <1>4, <3>1, <3>2, <3>3, <3>4 DEF ChangeSteps
  <2>4. state[axis] \in States /\ ~(axis < axis)
    BY <1>0, <2>3, Places DEF ProgressInv, Axes, States
  <2>5. ~(state[axis] # Target[phase] /\ InvalidHop(state[axis], Target[phase]))
    BY <1>0, <2>3, <2>4, Places, Targets DEF ProgressInv, InvalidHop
  <2>6. phase # "teardown" => phase \in Still
    BY <2>3, Places DEF Still, Early, Building
  <2>7. phase = "teardown" => axis > reach
    BY <1>0, <2>3, <2>4, <2>5, Targets DEF ProgressInv, CallInv, TakenUp, Rank
  <2>8. troubles # 0
    BY <1>0, <2>3, <2>5 DEF ReadyInv, Obeys, Axes
  <2> QED
    BY <2>2, <2>3, <2>6, <2>7, <2>8 DEF Dies
<1>5. ~(Wait \/ Stop \/ Join \/ CyclicThread)
  BY <1>0
  DEF Wait, Stop, Join, CyclicThread, CheckRun, CollectControllers, Exchange, UpdateControllers,
      cycVars
<1>6. ~EnvironmentSteps
  BY <1>0
  DEF EnvironmentSteps, Axis, Ignore, TakeUp, DriveFollows, ArmMoves, Troubles, Cut, DriveFaults,
      cycVars
<1> QED
  BY <1>2, <1>3, <1>4, <1>5, <1>6 DEF Steps, Main, WorkSteps, SetupSteps, ChangeSteps

LEMMA NobodyStep ==
  ASSUME Types, ThreadInv, ProgressInv, CallInv, LiftInv, ReadyInv, ~Ended, Steps
  PROVE  NobodyLeftMoving'
<1>0. axis \in Axes /\ ~Died /\ reach \in 0 .. Slaves
  BY DEF Types, MainTypes, SlaveTypes, Ended
<1>1. CASE Died'
  <2>1. CASE phase \in Still
    BY <1>1, <2>1, Deaths DEF NobodyLeftMoving, Moving, LiftInv
  <2>2. CASE phase = "teardown" /\ axis > reach
    <3>1. ASSUME NEW i \in Axes
          PROVE  i > reach \/ al[i] = "INIT"
      <4>1. CASE i < axis
        BY <1>0, <2>2, <4>1 DEF ProgressInv, CallInv, AsFound, Axes
      <4>2. CASE i >= axis
        BY <1>0, <2>2, <4>2 DEF Axes
      <4> QED
        BY <1>0, <4>1, <4>2 DEF Axes
    <3> QED
      BY <1>0, <1>1, <3>1, Deaths DEF NobodyLeftMoving, Moving, Answers, Axes
  <2> QED
    BY <1>1, <2>1, <2>2, Deaths
<1>2. CASE ~Died' /\ phase' = "returned"
  <2>1. Join
    <3>1. phase # "returned" /\ phase \in Phases
      BY DEF Ended, Types, MainTypes
    <3>2. CASE WorkSteps
      BY <1>0, <3>1, <3>2, WorkFrame, <1>2 DEF Working, Switching, Homing, Moves
    <3>3. CASE SetupSteps
      BY <1>0, <1>2, <3>1, <3>3, IterateSteps
      DEF SetupSteps, Probe, InitSlave, ClearClock, ConfigureMailbox, ConfigureProcessData,
          Configures, Register,
          Run, Accesses, Goto, Dies
    <3>4. CASE ChangeSteps
      <4>1. UNCHANGED phase \/ (phase \in DOMAIN Target /\ NextSlave)
        BY <1>0, <3>4, ReceiveSteps DEF Types, ChangeSteps, ChangeState, Send, ReceiveSilence, Dies
      <4> QED
        BY <1>0, <1>2, <3>1, <4>1, NextSlaveSteps
    <3>5. CASE Wait \/ Stop
      BY <1>0, <1>2, <3>5, WaitSteps DEF Stop, Goto
    <3>6. CASE CyclicThread \/ EnvironmentSteps
      BY <1>2, <3>1, <3>6
      DEF CyclicThread, CheckRun, CollectControllers, Exchange, UpdateControllers, EnvironmentSteps,
          Axis, Ignore, TakeUp, DriveFollows, ArmMoves, Troubles, Cut, DriveFaults, mainVars
    <3> QED
      BY <3>2, <3>3, <3>4, <3>5, <3>6 DEF Steps, Main, WorkSteps, SetupSteps, ChangeSteps
  <2>2. phase = "join" /\ UNCHANGED al
    BY <2>1 DEF Join, slaveVars
  <2>3. \A i \in Axes : al[i] = "INIT"
    BY <1>0, <2>2, Places DEF CallInv, AsFound, ProgressInv
  <2> QED
    BY <2>2, <2>3 DEF NobodyLeftMoving, Moving
<1> QED
  BY <1>1, <1>2 DEF NobodyLeftMoving, Ended, Died

LEMMA CausesStep ==
  ASSUME Types, ThreadInv, ProgressInv, CallInv, ReadyInv, ~Ended, Steps
  PROVE  ExceptionsHaveACause'
BY Deaths DEF ExceptionsHaveACause

--------------------------------------------------------------------------------
(* The program.                                                                *)

LEMMA InitInv == Init => IInv
<1> SUFFICES ASSUME Init PROVE IInv
  OBVIOUS
<1> USE DEF Init
<1>1. Types
  BY InitTypes
<1>2. ThreadInv
  BY DEF ThreadInv, Early, Building, Running, Working, Switching, Homing, Moves
<1>3. ProgressInv
  BY DEF ProgressInv, Working, Switching, Homing, Moves
<1>4. ConfigInv
  BY DEF ConfigInv, Early
<1>5. CallInv
  BY Places DEF CallInv, AsFound, Served, States
<1>6. DriveInv
  BY DEF DriveInv
<1>7. LiftInv
  <2>1. \A i \in Axes : /\ vel[i].done /\ vel[i].velocity = 0 /\ vel[i].torque = {}
                        /\ out[i].velocity = 0
    BY DEF NewController, NoOutputs
  <2> QED
    BY <2>1 DEF LiftInv, Lifting
<1>8. OffInv
  BY DEF OffInv
<1>9. ReadyInv
  <2>1. Obeys
    BY DEF Obeys
  <2>2. \A i \in Axes : Shown(i)
    BY DEF Shown, Shows, Coherent, NewController, NoFrame, Early
  <2> QED
    BY <2>1, <2>2 DEF ReadyInv
<1>10. NobodyLeftMoving /\ ExceptionsHaveACause
  BY DEF NobodyLeftMoving, ExceptionsHaveACause, Ended, Died
<1> QED
  BY <1>1, <1>2, <1>3, <1>4, <1>5, <1>6, <1>7, <1>8, <1>9, <1>10 DEF IInv

\* A step of the program is one of the steps above, until it ends.
LEMMA NextSteps ==
  ASSUME Next
  PROVE  (~Ended /\ Steps) \/ UNCHANGED vars
BY DEF Next, Steps, EnvironmentSteps, Done

LEMMA StepInv ==
  ASSUME IInv, ~Ended, Steps
  PROVE  IInv'
<1> USE DEF IInv
<1>1. ~Died
  BY DEF Ended
<1>2. Types'
  BY <1>1, TypesStep
<1>3. ThreadInv' /\ ProgressInv' /\ ConfigInv' /\ CallInv'
  BY ThreadStep, ProgressStep, ConfigStep, CallStep
<1>4. DriveInv' /\ OffInv' /\ ReadyInv'
  BY DriveStep, OffStep, ReadyStep
<1>5. LiftInv'
  <2>1. HomeTypes'
    BY <1>2 DEF Types
  <2> QED
    BY <2>1, LiftStep
<1>6. NobodyLeftMoving' /\ ExceptionsHaveACause'
  BY NobodyStep, CausesStep
<1> QED
  BY <1>2, <1>3, <1>4, <1>5, <1>6

LEMMA StutterInv ==
  ASSUME IInv, UNCHANGED vars
  PROVE  IInv'
<1> USE DEF vars, homing, move, cycVars, msgVars, slaveVars, driveVars, bus
<1>1. Types'
  BY DEF IInv, Types, MainTypes, MoveTypes, HomeTypes, CycTypes, VelTypes, FrameTypes, SlaveTypes
<1>2. ThreadInv' /\ ProgressInv' /\ ConfigInv'
  BY DEF IInv, ThreadInv, ProgressInv, ConfigInv, Died
<1>3. CallInv'
  BY DEF IInv, CallInv, AsFound, Died, Served, Unasked, Pending, TakenUp, Answered
<1>4. DriveInv' /\ LiftInv'
  BY DEF IInv, DriveInv, LiftInv, Lifting
<1>5. OffInv'
  BY DEF IInv, OffInv, PastFirst, Died
<1>6. ReadyInv'
  BY DEF IInv, ReadyInv, Obeys, Shown, Shows, Coherent, Served, Died
<1>7. NobodyLeftMoving' /\ ExceptionsHaveACause'
  BY DEF IInv, NobodyLeftMoving, Moving, Answers, ExceptionsHaveACause, Ended, Died
<1> QED
  BY <1>1, <1>2, <1>3, <1>4, <1>5, <1>6, <1>7 DEF IInv

\* The invariant of the whole program, for any number of axes, moves and troubles.
THEOREM Inductive == Spec => []IInv
<1>1. Init => IInv
  BY InitInv
<1>2. IInv /\ [Next]_vars => IInv'
  <2> SUFFICES ASSUME IInv, [Next]_vars PROVE IInv'
    OBVIOUS
  <2>1. CASE Next
    BY <2>1, NextSteps, StepInv, StutterInv
  <2>2. CASE UNCHANGED vars
    BY <2>2, StutterInv
  <2> QED
    BY <2>1, <2>2
<1> QED
  BY <1>1, <1>2, PTL DEF Spec

\* The types.
THEOREM TypeCorrect == Spec => []TypeOK
<1>1. IInv => TypeOK
  BY TypesSuffice DEF IInv
<1> QED
  BY <1>1, Inductive, PTL

\* Slave::ChangeState to OP is called when the cyclic thread runs with every
\* controller, and in OP a slave stays until Teardown: a slave that this process
\* took to OP gets outputs.
THEOREM OperationalServed == Spec => []OperationalIsServed
<1>1. IInv => OperationalIsServed
  <2> SUFFICES ASSUME IInv, NEW i \in Axes, al[i] = "OP", phase \notin {"probe", "construct", "toInit"},
                      ~Died
               PROVE  cyc \in Loop /\ i <= registered
    BY DEF OperationalIsServed, Loop
  <2> USE DEF IInv
  <2>1. axis \in Axes /\ phase \in Phases
    BY DEF Types, MainTypes
  <2>2. CASE phase \in Building \cup {"join", "returned"}
    <3>1. state[i] \in {"INIT", "PREOP", "SAFEOP"}
      BY <2>2 DEF ProgressInv, Building
    <3>2. state[i] = "OP" \/ (step # "call" /\ i = axis)
      BY <2>1, <2>2 DEF CallInv, AsFound, Building
    <3>3. CASE step # "call" /\ i = axis
      <4>1. step \in {"read", "write", "poll", "status"} /\ phase \in DOMAIN Target
        BY <2>1, <3>3 DEF CallInv, Types, MainTypes
      <4>2. al[axis] = state[axis] \/ al[axis] = Target[phase]
        BY <2>1, <3>3, <4>1 DEF CallInv, AsFound, Unasked, Pending, Answered, TakenUp
      <4>3. Target[phase] # "OP"
        BY <2>2, <4>1, Places, Targets DEF Building
      <4> QED
        BY <3>1, <3>3, <4>2, <4>3
    <3> QED
      BY <3>1, <3>2, <3>3
  <2>3. CASE phase \in Running
    BY <2>3 DEF ThreadInv, Axes
  <2> QED
    BY <2>1, <2>2, <2>3 DEF Phases, Early
<1> QED
  BY <1>1, Inductive, PTL

\* DoHoming moves no axis down before each has been at its stop.
THEOREM AllStop == Spec => []AllAtStop
<1>1. IInv => AllAtStop
  BY DEF IInv, LiftInv, Lifting, AllAtStop
<1> QED
  BY <1>1, Inductive, PTL

\* However the process ends, no axis that still answers is left moving.
THEOREM NobodyMoves == Spec => []NobodyLeftMoving
<1>1. IInv => NobodyLeftMoving
  BY DEF IInv
<1> QED
  BY <1>1, Inductive, PTL

\* Without a trouble, and whatever state the slaves were found in, nothing throws but
\* an SDO transfer of Setup that a drive aborts, and EnableOperation for a drive that has
\* not switched on.
THEOREM Causes == Spec => []ExceptionsHaveACause
<1>1. IInv => ExceptionsHaveACause
  BY DEF IInv
<1> QED
  BY <1>1, Inductive, PTL

\* A slave leaves OP in Teardown with its drive told to switch off.
THEOREM OutputsOff == Spec => OutputsOffBeforeInit
<1> DEFINE Off == \A i \in Axes : phase = "teardown" /\ al[i] = "OP" /\ al'[i] = "INIT" => out[i].control = {}
<1>1. IInv /\ [Next]_vars => [Off]_vars
  <2> SUFFICES ASSUME IInv, Next, NEW i \in Axes, phase = "teardown", al[i] = "OP", al'[i] = "INIT"
               PROVE  out[i].control = {} \/ UNCHANGED vars
    OBVIOUS
  <2>1. CASE ~Ended /\ Steps
    <3>1. TakeUp(i)
      <4>1. CASE Main
        BY <4>1, MainFrame
      <4>2. CASE CyclicThread
        BY <4>2 DEF CyclicThread, CheckRun, CollectControllers, Exchange, UpdateControllers,
            slaveVars
      <4>3. CASE Troubles
        BY <4>3 DEF Troubles, Cut, DriveFaults, slaveVars
      <4>4. ASSUME NEW j \in Axes, DriveFollows(j) \/ ArmMoves(j)
            PROVE  FALSE
        BY <4>4 DEF DriveFollows, ArmMoves, slaveVars
      <4>6. ASSUME NEW j \in Axes, Ignore(j)
            PROVE  FALSE
        BY <4>6, IgnoreSteps DEF IInv
      <4>5. ASSUME NEW j \in Axes, TakeUp(j), j # i
            PROVE  FALSE
        BY <4>5, TakeUpSteps DEF IInv, Types, SlaveTypes
      <4> QED
        BY <2>1, <4>1, <4>2, <4>3, <4>4, <4>5, <4>6 DEF Steps, EnvironmentSteps, Axis
    <3>2. request[i] # "none"
      BY <3>1 DEF TakeUp
    <3> QED
      BY <2>1, <3>2 DEF IInv, OffInv, Ended
  <2>2. CASE UNCHANGED vars
    BY <2>2
  <2> QED
    BY <2>1, <2>2, NextSteps
<1>2. OutputsOffBeforeInit <=> [][Off]_vars
  BY DEF OutputsOffBeforeInit
<1> QED
  BY <1>1, <1>2, Inductive, PTL DEF Spec
================================================================================
