------------------------------- MODULE FlexMaster -------------------------------
(***************************************************************************)
(* Flexpicker::Master and main: the run of the program from the probing of  *)
(* the bus through Setup, the switching on of the drives, DoHoming and the   *)
(* MoveTo calls to Teardown, axis by axis, with the cyclic thread, the       *)
(* slaves, the drives and the arms next to it.  Nothing catches exceptions:  *)
(* one ends the process where it is.                                        *)
(*                                                                         *)
(* What single components do inside a call is in the modules of their own.   *)
(* Here a call of a VelocityController is one step and so are the callbacks  *)
(* of a pass (FlexDrive), the configuration of one slave's mailbox or       *)
(* process data is one step (SlaveUnits, CANopenSdo), and every             *)
(* register access of ChangeState is one datagram (SlaveState), exchanged    *)
(* at once before Run and in a frame of the cyclic thread afterwards         *)
(* (CyclicManager).                                                        *)
(*                                                                         *)
(* Of a velocity only the direction matters, of a position the place among   *)
(* 0 .. Top, where Top is the mechanical stop at which the motor presses,    *)
(* and of a speed limit whether it lets the axis move.                       *)
(***************************************************************************)
EXTENDS Integers, ALStates, DriveStates

CONSTANTS
  Slaves,       \* FLEXPICKER_SLAVES
  Top,          \* the position of the mechanical stop
  MaxMoves,     \* bound: MoveTo calls; main makes forty
  MaxTroubles   \* bound: cuts of the cable, drive faults and refused requests

ASSUME MasterAssumption ==
  /\ Slaves \in Nat \ {0} /\ Top \in Nat \ {0}
  /\ MaxMoves \in Nat \ {0} /\ MaxTroubles \in Nat

Axes == 1 .. Slaves
Positions == 0 .. Top

VARIABLES
  phase, axis,       \* where main is, and the index of its loop
  step,              \* where it is in ChangeState
  awaitSwitchOn,     \* main's await_switchon
  homeDone, homeDoneNum,   \* locals of DoHoming
  theta, deltaTheta, \* locals of MoveTo
  moves,             \* MoveTo calls made
  state,             \* Slave::state of each axis
  vel,               \* the VelocityControllers
  registered,        \* how many the manager knows
  runCyclicThread,
  cyc,          \* where the cyclic thread is, and the index of its loop
  frame,             \* what the packet carries for each axis
  msg, reply,        \* main's datagram, and what came back in it
  passes,            \* whole passes since main's timer was set, up to 2
  al, error,         \* each slave's AL state, an error that is not acknowledged,
  request, event,    \* AL_CONTROL if not taken up, the event bit
  config,            \* what the slave has been configured for
  drive, out, arm,   \* the drive, the outputs it was sent last, its position
  reach,             \* the slaves before the cut
  troubles

homing    == <<awaitSwitchOn, homeDone, homeDoneNum>>
move      == <<theta, deltaTheta, moves>>
cycVars   == <<registered, runCyclicThread, cyc, frame>>
msgVars   == <<msg, reply>>
slaveVars == <<al, error, request, event, config>>
driveVars == <<drive, out, arm>>
bus       == <<reach, troubles>>
vars == <<phase, axis, step, homing, move, state, vel, cycVars, msgVars, passes,
          slaveVars, driveVars, bus>>

Zero == [i \in Axes |-> 0]
NoFrame == [i \in Axes |-> [low |-> 0, mid |-> {}, high |-> {}]]
NoOutputs == [velocity |-> 0, control |-> {}]

\* The constructor of VelocityController.  torque and homePosition, which it
\* leaves uninitialised, are written here before they are read.
NewController ==
  [control |-> {}, status |-> {}, torque |-> {}, position |-> 0, velocity |-> 0,
   velocityLimit |-> TRUE, positionSetpoint |-> 0, homePosition |-> 0, done |-> TRUE]

\* The slaves may be in any state an earlier master left them in, standing: in any
\* AL state, with an error or an event bit, the drive in fault or, in OP, anywhere
\* on its ladder.
Init ==
  /\ phase = "probe" /\ axis = 1 /\ step = "call"
  /\ awaitSwitchOn = TRUE /\ homeDone = {} /\ homeDoneNum = 0
  /\ theta = Zero /\ deltaTheta = Zero /\ moves = 0
  /\ state = [i \in Axes |-> "unset"]
  /\ vel = [i \in Axes |-> NewController] /\ registered = 0
  /\ runCyclicThread = FALSE /\ cyc = "absent" /\ frame = NoFrame
  /\ msg = "none" /\ reply = "none" /\ passes = 0
  /\ al \in [Axes -> States] /\ error \in [Axes -> BOOLEAN]
  /\ request = [i \in Axes |-> "none"] /\ event \in [Axes -> BOOLEAN]
  /\ config = [i \in Axes |-> "none"]
  /\ drive \in [Axes -> DOMAIN StatusWord]
  /\ \A i \in Axes : al[i] # "OP" => drive[i] \in {"disabled", "fault"}
  /\ out = [i \in Axes |-> NoOutputs] /\ arm = Zero
  /\ reach = Slaves /\ troubles = 0

--------------------------------------------------------------------------------
(* How main goes on.                                                           *)

Goto(p) == phase' = p /\ axis' = 1

\* The end of one iteration of a loop over the axes.
Iterate(head, next) ==
  IF axis < Slaves THEN phase' = head /\ axis' = axis + 1 ELSE Goto(next)

\* An exception ends the process, and the cyclic thread with it.
Dies ==
  /\ cyc' = "killed"
  /\ UNCHANGED <<phase, axis, registered, runCyclicThread, frame>>

Died == cyc = "killed"
Ended == Died \/ phase = "returned"

Answers(i) == i <= reach

--------------------------------------------------------------------------------
(* ChangeState, and the loops of Setup and Teardown that call it.              *)

Target == [toInit |-> "INIT", toPreop |-> "PREOP", toSafeop |-> "SAFEOP",
           toOp |-> "OP", teardown |-> "INIT"]
LoopHead == [toInit |-> "toInit", toPreop |-> "mailbox", toSafeop |-> "process",
             toOp |-> "toOp", teardown |-> "teardown"]

\* Faulty variant, for mutation analysis: Setup asks for OP before the cyclic
\* thread runs.
ThenEarlyOp == [toInit |-> "clearClock", toPreop |-> "process", toSafeop |-> "toOp",
                toOp |-> "register", teardown |-> "stop"]

Then == [toInit |-> "clearClock", toPreop |-> "process", toSafeop |-> "register",
         toOp |-> "lookReady", teardown |-> "stop"]

NextSlave == Iterate(LoopHead[phase], Then[phase])

\* What a slave does with main's datagram as it passes.  Setup and Teardown ask for
\* INIT with clearErrors: that request acknowledges an error, and no other does.
Serve ==
  /\ reply' = IF ~Answers(axis) THEN "silent"
              ELSE IF step = "poll" THEN (IF event[axis] THEN "event" ELSE "quiet")
              ELSE IF step = "status" THEN al[axis]
              ELSE "ok"
  /\ request' = IF Answers(axis) /\ step = "write"
                THEN [request EXCEPT ![axis] = Target[phase]] ELSE request
  /\ error' = IF Answers(axis) /\ step = "write" /\ Target[phase] = "INIT"
              THEN [error EXCEPT ![axis] = FALSE] ELSE error
  /\ event' = IF Answers(axis) /\ step = "status"
              THEN [event EXCEPT ![axis] = FALSE] ELSE event

\* Faulty variant, for mutation analysis: AL_CONTROL is written without being read.
ChangeStateBlind ==
  /\ phase \in DOMAIN Target /\ step = "call"
  /\ step' = "write"
  /\ UNCHANGED <<phase, axis, homing, move, state, vel, cycVars, msgVars, passes,
                 slaveVars, driveVars, bus>>

\* The early return; a forbidden hop throws.
ChangeState ==
  /\ phase \in DOMAIN Target /\ step = "call"
  /\ IF state[axis] = Target[phase] THEN
       NextSlave /\ UNCHANGED <<step, cycVars>>
     ELSE IF InvalidHop(state[axis], Target[phase]) THEN
       Dies /\ UNCHANGED step
     ELSE
       step' = "read" /\ UNCHANGED <<phase, axis, cycVars>>
  /\ UNCHANGED <<homing, move, state, vel, msgVars, passes, slaveVars, driveVars, bus>>

\* SendDatagram for one of the accesses of ChangeState.
Send ==
  /\ step # "call" /\ msg = "none"
  /\ IF runCyclicThread
     THEN msg' = "queued" /\ UNCHANGED <<reply, error, request, event>>
     ELSE msg' = "ready" /\ Serve
  /\ UNCHANGED <<phase, axis, step, homing, move, state, vel, cycVars, passes, al,
                 config, driveVars, bus>>

\* The access returns: read AL_CONTROL, write it, poll for the event, compare.
Receive ==
  /\ msg = "ready" /\ reply # "silent"
  /\ msg' = "none" /\ reply' = "none"
  /\ CASE step = "read"  -> step' = "write" /\ UNCHANGED <<phase, axis, state, cycVars>>
       [] step = "write" -> step' = "poll" /\ UNCHANGED <<phase, axis, state, cycVars>>
       [] step = "poll"  -> /\ step' = IF reply = "event" THEN "status" ELSE "poll"
                            /\ UNCHANGED <<phase, axis, state, cycVars>>
       [] step = "status" ->
            /\ step' = "call"
            /\ IF reply = Target[phase]
               THEN /\ state' = [state EXCEPT ![axis] = reply]
                    /\ NextSlave
                    /\ UNCHANGED cycVars
               ELSE Dies /\ UNCHANGED state
  /\ UNCHANGED <<homing, move, vel, passes, slaveVars, driveVars, bus>>

\* No slave answered: out_of_range.
ReceiveSilence ==
  /\ msg = "ready" /\ reply = "silent"
  /\ msg' = "none" /\ reply' = "none" /\ step' = "call"
  /\ Dies
  /\ UNCHANGED <<homing, move, state, vel, passes, slaveVars, driveVars, bus>>

--------------------------------------------------------------------------------
(* The constructor and Setup, before the cyclic thread runs.                   *)

\* NumSlaves, against the number expected.
Probe ==
  /\ phase = "probe"
  /\ IF reach = Slaves THEN Goto("construct") /\ UNCHANGED cycVars ELSE Dies
  /\ UNCHANGED <<step, homing, move, state, vel, msgVars, passes, slaveVars, driveVars, bus>>

\* The accesses of one iteration: they are exchanged at once, or throw.
Accesses(p, head, next) ==
  /\ phase = p
  /\ IF Answers(axis) THEN Iterate(head, next) /\ UNCHANGED cycVars ELSE Dies
  /\ UNCHANGED <<step, homing, move, vel, msgVars, passes, al, error, request, driveVars, bus>>

\* Slave::Init reads the AL status.
InitSlave ==
  /\ Accesses("construct", "construct", "toInit")
  /\ IF Answers(axis)
     THEN /\ state' = [state EXCEPT ![axis] = al[axis]]
          /\ event' = [event EXCEPT ![axis] = FALSE]
     ELSE UNCHANGED <<state, event>>
  /\ UNCHANGED config

ClearClock ==
  /\ Accesses("clearClock", "clearClock", "mailbox")
  /\ UNCHANGED <<state, event, config>>

\* The two parts of an iteration that end in ChangeState of the same slave, for
\* which the slave is then configured.
Configures(what, next) ==
  /\ Answers(axis)
  /\ config' = [config EXCEPT ![axis] = what]
  /\ phase' = next
  /\ UNCHANGED <<axis, cycVars>>

ConfigureMailbox ==
  /\ phase = "mailbox"
  /\ IF Answers(axis) THEN Configures("mailbox", "toPreop") ELSE Dies /\ UNCHANGED config
  /\ UNCHANGED <<state, event>>
  /\ UNCHANGED <<step, homing, move, vel, msgVars, passes, al, error, request, driveVars, bus>>

\* The SDO transfers come first: a drive may abort any of them, which throws, as
\* does a slave that does not answer.
ConfigureProcessData ==
  /\ phase = "process"
  /\ \/ Configures("process", "toSafeop")
     \/ Dies /\ UNCHANGED config
  /\ UNCHANGED <<state, event>>
  /\ UNCHANGED <<step, homing, move, vel, msgVars, passes, al, error, request, driveVars, bus>>

\* With the thread running RegisterCyclicController throws.
Register ==
  /\ phase = "register"
  /\ IF runCyclicThread THEN Dies
     ELSE /\ registered' = registered + 1
          /\ Iterate("register", "run")
          /\ UNCHANGED <<runCyclicThread, cyc, frame>>
  /\ UNCHANGED <<step, homing, move, state, vel, msgVars, passes, slaveVars, driveVars, bus>>

Run ==
  /\ phase = "run"
  /\ runCyclicThread' = TRUE /\ cyc' = "check"
  /\ Goto("settle")
  /\ UNCHANGED <<step, homing, move, state, vel, registered, frame, msgVars,
                 passes, slaveVars, driveVars, bus>>

--------------------------------------------------------------------------------
(* main, DoHoming and MoveTo, while the cyclic thread runs.                    *)

\* Main's timers, and what follows each.  A second is many periods: at least one
\* whole pass of the cyclic thread lies within.  The ten looks of main after the
\* last move, a second apart, are part of the wait for it.
AfterWait == [settle |-> "toOp", waitReady |-> "switchOn", waitOn |-> "enable",
              waitEnabled |-> "homeUp", downWait |-> "homeStop", moveWait |-> "switchOff"]

Wait ==
  /\ phase \in DOMAIN AfterWait /\ passes = 2
  /\ passes' = 0
  /\ Goto(IF phase = "waitReady" /\ awaitSwitchOn THEN "lookReady"
          ELSE IF phase = "moveWait" /\ moves < MaxMoves THEN "moveTo"
          ELSE AfterWait[phase])
  /\ UNCHANGED <<step, homing, move, state, vel, cycVars, msgVars, slaveVars,
                 driveVars, bus>>

\* A call on the controller of this iteration's axis, which leaves it as c.
Call(p, c, next) ==
  /\ phase = p
  /\ vel' = [vel EXCEPT ![axis] = c]
  /\ Iterate(p, next)
  /\ UNCHANGED <<step, state, cycVars, msgVars, passes, slaveVars, driveVars, bus>>

Velocity(v) == [vel[axis] EXCEPT !.velocity = v, !.done = TRUE]

\* Faulty variants, for mutation analysis.

\* The flag is that of the last axis.
LookReadyLast ==
  /\ Call("lookReady", vel[axis], "waitReady")
  /\ awaitSwitchOn' = ("readyToSwitchOn" \notin vel[axis].status)
  /\ UNCHANGED <<homeDone, homeDoneNum, move>>

\* The flag is not reset before the axes are looked at.
LookReadyKeeps ==
  /\ Call("lookReady", vel[axis], "waitReady")
  /\ UNCHANGED <<homing, move>>

\* An axis that is done is counted again.
HomeWatchRecounts ==
  /\ phase = "homeWatch"
  /\ IF "pressing" \in vel[axis].torque
     THEN /\ vel' = [vel EXCEPT ![axis] = Velocity(0)]
          /\ homeDone' = homeDone \cup {axis} /\ homeDoneNum' = homeDoneNum + 1
     ELSE UNCHANGED <<vel, homeDone, homeDoneNum>>
  /\ Iterate("homeWatch", IF homeDoneNum' = Slaves THEN "homeDown" ELSE "homeWatch")
  /\ UNCHANGED <<step, awaitSwitchOn, move, state, cycVars, msgVars, passes, slaveVars,
                 driveVars, bus>>

\* Teardown begins at the second slave.
SwitchOffThenSecond ==
  /\ phase = "switchOff"
  /\ vel' = [vel EXCEPT ![axis].control = {}]
  /\ IF axis < Slaves THEN phase' = "switchOff" /\ axis' = axis + 1
     ELSE phase' = "teardown" /\ axis' = 2
  /\ UNCHANGED <<step, homing, move, state, cycVars, msgVars, passes, slaveVars,
                 driveVars, bus>>

\* The wait for every drive to be ready to switch on.
LookReady ==
  /\ Call("lookReady", vel[axis], "waitReady")
  /\ awaitSwitchOn' = (\/ axis > 1 /\ awaitSwitchOn
                       \/ "readyToSwitchOn" \notin vel[axis].status)
  /\ UNCHANGED <<homeDone, homeDoneNum, move>>

\* A call that throws unless the drive shows no fault and the bit it needs.
Checked(p, bit, flag, next) ==
  /\ IF "fault" \notin vel[axis].status /\ bit \in vel[axis].status
     THEN Call(p, [vel[axis] EXCEPT !.control = @ \cup {flag}], next)
     ELSE /\ phase = p /\ Dies
          /\ UNCHANGED <<step, state, vel, msgVars, passes, slaveVars, driveVars, bus>>
  /\ UNCHANGED <<homing, move>>

\* After SwitchOn main looks once and waits a second.  The loop that should wait
\* for the switched-on bit sets await_switchon, which nothing reads again.
SwitchOn == Checked("switchOn", "readyToSwitchOn", "switchOn", "waitOn")
EnableOperation == Checked("enable", "switchedOn", "enableOperation", "waitEnabled")

HomeUp ==
  /\ Call("homeUp", Velocity(1), "homeWatch")
  /\ UNCHANGED <<homing, move>>

\* One iteration of the inner loop, and the head of the outer one after the last.
HomeWatch ==
  /\ phase = "homeWatch"
  /\ IF "pressing" \in vel[axis].torque /\ axis \notin homeDone
     THEN /\ vel' = [vel EXCEPT ![axis] = Velocity(0)]
          /\ homeDone' = homeDone \cup {axis} /\ homeDoneNum' = homeDoneNum + 1
     ELSE UNCHANGED <<vel, homeDone, homeDoneNum>>
  /\ Iterate("homeWatch", IF homeDoneNum' = Slaves THEN "homeDown" ELSE "homeWatch")
  /\ UNCHANGED <<step, awaitSwitchOn, move, state, cycVars, msgVars, passes, slaveVars,
                 driveVars, bus>>

HomeDown ==
  /\ Call("homeDown", Velocity(-1), "downWait")
  /\ UNCHANGED <<homing, move>>

HomeStop ==
  /\ Call("homeStop", Velocity(0), "setHome")
  /\ UNCHANGED <<homing, move>>

\* The timer before it is created and not waited on.
SetHome ==
  /\ Call("setHome", [vel[axis] EXCEPT !.homePosition = vel[axis].position], "moveTo")
  /\ UNCHANGED <<homing, move>>

\* Targets the arm can reach.
MoveTo ==
  /\ phase = "moveTo"
  /\ \E t \in [Axes -> -Top .. Top] :
       /\ \A i \in Axes : t[i] + vel[i].homePosition \in Positions
       /\ theta' = t
  /\ moves' = moves + 1
  /\ Goto("scale")
  /\ UNCHANGED <<step, homing, deltaTheta, state, vel, cycVars, msgVars, passes,
                 slaveVars, driveVars, bus>>

Distance(a, b) == IF a < b THEN b - a ELSE a - b

\* The distance from where the axis is.
ScaleSpeeds ==
  /\ Call("scale", vel[axis], "moveSet")
  /\ deltaTheta' = [deltaTheta EXCEPT ![axis] = Distance(theta[axis], vel[axis].position)]
  /\ UNCHANGED <<homing, theta, moves>>

\* Does maxSpeed times the share of the largest distance let the axis move?  With
\* every distance zero it is 0/0, not a number, which no comparison clips.
Share(d) == d # 0 \/ \A i \in Axes : deltaTheta[i] = 0

\* PositionSetpoint, justified by the home position.
SetSpeeds ==
  /\ Call("moveSet",
          [vel[axis] EXCEPT !.positionSetpoint = theta[axis] + vel[axis].homePosition,
                            !.velocityLimit = Share(deltaTheta[axis]), !.done = FALSE],
          "moveWait")
  /\ IF axis = Slaves THEN theta' = Zero /\ deltaTheta' = Zero
     ELSE UNCHANGED <<theta, deltaTheta>>
  /\ UNCHANGED <<homing, moves>>

\* The home position, which nothing reads any more, is forgotten here, to keep
\* the state space small.
SwitchOff ==
  /\ Call("switchOff", [vel[axis] EXCEPT !.control = {}, !.homePosition = 0], "teardown")
  /\ UNCHANGED <<homing, move>>

Stop ==
  /\ phase = "stop"
  /\ runCyclicThread' = FALSE
  /\ Goto("join")
  /\ UNCHANGED <<step, homing, move, state, vel, registered, cyc, frame, msgVars,
                 passes, slaveVars, driveVars, bus>>

Join ==
  /\ phase = "join" /\ cyc = "exited"
  /\ cyc' = "absent"
  /\ Goto("returned")
  /\ UNCHANGED <<step, homing, move, state, vel, registered, runCyclicThread,
                 frame, msgVars, passes, slaveVars, driveVars, bus>>

--------------------------------------------------------------------------------
(* A pass of the cyclic thread.                                                *)

mainVars == <<phase, axis, step, homing, move, state>>

CheckRun ==
  /\ cyc = "check"
  /\ cyc' = IF runCyclicThread THEN "collect" ELSE "exited"
  /\ UNCHANGED <<mainVars, vel, registered, runCyclicThread, frame, msgVars, passes,
                 slaveVars, driveVars, bus>>

\* GetDatagram of every controller.
CollectControllers ==
  /\ cyc = "collect"
  /\ frame' = [i \in Axes |->
                 IF i <= registered
                 THEN [low |-> vel[i].velocity, mid |-> vel[i].control, high |-> {}]
                 ELSE frame[i]]
  /\ cyc' = "exchange"
  /\ UNCHANGED <<mainVars, vel, registered, runCyclicThread, msgVars, passes, slaveVars,
                 driveVars, bus>>

\* The motor runs against the mechanical stop.
Presses(i) == drive[i] = "enabled" /\ out[i].velocity = 1 /\ arm[i] = Top

\* The frame, with main's datagram behind the controllers' if it is in the ring.
\* A slave takes outputs in OP and gives inputs from SAFEOP on; where none does,
\* the datagram comes back as it was sent.
Exchange ==
  /\ cyc = "exchange"
  /\ IF msg = "queued" THEN msg' = "inFrame" /\ Serve
     ELSE UNCHANGED <<msgVars, error, request, event>>
  /\ out' = [i \in Axes |-> IF Answers(i) /\ al[i] = "OP" /\ i <= registered
                            THEN [velocity |-> frame[i].low, control |-> frame[i].mid]
                            ELSE out[i]]
  /\ frame' = [i \in Axes |->
                 IF Answers(i) /\ al[i] \in {"SAFEOP", "OP"} /\ i <= registered
                 THEN [low |-> arm[i], mid |-> IF Presses(i) THEN {"pressing"} ELSE {},
                       high |-> StatusWord[drive[i]]]
                 ELSE frame[i]]
  /\ cyc' = "update"
  /\ UNCHANGED <<mainVars, vel, registered, runCyclicThread, passes, al, config,
                 drive, arm, bus>>

Direction(from, to) == IF from < to THEN 1 ELSE IF from > to THEN -1 ELSE 0

\* doInterpolation, for a controller that has just been updated.
Interpolated(c) ==
  IF c.done THEN c
  ELSE IF c.position = c.positionSetpoint THEN [c EXCEPT !.done = TRUE, !.velocity = 0]
  ELSE [c EXCEPT !.velocity = IF c.velocityLimit THEN Direction(c.position, c.positionSetpoint)
                              ELSE 0]

\* UpdateData of every controller, then main's future becomes ready.  The packet
\* is a local of the pass.
UpdateControllers ==
  /\ cyc = "update"
  /\ vel' = [i \in Axes |->
               IF i <= registered
               THEN Interpolated([vel[i] EXCEPT !.position = frame[i].low,
                                                !.torque = frame[i].mid,
                                                !.status = frame[i].high])
               ELSE vel[i]]
  /\ msg' = IF msg = "inFrame" THEN "ready" ELSE msg
  /\ passes' = IF phase \in DOMAIN AfterWait /\ passes < 2 THEN passes + 1 ELSE passes
  /\ frame' = NoFrame
  /\ cyc' = "check"
  /\ UNCHANGED <<mainVars, registered, runCyclicThread, reply, slaveVars, driveVars, bus>>

--------------------------------------------------------------------------------
(* The slaves, the drives, the arms and the cable.                             *)

\* A slave that leaves OP takes its outputs back.
Enters(i, s) ==
  /\ al' = [al EXCEPT ![i] = s]
  /\ IF al[i] = "OP" /\ s # "OP"
     THEN /\ out' = [out EXCEPT ![i] = NoOutputs]
          /\ drive' = [drive EXCEPT ![i] = IF @ = "fault" THEN @ ELSE "disabled"]
     ELSE UNCHANGED <<out, drive>>

\* One hop up at most, to a state for which the slave has been configured.
MayEnter(i, s) ==
  /\ Reachable(al[i], s)
  /\ s = "PREOP" => config[i] # "none"
  /\ s \in {"SAFEOP", "OP"} => config[i] = "process"

\* A slave that shows an error takes no notice of a request.
Ignore(i) ==
  /\ request[i] # "none" /\ error[i]
  /\ request' = [request EXCEPT ![i] = "none"]
  /\ UNCHANGED <<mainVars, vel, cycVars, msgVars, passes, al, error, event, config,
                 driveVars, bus>>

\* The slave enters the state, or refuses to go up and shows that in its error and
\* event bits; main ends on a refusal, and no later request meets that error.
TakeUp(i) ==
  /\ request[i] # "none" /\ ~error[i]
  /\ request' = [request EXCEPT ![i] = "none"]
  /\ event' = [event EXCEPT ![i] = TRUE]
  /\ \/ /\ MayEnter(i, request[i])
        /\ Enters(i, request[i])
        /\ UNCHANGED <<error, troubles>>
     \/ /\ Rank[request[i]] > Rank[al[i]]
        /\ IF MayEnter(i, request[i])
           THEN troubles < MaxTroubles /\ troubles' = troubles + 1
           ELSE UNCHANGED troubles
        /\ error' = [error EXCEPT ![i] = TRUE]
        /\ UNCHANGED <<al, out, drive>>
  /\ UNCHANGED <<mainVars, vel, cycVars, msgVars, passes, config, arm, reach>>

DriveFollows(i) ==
  /\ al[i] = "OP" /\ Follow(drive[i], out[i].control) # drive[i]
  /\ drive' = [drive EXCEPT ![i] = Follow(@, out[i].control)]
  /\ UNCHANGED <<mainVars, vel, cycVars, msgVars, passes, slaveVars, out, arm, bus>>

ArmMoves(i) ==
  /\ drive[i] = "enabled" /\ out[i].velocity # 0
  /\ arm[i] + out[i].velocity \in Positions
  /\ arm' = [arm EXCEPT ![i] = @ + out[i].velocity]
  /\ UNCHANGED <<mainVars, vel, cycVars, msgVars, passes, slaveVars, drive, out, bus>>

DriveFaults(i) ==
  /\ drive[i] # "fault" /\ troubles < MaxTroubles
  /\ drive' = [drive EXCEPT ![i] = "fault"]
  /\ troubles' = troubles + 1
  /\ UNCHANGED <<mainVars, vel, cycVars, msgVars, passes, slaveVars, out, arm, reach>>

\* The slaves behind the cut no longer answer.
Cut ==
  /\ troubles < MaxTroubles
  /\ reach' \in 0 .. reach - 1
  /\ troubles' = troubles + 1
  /\ UNCHANGED <<mainVars, vel, cycVars, msgVars, passes, slaveVars, driveVars>>

--------------------------------------------------------------------------------
Main ==
  \/ Probe \/ InitSlave \/ ChangeState \/ Send \/ Receive \/ ReceiveSilence
  \/ ClearClock \/ ConfigureMailbox \/ ConfigureProcessData \/ Register \/ Run
  \/ Wait \/ LookReady \/ SwitchOn \/ EnableOperation
  \/ HomeUp \/ HomeWatch \/ HomeDown \/ HomeStop \/ SetHome
  \/ MoveTo \/ ScaleSpeeds \/ SetSpeeds \/ SwitchOff \/ Stop \/ Join

CyclicThread == CheckRun \/ CollectControllers \/ Exchange \/ UpdateControllers

Axis(i) == Ignore(i) \/ TakeUp(i) \/ DriveFollows(i) \/ ArmMoves(i)

Troubles == Cut \/ \E i \in Axes : DriveFaults(i)

Done == Ended /\ UNCHANGED vars

\* The model ends with the process.
Next ==
  \/ ~Ended /\ (Main \/ CyclicThread \/ (\E i \in Axes : Axis(i)) \/ Troubles)
  \/ Done

Spec == Init /\ [][Next]_vars

\* Both threads run, and what a slave, a drive or an arm is asked for it does in
\* the end.  Nothing obliges a trouble to happen.
FairSpec ==
  /\ Spec
  /\ WF_vars(Main) /\ WF_vars(CyclicThread)
  /\ \A i \in Axes : WF_vars(Axis(i))

--------------------------------------------------------------------------------
(* Properties.                                                                 *)

TypeOK ==
  /\ axis \in Axes /\ step \in {"call", "read", "write", "poll", "status"}
  /\ awaitSwitchOn \in BOOLEAN /\ homeDone \subseteq Axes /\ homeDoneNum \in 0 .. Slaves
  /\ moves \in 0 .. MaxMoves
  /\ state \in [Axes -> States \cup {"unset"}] /\ al \in [Axes -> States]
  /\ error \in [Axes -> BOOLEAN]
  /\ registered \in 0 .. Slaves /\ runCyclicThread \in BOOLEAN
  /\ msg \in {"none", "queued", "inFrame", "ready"} /\ passes \in 0 .. 2
  /\ \A i \in Axes : vel[i].velocity \in {-1, 0, 1}
  /\ arm \in [Axes -> Positions] /\ reach \in 0 .. Slaves /\ troubles \in 0 .. MaxTroubles

\* A slave that this process took to OP gets outputs: the cyclic thread is there
\* and knows its controller, from before the slave enters OP until it has left it.
OperationalIsServed ==
  \A i \in Axes :
    al[i] = "OP" /\ phase \notin {"probe", "construct", "toInit"} /\ ~Died
      => cyc \in {"check", "collect", "exchange", "update"} /\ i <= registered

\* When the process ends, orderly or by an exception, no axis that still answers
\* is left moving.
Moving(i) ==
  Answers(i) /\ al[i] = "OP" /\ drive[i] = "enabled" /\ out[i].velocity # 0

NobodyLeftMoving == Ended => \A i \in Axes : ~Moving(i)

\* "Stop emitting outputs and fall back to INIT" (Teardown): a slave leaves OP in
\* Teardown with its drive told to switch off, although SwitchOff only stores the
\* control word and the cyclic thread sends it when it comes to it.
OutputsOffBeforeInit ==
  [][\A i \in Axes :
       phase = "teardown" /\ al[i] = "OP" /\ al'[i] = "INIT" => out[i].control = {}]_vars

\* "Now keep monitoring the torque until they've all done": no axis is moved down
\* before each has been at its stop.
AllAtStop == phase = "homeDown" /\ axis = 1 => \A i \in Axes : arm[i] = Top

\* Setup and main call everything in an order the slaves and the drives accept,
\* whatever state they were found in: without a trouble nothing throws but an SDO
\* transfer the drive aborts, and EnableOperation, for a drive that takes longer to
\* switch on than main waits.
ExceptionsHaveACause ==
  Died /\ troubles = 0 =>
    \/ phase = "process"
    \/ phase = "enable" /\ "switchedOn" \notin vel[axis].status

\* A slave is found fit unless its drive is in fault, or it shows an error in INIT,
\* where ChangeState(INIT, true) returns without acknowledging it.
FoundFit(i) == drive[i] # "fault" /\ ~(al[i] = "INIT" /\ error[i])

\* If all slaves are found fit, main comes to its end without a trouble.
MainEnds == (\A i \in Axes : FoundFit(i)) => <>(Ended \/ troubles > 0)

\* "Scale the speeds by the amount to move" (MoveTo): an axis at rest that has a
\* way to go is given a speed.
SpeedsScaleWithAmount ==
  \A i \in Axes :
    phase = "moveSet" /\ i < axis /\ out[i].velocity = 0
      /\ vel[i].position # vel[i].positionSetpoint
    => vel[i].velocityLimit
================================================================================
