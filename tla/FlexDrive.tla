------------------------------- MODULE FlexDrive -------------------------------
(***************************************************************************)
(* Flexpicker::VelocityController: one axis of the robot.  The application  *)
(* thread switches the AX2000 drive on, commands velocities and positions;  *)
(* the cyclic thread packs the velocity and the control word into the       *)
(* drive's datagram, unpacks position and status from the reply, and        *)
(* interpolates towards the setpoint.  The object has no lock: every read   *)
(* or write of a member the two threads share is a step of its own, in      *)
(* program order.                                                          *)
(*                                                                         *)
(* Positions are counted in widths of the deadband (0.2 motor radians) and  *)
(* the gain is one; the double arithmetic and the scalers are left out, and *)
(* so is the torque, which no operation of the class reads back.  The       *)
(* statements that clip the velocity read velocityLimit in one step.  A     *)
(* velocity is any int32, a limit any double up to VELOCITY_LIMIT, also     *)
(* below zero, or not a number.  A setpoint is the position it stands for:  *)
(* the home position, which shifts it, is in FlexMaster.tla with SetHome.   *)
(***************************************************************************)
EXTENDS Integers, DriveStates

CONSTANTS
  MaxPosition,   \* the drive reports positions 0 .. MaxPosition
  VelocityLimit, \* VELOCITY_LIMIT, which only PositionSetpoint checks against
  MaxVelocity,   \* the largest int32, beyond VELOCITY_LIMIT
  NaN,           \* the double that is not a number
  Speeds, Limits,\* what the application passes to Velocity, and for a limit
                 \* to PositionSetpoint where it does not throw
  Patience       \* passes the application waits for before it changes the
                 \* control word

ASSUME DriveAssumption ==
  /\ MaxPosition \in Nat /\ VelocityLimit \in Nat \ {0} /\ Patience \in Nat
  /\ MaxVelocity \in Nat /\ MaxVelocity > VelocityLimit
  /\ Speeds \subseteq -MaxVelocity .. MaxVelocity
  /\ NaN \notin Int
  /\ \A limit \in Limits : limit = NaN \/ (limit \in Int /\ limit <= VelocityLimit)

Positions  == 0 .. MaxPosition
Velocities == -MaxVelocity .. MaxVelocity

\* Passes are counted as far as the properties and the patience need it.
Counted == IF Patience > 2 THEN Patience ELSE 2

VARIABLES
  app, args,            \* where the application is, the arguments of its call
  cyc, aim,             \* where the cyclic thread is, its local newVelocity
  control, status, position, velocity, velocityLimit, positionSetpoint, done,
  payload,              \* of dgram: bytes 0-3, 4-5 and 6-7
  bus, drive,           \* the slave's EtherCAT state, the drive's DS402 state
  reported,             \* what the last frame brought back from the drive
  command,              \* the last motion command that returned
  arrived,              \* has the drive reported the setpoint?
  overlapped,           \* was it stored between the comparisons and their outcome?
  passes                \* passes begun since the last call returned, up to Counted

appVars    == <<app, args>>
cycVars    == <<cyc, aim>>
motionVars == <<velocity, velocityLimit, positionSetpoint, done>>
driveVars  == <<bus, drive>>
moveGhosts == <<arrived, overlapped>>
ghostVars  == <<reported, command, moveGhosts, passes>>
vars == <<appVars, cycVars, control, status, position, motionVars, payload,
          driveVars, ghostVars>>

NoArgs == [value |-> 0, limit |-> 0]

\* The constructor.
Init ==
  /\ app = "idle" /\ args = NoArgs
  /\ cyc = "packVelocity" /\ aim = 0
  /\ control = {} /\ status = {}
  /\ position = 0 /\ velocity = 0 /\ velocityLimit = VelocityLimit
  /\ positionSetpoint = 0 /\ done = TRUE
  /\ payload = [low |-> 0, mid |-> {}, high |-> {}]
  /\ bus = "safeop" /\ drive = "disabled"
  /\ reported = {}
  /\ command = [kind |-> "none", value |-> 0]
  /\ arrived = TRUE /\ overlapped = FALSE
  /\ passes = 0

--------------------------------------------------------------------------------
(* Helpers.                                                                    *)

\* The cyclic thread is inside doInterpolation.
Interpolating == cyc \in {"above", "below", "arrive", "rest", "aim", "clip", "set"}

\* Main waits a second before each change of the control word, many passes; the
\* velocities and setpoints come at any time, and done has no accessor.
MayControl == app = "idle" /\ passes >= Patience

\* The application's call goes on at pc; when it returns, counting starts again.
AppAt(pc) ==
  /\ app' = pc
  /\ passes' = IF pc = "idle" THEN 0 ELSE passes

Returns(kind, value) ==
  /\ AppAt("idle")
  /\ args' = NoArgs
  /\ command' = [kind |-> kind, value |-> value]

--------------------------------------------------------------------------------
(* Faulty variants, for mutation analysis.                                     *)

\* The bytes of the status are not cleared before the datagram goes out.
PackControlOnly ==
  /\ cyc = "packControl"
  /\ payload' = [payload EXCEPT !.mid = control]
  /\ cyc' = "exchange"
  /\ UNCHANGED <<appVars, aim, control, status, position, motionVars, driveVars, ghostVars>>

\* SwitchOff clears the switch-on bit before it disables the operation.
SwitchOffFirst ==
  /\ MayControl
  /\ control' = control \ {"switchOn"}
  /\ AppAt("switchOff")
  /\ UNCHANGED <<args, cycVars, status, position, motionVars, payload, driveVars,
                 reported, command, moveGhosts>>

\* The upper end of the deadband compared the wrong way round.
BelowUpperInverted ==
  /\ cyc = "below"
  /\ cyc' = IF position >= positionSetpoint THEN "arrive" ELSE "aim"
  /\ UNCHANGED <<appVars, aim, control, status, position, motionVars, payload,
                 driveVars, ghostVars>>

\* The axis is not told to stand still when it arrives.
ArriveMoving ==
  /\ cyc = "arrive"
  /\ done' = TRUE
  /\ cyc' = "packVelocity"
  /\ UNCHANGED <<appVars, aim, control, status, position, velocity, velocityLimit,
                 positionSetpoint, payload, driveVars, ghostVars>>

\* The limit of the class is applied, not that of the setpoint.
ClipAimClassLimit ==
  /\ cyc = "clip"
  /\ aim' = IF aim > VelocityLimit THEN VelocityLimit
            ELSE IF aim < -VelocityLimit THEN -VelocityLimit ELSE aim
  /\ cyc' = "set"
  /\ UNCHANGED <<appVars, control, status, position, motionVars, payload, driveVars,
                 ghostVars>>

--------------------------------------------------------------------------------
(* The application thread.                                                     *)

\* SwitchOn reads the status twice: for a fault, then for readiness.  When
\* either check fails it throws and changes nothing.
SwitchOn ==
  /\ MayControl
  /\ "fault" \notin status
  /\ AppAt("switchOn")
  /\ UNCHANGED <<args, cycVars, control, status, position, motionVars, payload,
                 driveVars, reported, command, moveGhosts>>

SwitchOnReady ==
  /\ app = "switchOn"
  /\ control' = IF "readyToSwitchOn" \in status THEN control \cup {"switchOn"} ELSE control
  /\ AppAt("idle")
  /\ UNCHANGED <<args, cycVars, status, position, motionVars, payload, driveVars,
                 reported, command, moveGhosts>>

EnableOperation ==
  /\ MayControl
  /\ "fault" \notin status
  /\ AppAt("enableOperation")
  /\ UNCHANGED <<args, cycVars, control, status, position, motionVars, payload,
                 driveVars, reported, command, moveGhosts>>

EnableOperationReady ==
  /\ app = "enableOperation"
  /\ control' = IF "switchedOn" \in status THEN control \cup {"enableOperation"} ELSE control
  /\ AppAt("idle")
  /\ UNCHANGED <<args, cycVars, status, position, motionVars, payload, driveVars,
                 reported, command, moveGhosts>>

DisableOperation ==
  /\ MayControl
  /\ control' = control \ {"enableOperation"}
  /\ AppAt("idle")
  /\ UNCHANGED <<args, cycVars, status, position, motionVars, payload, driveVars,
                 reported, command, moveGhosts>>

\* SwitchOff: DisableOperation, then clear the switch-on bit.
SwitchOff ==
  /\ MayControl
  /\ control' = control \ {"enableOperation"}
  /\ AppAt("switchOff")
  /\ UNCHANGED <<args, cycVars, status, position, motionVars, payload, driveVars,
                 reported, command, moveGhosts>>

SwitchOffClears ==
  /\ app = "switchOff"
  /\ control' = control \ {"switchOn", "enableOperation"}
  /\ AppAt("idle")
  /\ UNCHANGED <<args, cycVars, status, position, motionVars, payload, driveVars,
                 reported, command, moveGhosts>>

\* Velocity: set the velocity, which nothing checks, then stop the interpolation.
Velocity ==
  /\ app = "idle"
  /\ \E v \in Speeds : velocity' = v /\ args' = [value |-> v, limit |-> 0]
  /\ AppAt("velocityDone")
  /\ UNCHANGED <<cycVars, control, status, position, velocityLimit, positionSetpoint,
                 done, payload, driveVars, reported, command, moveGhosts>>

VelocityDone ==
  /\ app = "velocityDone"
  /\ done' = TRUE
  /\ Returns("velocity", args.value)
  /\ UNCHANGED <<cycVars, control, status, position, velocity, velocityLimit,
                 positionSetpoint, payload, driveVars, reported, moveGhosts>>

\* PositionSetpoint: with a limit above VELOCITY_LIMIT it throws and changes
\* nothing; else setpoint, limit, done.  The comparison is false for NaN, which
\* MoveTo passes when no axis has a way to go.  The setpoints are those the arm
\* can reach.
PositionSetpoint ==
  /\ app = "idle"
  /\ \E target \in Positions, limit \in Limits :
       /\ positionSetpoint' = target
       /\ arrived' = (position = target)
       /\ args' = [value |-> 0, limit |-> limit]
  /\ overlapped' = (cyc \in {"below", "arrive"})
  /\ AppAt("setpoint")
  /\ UNCHANGED <<cycVars, control, status, position, velocity, velocityLimit,
                 done, payload, driveVars, reported, command>>

SetpointLimit ==
  /\ app = "setpoint"
  /\ velocityLimit' = args.limit
  /\ AppAt("setpointDone")
  /\ UNCHANGED <<args, cycVars, control, status, position, velocity, positionSetpoint,
                 done, payload, driveVars, reported, command, moveGhosts>>

SetpointDone ==
  /\ app = "setpointDone"
  /\ done' = FALSE
  /\ Returns("setpoint", 0)
  /\ UNCHANGED <<cycVars, control, status, position, velocity, velocityLimit,
                 positionSetpoint, payload, driveVars, reported, moveGhosts>>

--------------------------------------------------------------------------------
(* The cyclic thread: GetDatagram, the exchange, UpdateData, doInterpolation.  *)

\* The two comparisons, one after the other; both are false for NaN.
Clip(v, limit) ==
  IF limit = NaN THEN v
  ELSE LET u == IF v > limit THEN limit ELSE v IN IF u < -limit THEN -limit ELSE u

\* The conversion to int32.  Out of range it is undefined: the processor gives
\* the smallest one.
ToInt32(v) == IF v \in Velocities THEN v ELSE -MaxVelocity

CycAt(pc) == cyc' = pc

PackVelocity ==
  /\ cyc = "packVelocity"
  /\ payload' = [payload EXCEPT !.low = velocity]
  /\ passes' = IF passes < Counted THEN passes + 1 ELSE passes
  /\ CycAt("packControl")
  /\ UNCHANGED <<appVars, aim, control, status, position, motionVars, driveVars,
                 reported, command, moveGhosts>>

PackControl ==
  /\ cyc = "packControl"
  /\ payload' = [payload EXCEPT !.mid = control, !.high = {}]
  /\ CycAt("exchange")
  /\ UNCHANGED <<appVars, aim, control, status, position, motionVars, driveVars, ghostVars>>

\* The slave reads its inputs into the datagram and takes its outputs from it,
\* the outputs only in OP.  Off the bus the datagram comes back as it was sent.
Exchange ==
  /\ cyc = "exchange"
  /\ IF bus = "off"
     THEN reported' = {} /\ UNCHANGED <<payload, drive>>
     ELSE /\ \E p \in Positions :
               payload' = [low |-> p, mid |-> {}, high |-> StatusWord[drive]]
          /\ reported' = StatusWord[drive]
          /\ drive' = IF bus = "op" THEN Follow(drive, payload.mid) ELSE drive
  /\ CycAt("position")
  /\ UNCHANGED <<appVars, aim, control, status, position, motionVars, bus,
                 command, moveGhosts, passes>>

UpdatePosition ==
  /\ cyc = "position"
  /\ position' = payload.low
  /\ arrived' = (arrived \/ payload.low = positionSetpoint)
  /\ CycAt("status")
  /\ UNCHANGED <<appVars, aim, control, status, motionVars, payload, driveVars,
                 reported, command, overlapped, passes>>

UpdateStatus ==
  /\ cyc = "status"
  /\ status' = payload.high
  /\ CycAt("checkDone")
  /\ UNCHANGED <<appVars, aim, control, position, motionVars, payload, driveVars, ghostVars>>

CheckDone ==
  /\ cyc = "checkDone"
  /\ CycAt(IF done THEN "packVelocity" ELSE "above")
  /\ UNCHANGED <<appVars, aim, control, status, position, motionVars, payload,
                 driveVars, ghostVars>>

\* The deadband: two comparisons, each with its own read of positionSetpoint.
AboveLower ==
  /\ cyc = "above"
  /\ CycAt(IF position >= positionSetpoint THEN "below" ELSE "aim")
  /\ UNCHANGED <<appVars, aim, control, status, position, motionVars, payload,
                 driveVars, ghostVars>>

BelowUpper ==
  /\ cyc = "below"
  /\ CycAt(IF position <= positionSetpoint THEN "arrive" ELSE "aim")
  /\ UNCHANGED <<appVars, aim, control, status, position, motionVars, payload,
                 driveVars, ghostVars>>

Arrive ==
  /\ cyc = "arrive"
  /\ done' = TRUE
  /\ CycAt("rest")
  /\ UNCHANGED <<appVars, aim, control, status, position, velocity, velocityLimit,
                 positionSetpoint, payload, driveVars, ghostVars>>

Rest ==
  /\ cyc = "rest"
  /\ velocity' = 0
  /\ CycAt("packVelocity")
  /\ UNCHANGED <<appVars, aim, control, status, position, velocityLimit,
                 positionSetpoint, done, payload, driveVars, ghostVars>>

Aim ==
  /\ cyc = "aim"
  /\ aim' = positionSetpoint - position
  /\ CycAt("clip")
  /\ UNCHANGED <<appVars, control, status, position, motionVars, payload, driveVars, ghostVars>>

ClipAim ==
  /\ cyc = "clip"
  /\ aim' = Clip(aim, velocityLimit)
  /\ CycAt("set")
  /\ UNCHANGED <<appVars, control, status, position, motionVars, payload, driveVars, ghostVars>>

SetVelocity ==
  /\ cyc = "set"
  /\ velocity' = ToInt32(aim)
  /\ aim' = 0
  /\ CycAt("packVelocity")
  /\ UNCHANGED <<appVars, control, status, position, velocityLimit, positionSetpoint,
                 done, payload, driveVars, ghostVars>>

--------------------------------------------------------------------------------
(* The drive.                                                                  *)

\* Setup brings the slave to OP; Teardown, or a failure, takes it off the bus.
BusChanges ==
  /\ \/ bus = "safeop" /\ bus' = "op"
     \/ bus = "op" /\ bus' = "off"
  /\ UNCHANGED <<appVars, cycVars, control, status, position, motionVars, payload,
                 drive, ghostVars>>

DriveFaults ==
  /\ bus # "off" /\ drive # "fault"
  /\ drive' = "fault"
  /\ UNCHANGED <<appVars, cycVars, control, status, position, motionVars, payload,
                 bus, ghostVars>>

--------------------------------------------------------------------------------
Application ==
  \/ SwitchOn \/ SwitchOnReady \/ EnableOperation \/ EnableOperationReady
  \/ DisableOperation \/ SwitchOff \/ SwitchOffClears \/ Velocity \/ VelocityDone
  \/ PositionSetpoint \/ SetpointLimit \/ SetpointDone

CyclicThread ==
  \/ PackVelocity \/ PackControl \/ Exchange \/ UpdatePosition \/ UpdateStatus
  \/ CheckDone \/ AboveLower \/ BelowUpper \/ Arrive \/ Rest \/ Aim \/ ClipAim
  \/ SetVelocity

Next == Application \/ CyclicThread \/ BusChanges \/ DriveFaults

Spec == Init /\ [][Next]_vars

--------------------------------------------------------------------------------
(* Properties.                                                                 *)

TypeOK ==
  /\ app \in {"idle", "switchOn", "enableOperation", "switchOff", "velocityDone",
              "setpoint", "setpointDone"}
  /\ cyc \in {"packVelocity", "packControl", "exchange", "position", "status",
              "checkDone"} \/ Interpolating
  /\ args \in [value : Int, limit : Int \cup {NaN}] /\ aim \in Int
  /\ control \subseteq {"switchOn", "enableOperation"}
  /\ status \in {StatusWord[d] : d \in DOMAIN StatusWord}
  /\ velocity \in Velocities
  /\ velocityLimit \in Int \cup {NaN}
  /\ positionSetpoint \in Positions
  /\ position \in Positions \cup Velocities
  /\ done \in BOOLEAN /\ arrived \in BOOLEAN /\ overlapped \in BOOLEAN
  /\ bus \in {"safeop", "op", "off"} /\ drive \in DOMAIN StatusWord
  /\ passes \in 0 .. Counted

\* A velocity the application commands stays in force until its next command:
\* "Stop interpolation taking place..." (Velocity).
VelocityCommandHolds ==
  app = "idle" /\ command.kind = "velocity" => velocity = command.value

\* A setpoint is given up before the drive has reported it only if it was stored
\* while doInterpolation was past its first comparison with the setpoint before:
\* the second comparison is then with the new one, and the outcome ends the new
\* move where it stands.  At any other moment PositionSetpoint comes, done is the
\* new move's own.
MovesEndAtSetpoint ==
  app = "idle" /\ command.kind = "setpoint" /\ done /\ ~overlapped => arrived

\* Once a move is over the axis is told to stand still, also when its setpoint was
\* stored while the interpolation of the one before was about to end.
RestsWhenDone ==
  app = "idle" /\ command.kind = "setpoint" /\ done /\ ~Interpolating => velocity = 0

\* The velocity a move asks for: towards the setpoint in force from the position
\* last reported, within the limit that came with that setpoint.
Ordered ==
  IF done THEN 0 ELSE ToInt32(Clip(positionSetpoint - position, velocityLimit))

\* From the second frame on that is packed after PositionSetpoint has returned, the
\* drive is sent what this move asks for, whatever the three stores of the call
\* met: never a velocity with the setpoint of one command and the limit or the
\* position of another.
SetpointOnWire ==
  app = "idle" /\ command.kind = "setpoint" /\ passes >= 2 /\ cyc = "exchange"
    => payload.low = Ordered

\* A drive that is off the bus shows no status: between passes the status is
\* what the drive put into the last frame, never a leftover of an earlier one,
\* so SwitchOn and EnableOperation throw.
SilentDriveHasNoStatus ==
  cyc \notin {"position", "status"} => status = reported

\* The drive is never sent the enable bit without the switch-on bit.
LadderOnWire ==
  cyc = "exchange" /\ "enableOperation" \in payload.mid => "switchOn" \in payload.mid
--------------------------------------------------------------------------------
(* The inductive invariants, for any patience, and for one of three or more.    *)

\* The status the drive put into a frame goes from the frame to the object.
PayloadInv ==
  /\ payload \in [low : Positions \cup Velocities,
                  mid : SUBSET {"switchOn", "enableOperation"},
                  high : {StatusWord[d] : d \in DOMAIN StatusWord}]
  /\ reported \in {StatusWord[d] : d \in DOMAIN StatusWord}
  /\ cyc = "exchange" => payload.high = {}
  /\ cyc \in {"position", "status"} => payload.high = reported

\* No call that stores a velocity, a setpoint, a limit or done is under way.
MotionQuiet == app \notin {"velocityDone", "setpoint", "setpointDone"}

\* Since PositionSetpoint returned, done is set only by an arrival, which clears
\* the velocity before the thread looks at done again.
RestInv ==
  MotionQuiet /\ command.kind # "velocity" =>
    /\ done /\ Interpolating => cyc = "rest"
    /\ done /\ cyc # "rest" => velocity = 0

\* The comparisons see the position that was looked at for arrived, and the
\* setpoint in force unless it was stored between them.
ArrivalInv ==
  /\ position = positionSetpoint => arrived
  /\ ~overlapped /\ cyc = "below" => position >= positionSetpoint
  /\ ~overlapped /\ cyc = "arrive" => position = positionSetpoint
  /\ MotionQuiet /\ command.kind = "setpoint" /\ done /\ ~overlapped => arrived

\* What the first pass begun after the command has computed.
WireInv ==
  MotionQuiet /\ command.kind = "setpoint" /\ passes >= 1 =>
    /\ cyc = "rest" => done
    /\ cyc = "clip" => aim = positionSetpoint - position
    /\ cyc = "set" => aim = Clip(positionSetpoint - position, velocityLimit)
    /\ cyc = "packVelocity" => velocity = Ordered
    /\ passes >= 2 /\ cyc \in {"packControl", "exchange"} =>
         velocity = Ordered /\ payload.low = velocity

IInv ==
  /\ TypeOK /\ PayloadInv /\ SilentDriveHasNoStatus
  /\ RestInv /\ ArrivalInv /\ WireInv

\* At least n frames went to the drive since the last call returned.
Frames(n) == passes > n \/ (passes = n /\ cyc \notin {"packControl", "exchange"})

\* Without the switch-on bit the drive is off after one frame, says so in the
\* second, and EnableOperation reads it in the third.
LadderInv ==
  /\ bus = "safeop" => drive \in {"disabled", "fault"}
  /\ "enableOperation" \in control => "switchOn" \in control
  /\ "switchOn" \notin control =>
       /\ passes >= 1 /\ cyc = "exchange" => "switchOn" \notin payload.mid
       /\ Frames(1) => bus = "off" \/ drive \notin {"on", "enabled"}
       /\ Frames(2) => "switchedOn" \notin reported
       /\ passes >= 3 => "switchedOn" \notin status
  /\ app = "enableOperation" => passes >= 3
  /\ LadderOnWire
================================================================================
