---------------------------- MODULE FlexDriveProofs ----------------------------
(***************************************************************************)
(* Proofs about one axis, for any positions, velocities and limits and an   *)
(* application that commands velocities and setpoints at any time.  What    *)
(* the drive sees of the control word is proved for one that waits three    *)
(* passes before it changes it.                                            *)
(***************************************************************************)
EXTENDS FlexDrive, TLAPS

USE DriveAssumption

LEMMA StatusWords ==
  ASSUME NEW d \in DOMAIN StatusWord
  PROVE  /\ DOMAIN StatusWord = {"disabled", "ready", "on", "enabled", "fault"}
         /\ "switchedOn" \in StatusWord[d] => d \in {"on", "enabled"}
BY DEF StatusWord

\* The drive takes one step of its ladder at a time, and none up without the
\* switch-on bit.
LEMMA FollowSteps ==
  ASSUME NEW d \in DOMAIN StatusWord, NEW word
  PROVE  /\ Follow(d, word) \in DOMAIN StatusWord
         /\ "switchOn" \notin word => Follow(d, word) \notin {"on", "enabled"}
BY DEF StatusWord, Follow

LEMMA NoStatus ==
  /\ {} \in {StatusWord[d] : d \in DOMAIN StatusWord}
  /\ DOMAIN StatusWord = {"disabled", "ready", "on", "enabled", "fault"}
BY DEF StatusWord

\* What the interpolation computes is an integer whatever the limit, and fits after
\* the conversion.
LEMMA ClipType ==
  ASSUME NEW v \in Int, NEW limit \in Int \cup {NaN}
  PROVE  Clip(v, limit) \in Int
BY DEF Clip

LEMMA ConversionType ==
  ASSUME NEW v \in Int
  PROVE  ToInt32(v) \in Velocities
BY DEF ToInt32, Velocities

LEMMA PassCount == Counted \in Nat /\ Counted >= 2 /\ Counted >= Patience
BY DEF Counted

--------------------------------------------------------------------------------
(* Types, and the status on its way to the object.                             *)

TypeInv == TypeOK /\ PayloadInv /\ SilentDriveHasNoStatus

LEMMA InitTypes == Init => TypeInv
<1> SUFFICES ASSUME Init PROVE TypeInv
  OBVIOUS
<1>1. done \in BOOLEAN /\ arrived \in BOOLEAN /\ overlapped \in BOOLEAN
  BY Zenon DEF Init
<1>2. 0 \in Velocities /\ 0 \in Positions /\ passes \in 0 .. Counted
  BY PassCount DEF Velocities, Positions, Init
<1>3. TypeOK
  BY <1>1, <1>2, NoStatus DEF Init, TypeOK, NoArgs
<1>4. PayloadInv
  BY <1>2, NoStatus DEF Init, PayloadInv
<1>5. SilentDriveHasNoStatus
  BY DEF Init, SilentDriveHasNoStatus
<1> QED
  BY <1>3, <1>4, <1>5 DEF TypeInv

\* A step of a call that concerns the control word only.
LEMMA ControlWordTypes ==
  ASSUME TypeInv, control' \subseteq {"switchOn", "enableOperation"},
         app' \in {"idle", "switchOn", "enableOperation", "switchOff"},
         passes' \in 0 .. Counted,
         UNCHANGED <<args, cycVars, status, position, motionVars, payload, driveVars,
                     reported, moveGhosts>>
  PROVE  TypeInv'
<1> USE DEF cycVars, motionVars, driveVars, moveGhosts
<1>1. TypeOK'
  BY DEF TypeInv, TypeOK, Interpolating
<1>2. PayloadInv' /\ SilentDriveHasNoStatus'
  BY DEF TypeInv, PayloadInv, SilentDriveHasNoStatus
<1> QED
  BY <1>1, <1>2 DEF TypeInv

LEMMA ApplicationTypes == TypeInv /\ Application => TypeInv'
<1> SUFFICES ASSUME TypeInv, Application PROVE TypeInv'
  OBVIOUS
<1> USE DEF AppAt, Returns, cycVars, motionVars, driveVars, moveGhosts, NoArgs
<1>0. TypeOK
  BY DEF TypeInv
<1>1. passes' \in 0 .. Counted
  BY <1>0, PassCount DEF TypeOK, Application, SwitchOn, SwitchOnReady, EnableOperation,
         EnableOperationReady, DisableOperation, SwitchOff, SwitchOffClears, Velocity,
         VelocityDone, PositionSetpoint, SetpointLimit, SetpointDone
<1>2. CASE SwitchOn \/ SwitchOnReady \/ EnableOperation \/ EnableOperationReady
  <2>1. control' \subseteq {"switchOn", "enableOperation"}
    BY <1>0, <1>2 DEF TypeOK, SwitchOn, SwitchOnReady, EnableOperation, EnableOperationReady
  <2> QED
    BY <1>1, <1>2, <2>1, ControlWordTypes
    DEF SwitchOn, SwitchOnReady, EnableOperation, EnableOperationReady
<1>3. CASE DisableOperation \/ SwitchOff \/ SwitchOffClears
  <2>1. control' \subseteq {"switchOn", "enableOperation"}
    BY <1>0, <1>3 DEF TypeOK, DisableOperation, SwitchOff, SwitchOffClears
  <2> QED
    BY <1>1, <1>3, <2>1, ControlWordTypes DEF DisableOperation, SwitchOff, SwitchOffClears
<1> USE DEF TypeInv, TypeOK, PayloadInv, SilentDriveHasNoStatus, Interpolating
<1>4. CASE Velocity
  <2>1. PICK v \in Speeds : velocity' = v /\ args' = [value |-> v, limit |-> 0]
    BY <1>4 DEF Velocity
  <2>2. v \in Velocities /\ v \in Int
    BY DEF Velocities
  <2>3. velocity' \in Velocities /\ args' \in [value : Int, limit : Int \cup {NaN}]
    BY <2>1, <2>2
  <2> QED
    BY <1>1, <1>4, <2>3 DEF Velocity
<1>5. CASE VelocityDone
  BY <1>1, <1>5 DEF VelocityDone
<1>6. CASE PositionSetpoint
  <2>0. overlapped' \in BOOLEAN
    <3>1. overlapped' = (cyc \in {"below", "arrive"})
      BY <1>6, Zenon DEF PositionSetpoint
    <3>2. CASE cyc \in {"below", "arrive"}
      BY <3>1, <3>2
    <3>3. CASE cyc \notin {"below", "arrive"}
      BY <3>1, <3>3
    <3> QED
      BY <3>2, <3>3
  <2>1. arrived' \in BOOLEAN
    BY <1>6, Zenon DEF PositionSetpoint
  <2>2. PICK limit \in Limits : args' = [value |-> 0, limit |-> limit]
    BY <1>6 DEF PositionSetpoint
  <2>3. limit \in Int \cup {NaN}
    OBVIOUS
  <2>4. positionSetpoint' \in Positions
    BY <1>6 DEF PositionSetpoint
  <2>5. args' \in [value : Int, limit : Int \cup {NaN}]
    BY <2>2, <2>3
  <2>6. /\ app' = "setpoint"
        /\ UNCHANGED <<cycVars, control, status, position, velocity, velocityLimit,
                       done, payload, driveVars, reported, command>>
    BY <1>6 DEF PositionSetpoint
  <2> QED
    BY <1>1, <2>0, <2>1, <2>4, <2>5, <2>6
<1>7. CASE SetpointLimit
  BY <1>1, <1>7 DEF SetpointLimit
<1>8. CASE SetpointDone
  <2>1. done' \in BOOLEAN
    BY <1>8, Zenon DEF SetpointDone
  <2>2. app' = "idle" /\ args' \in [value : Int, limit : Int \cup {NaN}]
    BY <1>8 DEF SetpointDone
  <2> QED
    BY <1>1, <1>8, <2>1, <2>2 DEF SetpointDone
<1> QED
  BY <1>2, <1>3, <1>4, <1>5, <1>6, <1>7, <1>8 DEF Application

LEMMA CyclicTypes == TypeInv /\ CyclicThread => TypeInv'
<1> SUFFICES ASSUME TypeInv, CyclicThread PROVE TypeInv'
  OBVIOUS
<1> USE DEF TypeInv, TypeOK, PayloadInv, SilentDriveHasNoStatus, Interpolating, CycAt,
            appVars, motionVars, driveVars, moveGhosts, ghostVars
<1>1. CASE PackVelocity
  BY <1>1, PassCount DEF PackVelocity
<1>2. CASE PackControl
  BY <1>2, NoStatus DEF PackControl
<1>3. CASE Exchange
  <2>1. CASE bus = "off"
    BY <1>3, <2>1, NoStatus DEF Exchange
  <2>2. CASE bus # "off"
    <3>1. PICK p \in Positions :
            payload' = [low |-> p, mid |-> {}, high |-> StatusWord[drive]]
      BY <1>3, <2>2 DEF Exchange
    <3>2. drive' \in DOMAIN StatusWord
      BY <1>3, <2>2, FollowSteps DEF Exchange
    <3> QED
      BY <1>3, <2>2, <3>1, <3>2 DEF Exchange
  <2> QED
    BY <2>1, <2>2
<1>4. CASE UpdatePosition
  <2>1. arrived' \in BOOLEAN
    BY <1>4, Zenon DEF UpdatePosition
  <2> QED
    BY <1>4, <2>1 DEF UpdatePosition
<1>5. CASE UpdateStatus
  BY <1>5 DEF UpdateStatus
<1>6. CASE CheckDone \/ AboveLower \/ BelowUpper
  BY <1>6 DEF CheckDone, AboveLower, BelowUpper
<1>7. CASE Arrive
  BY <1>7 DEF Arrive
<1>8. CASE Rest
  BY <1>8 DEF Rest, Velocities
<1>9. CASE Aim
  BY <1>9 DEF Aim, Positions, Velocities
<1>10. CASE ClipAim
  <2>1. aim' \in Int
    BY <1>10, ClipType DEF ClipAim
  <2> QED
    BY <1>10, <2>1 DEF ClipAim
<1>11. CASE SetVelocity
  <2>1. velocity' \in Velocities
    BY <1>11, ConversionType DEF SetVelocity
  <2> QED
    BY <1>11, <2>1 DEF SetVelocity
<1> QED
  BY <1>1, <1>2, <1>3, <1>4, <1>5, <1>6, <1>7, <1>8, <1>9, <1>10, <1>11 DEF CyclicThread

LEMMA StepTypes == TypeInv /\ [Next]_vars => TypeInv'
<1> SUFFICES ASSUME TypeInv, [Next]_vars PROVE TypeInv'
  OBVIOUS
<1> USE DEF TypeInv, TypeOK, PayloadInv, SilentDriveHasNoStatus, Interpolating
<1>1. CASE BusChanges
  BY <1>1 DEF BusChanges, appVars, cycVars, motionVars, moveGhosts, ghostVars
<1>2. CASE DriveFaults
  BY <1>2, NoStatus DEF DriveFaults, appVars, cycVars, motionVars, moveGhosts, ghostVars
<1>3. CASE UNCHANGED vars
  BY <1>3 DEF vars, appVars, cycVars, motionVars, driveVars, moveGhosts, ghostVars
<1> QED
  BY <1>1, <1>2, <1>3, ApplicationTypes, CyclicTypes DEF Next

--------------------------------------------------------------------------------
(* Moves.                                                                      *)

MoveInv == RestInv /\ ArrivalInv /\ WireInv

LEMMA InitMoves == Init => MoveInv
BY DEF Init, MoveInv, RestInv, ArrivalInv, WireInv, Interpolating

LEMMA ApplicationMoves == TypeInv /\ MoveInv /\ Application => MoveInv'
<1> SUFFICES ASSUME TypeInv, MoveInv, Application PROVE MoveInv'
  OBVIOUS
<1> USE DEF MoveInv, RestInv, ArrivalInv, WireInv, MotionQuiet, Ordered, Interpolating,
            AppAt, Returns, MayControl, cycVars, motionVars, driveVars, moveGhosts
<1>0. passes \in Nat
  BY PassCount DEF TypeInv, TypeOK
<1>1. CASE SwitchOn \/ SwitchOnReady \/ EnableOperation \/ EnableOperationReady
  BY <1>0, <1>1 DEF SwitchOn, SwitchOnReady, EnableOperation, EnableOperationReady
<1>2. CASE DisableOperation \/ SwitchOff \/ SwitchOffClears
  BY <1>0, <1>2 DEF DisableOperation, SwitchOff, SwitchOffClears
<1>3. CASE Velocity
  BY <1>0, <1>3 DEF Velocity
<1>4. CASE VelocityDone
  BY <1>0, <1>4 DEF VelocityDone
<1>5. CASE PositionSetpoint
  BY <1>0, <1>5 DEF PositionSetpoint
<1>6. CASE SetpointLimit
  BY <1>0, <1>6 DEF SetpointLimit
<1>7. CASE SetpointDone
  <2>1. ~done'
    BY <1>7, Zenon DEF SetpointDone
  <2>2. command'.kind = "setpoint" /\ passes' = 0
    BY <1>7 DEF SetpointDone
  <2> QED
    BY <1>7, <2>1, <2>2 DEF SetpointDone
<1> QED
  BY <1>1, <1>2, <1>3, <1>4, <1>5, <1>6, <1>7 DEF Application

LEMMA CyclicMoves == TypeInv /\ MoveInv /\ CyclicThread => MoveInv'
<1> SUFFICES ASSUME TypeInv, MoveInv, CyclicThread PROVE MoveInv'
  OBVIOUS
<1> USE DEF MoveInv, RestInv, ArrivalInv, WireInv, MotionQuiet, Interpolating, CycAt,
            appVars, motionVars, driveVars, moveGhosts, ghostVars
<1>0. passes \in Nat /\ Counted \in Nat /\ Counted >= 2
  BY PassCount DEF TypeInv, TypeOK
<1>1. CASE PackVelocity
  BY <1>0, <1>1 DEF PackVelocity, Ordered, TypeInv, PayloadInv
<1>2. CASE PackControl
  BY <1>0, <1>2 DEF PackControl, Ordered, TypeInv, PayloadInv
<1>3. CASE Exchange
  BY <1>0, <1>3 DEF Exchange
<1>4. CASE UpdatePosition
  BY <1>0, <1>4 DEF UpdatePosition
<1>5. CASE UpdateStatus
  BY <1>0, <1>5 DEF UpdateStatus
<1>6. CASE CheckDone
  BY <1>0, <1>6 DEF CheckDone, Ordered
<1>7. CASE AboveLower
  BY <1>0, <1>7 DEF AboveLower
<1>8. CASE BelowUpper
  <2>1. position \in Int /\ positionSetpoint \in Int
    BY DEF TypeInv, TypeOK, Positions, Velocities
  <2> QED
    BY <1>0, <1>8, <2>1 DEF BelowUpper
<1>9. CASE Arrive
  BY <1>0, <1>9 DEF Arrive
<1>10. CASE Rest
  BY <1>0, <1>10 DEF Rest, Ordered
<1>11. CASE Aim
  BY <1>0, <1>11 DEF Aim
<1>12. CASE ClipAim
  BY <1>0, <1>12 DEF ClipAim
<1>13. CASE SetVelocity
  BY <1>0, <1>13 DEF SetVelocity, Ordered
<1> QED
  BY <1>1, <1>2, <1>3, <1>4, <1>5, <1>6, <1>7, <1>8, <1>9, <1>10, <1>11, <1>12, <1>13
  DEF CyclicThread

LEMMA StepMoves == TypeInv /\ MoveInv /\ [Next]_vars => MoveInv'
<1> SUFFICES ASSUME TypeInv, MoveInv, [Next]_vars PROVE MoveInv'
  OBVIOUS
<1> USE DEF MoveInv, RestInv, ArrivalInv, WireInv, MotionQuiet, Ordered, Interpolating
<1>1. CASE BusChanges
  BY <1>1 DEF BusChanges, appVars, cycVars, motionVars, moveGhosts, ghostVars
<1>2. CASE DriveFaults
  BY <1>2 DEF DriveFaults, appVars, cycVars, motionVars, moveGhosts, ghostVars
<1>3. CASE UNCHANGED vars
  BY <1>3 DEF vars, appVars, cycVars, motionVars, moveGhosts, ghostVars
<1> QED
  BY <1>1, <1>2, <1>3, ApplicationMoves, CyclicMoves DEF Next

LEMMA InitInv == Init => IInv
BY InitTypes, InitMoves DEF TypeInv, MoveInv, IInv

LEMMA StepInv == IInv /\ [Next]_vars => IInv'
BY StepTypes, StepMoves DEF TypeInv, MoveInv, IInv

\* The invariant is inductive, whenever the application commands.
THEOREM Inductive == Spec => []IInv
BY InitInv, StepInv, PTL DEF Spec

\* A setpoint is given up before the drive has reported it only if PositionSetpoint
\* stored it between the two comparisons of doInterpolation or before their outcome.
THEOREM SetpointReached == Spec => []MovesEndAtSetpoint
<1>1. IInv => MovesEndAtSetpoint
  BY DEF IInv, ArrivalInv, MotionQuiet, MovesEndAtSetpoint
<1> QED
  BY <1>1, Inductive, PTL

\* Once a move is over the axis is told to stand still, however its setpoint met
\* the interpolation of the move before.
THEOREM RestAfterMove == Spec => []RestsWhenDone
<1>1. IInv => RestsWhenDone
  BY DEF IInv, RestInv, MotionQuiet, RestsWhenDone, Interpolating
<1> QED
  BY <1>1, Inductive, PTL

\* From the second frame packed after PositionSetpoint on the drive is sent the
\* clipped way to the setpoint in force, with the limit that came with it.
THEOREM MovesOnWire == Spec => []SetpointOnWire
<1>1. IInv => SetpointOnWire
  <2> SUFFICES ASSUME IInv, app = "idle", command.kind = "setpoint", passes >= 2,
                      cyc = "exchange"
               PROVE  payload.low = Ordered
    BY DEF SetpointOnWire
  <2>1. passes \in Nat
    BY PassCount DEF IInv, TypeOK
  <2> QED
    BY <2>1 DEF IInv, WireInv, MotionQuiet
<1> QED
  BY <1>1, Inductive, PTL

\* Between passes the status is what the drive put into the last frame, and nothing
\* if it put nothing there, however fast the application commands.
THEOREM SilentDrive == Spec => []SilentDriveHasNoStatus
<1>1. IInv => SilentDriveHasNoStatus
  BY DEF IInv
<1> QED
  BY <1>1, Inductive, PTL

--------------------------------------------------------------------------------
(* An application that waits three passes.                                     *)

LEMMA StatusBits ==
  ASSUME NEW d \in DOMAIN StatusWord
  PROVE  /\ d \in {"disabled", "ready", "on", "enabled", "fault"}
         /\ "switchedOn" \in StatusWord[d] => d \in {"on", "enabled"}
BY StatusWords

LEMMA InitLadder == Init => LadderInv
BY DEF Init, LadderInv, LadderOnWire, Frames

LEMMA ApplicationLadder ==
  ASSUME Patience >= 3, IInv, LadderInv, Application
  PROVE  LadderInv'
<1> USE DEF LadderInv, LadderOnWire, Frames, AppAt, Returns, MayControl, cycVars,
            motionVars, driveVars, moveGhosts
<1>1. passes \in Nat /\ passes' \in {0, passes}
  BY DEF IInv, TypeOK, Application, SwitchOn, SwitchOnReady, EnableOperation, EnableOperationReady,
         DisableOperation, SwitchOff, SwitchOffClears, Velocity, VelocityDone,
         PositionSetpoint, SetpointLimit, SetpointDone
<1>2. CASE SwitchOn
  BY <1>2 DEF SwitchOn
<1>3. CASE SwitchOnReady
  BY <1>3 DEF SwitchOnReady
<1>4. CASE EnableOperation
  BY <1>4 DEF EnableOperation
<1>5. CASE EnableOperationReady
  BY <1>5 DEF EnableOperationReady
<1>6. CASE DisableOperation \/ SwitchOff
  BY <1>6 DEF DisableOperation, SwitchOff
<1>7. CASE SwitchOffClears
  BY <1>7 DEF SwitchOffClears
<1>8. CASE Velocity \/ VelocityDone
  BY <1>8, <1>1 DEF Velocity, VelocityDone
<1>9. CASE PositionSetpoint \/ SetpointLimit \/ SetpointDone
  BY <1>9, <1>1 DEF PositionSetpoint, SetpointLimit, SetpointDone
<1> QED
  BY <1>2, <1>3, <1>4, <1>5, <1>6, <1>7, <1>8, <1>9 DEF Application

LEMMA CyclicLadder ==
  ASSUME Patience >= 3, IInv, LadderInv, CyclicThread
  PROVE  LadderInv'
<1> USE DEF LadderInv, LadderOnWire, Frames, CycAt, appVars, motionVars, driveVars,
            moveGhosts, ghostVars
<1>1. passes \in Nat /\ bus \in {"safeop", "op", "off"} /\ drive \in DOMAIN StatusWord
  BY DEF IInv, TypeOK
<1>2. CASE PackVelocity
  <2>1. status = reported
    BY <1>2 DEF PackVelocity, IInv, SilentDriveHasNoStatus
  <2> QED
    BY <1>1, <1>2, <2>1 DEF PackVelocity
<1>3. CASE PackControl
  BY <1>1, <1>3 DEF PackControl, IInv, PayloadInv
<1>4. CASE Exchange
  <2>1. CASE bus = "off"
    BY <1>1, <1>4, <2>1 DEF Exchange
  <2>2. CASE bus = "safeop"
    BY <1>1, <1>4, <2>2, StatusBits DEF Exchange
  <2>3. CASE bus = "op"
    <3>1. "switchOn" \notin payload.mid => drive' \notin {"on", "enabled"}
      BY <1>1, <1>4, <2>3, FollowSteps DEF Exchange
    <3>2. drive \notin {"on", "enabled"} => "switchedOn" \notin reported'
      BY <1>1, <1>4, <2>3, StatusBits DEF Exchange
    <3> QED
      BY <1>1, <1>4, <2>3, <3>1, <3>2 DEF Exchange
  <2> QED
    BY <1>1, <2>1, <2>2, <2>3
<1>5. CASE UpdatePosition
  BY <1>1, <1>5 DEF UpdatePosition
<1>6. CASE UpdateStatus
  BY <1>1, <1>6 DEF UpdateStatus, IInv, PayloadInv
<1>7. CASE CheckDone \/ AboveLower \/ BelowUpper
  BY <1>1, <1>7 DEF CheckDone, AboveLower, BelowUpper
<1>8. CASE Arrive \/ Rest \/ SetVelocity
  BY <1>1, <1>8 DEF Arrive, Rest, SetVelocity
<1>9. CASE Aim \/ ClipAim
  BY <1>1, <1>9 DEF Aim, ClipAim
<1> QED
  BY <1>2, <1>3, <1>4, <1>5, <1>6, <1>7, <1>8, <1>9 DEF CyclicThread

LEMMA StepLadder ==
  ASSUME Patience >= 3, IInv, LadderInv, [Next]_vars
  PROVE  LadderInv'
<1> USE DEF LadderInv, LadderOnWire, Frames
<1>1. CASE BusChanges
  BY <1>1 DEF BusChanges, appVars, cycVars, motionVars, moveGhosts, ghostVars
<1>2. CASE DriveFaults
  BY <1>2 DEF DriveFaults, appVars, cycVars, motionVars, moveGhosts, ghostVars
<1>3. CASE UNCHANGED vars
  BY <1>3 DEF vars, appVars, cycVars, motionVars, driveVars, moveGhosts, ghostVars
<1> QED
  BY <1>1, <1>2, <1>3, ApplicationLadder, CyclicLadder DEF Next

\* The drive is never sent the enable bit without the switch-on bit, if the
\* application waits three passes before it changes the word: EnableOperation trusts the
\* status of a drive that may have been told to switch off since.
THEOREM LadderKept ==
  ASSUME Patience >= 3
  PROVE  Spec => []LadderOnWire
<1>1. Init => IInv /\ LadderInv
  BY InitInv, InitLadder
<1>2. IInv /\ LadderInv /\ [Next]_vars => (IInv /\ LadderInv)'
  BY StepInv, StepLadder
<1>3. LadderInv => LadderOnWire
  BY DEF LadderInv
<1> QED
  BY <1>1, <1>2, <1>3, PTL DEF Spec
================================================================================
