# poindexter2: a TLA+ model of the EtherCAT master and the FlexPicker robot

The repository is an EtherCAT master (`ethercat/`) and a controller for a
three-axis delta robot built on it (`flexpicker/`).  One process talks to three
AX2000 servo drives over a raw Ethernet socket.  Two threads run in it: main's,
which calls every public operation, and the cyclic thread of
`CyclicCommunicationManager`, which exchanges one Ethernet frame per period.
There is no lock anywhere.

This directory holds TLA+ modules for the parts with state, TLC configurations
for them, and TLAPS proofs of almost every safety property that TLC checks.  File
and line numbers below are relative to `src/`.

## Components

| component | state | operations | what is hard | correct when |
|---|---|---|---|---|
| `CyclicCommunicationManager` | ring of 10 messages and promises, reader and writer pointer, run flag, controllers | RegisterCyclicController, SendDatagram, Run, Stop, destructor; the cyclic thread | two threads without a lock; promises moved and broken; stop and restart | every future resolves once, after its datagram travelled, in order; threads never share the link |
| `VelocityController` | control and status word, position, velocity, setpoint, limit, done, one datagram | SwitchOn, EnableOperation, DisableOperation, SwitchOff, Velocity, PositionSetpoint, SetHome; GetDatagram, UpdateData on the cyclic thread | members shared between the threads; drive faults; a silent drive | the drive is sent the move in force; moves end where they were sent; the drive sees a legal ladder of control bits |
| `Slave`, AL state machine | cached AL state | Init, ChangeState, ChangeStateASync, ClearErrors | the slave runs by itself, refuses, ignores, was left in any state | the cached state is the slave's; only legal hops are requested |
| `Slave`, addressing | station address, static next address | constructor, NumSlaves, register access | addresses left by an earlier process; cable breaks | an access is taken by the slave the object stands for |
| `SyncManager` | copy of eight registers of the slave | setters, Enable, Disable; mailbox and buffer transfers | accesses that throw; registers that outlive the process | the copy follows the registers; an active unit is not reconfigured |
| `FMMU` | copy of the registers of one mapping | setters, Enable, Disable | as above | an active mapping never changes |
| `CANopen` | none of its own | ReadSDO, WriteSDO, SetInputPDO, SetOutputPDO | one-message mailboxes, replies without numbers, aborts, emergencies | a call that returned took effect and left nothing behind, as long as none was cut short |
| `Packet`, `Datagram` | the chain of datagrams, M bits, working counters | AddDatagram, SendReceive, ResetContainer | reuse of datagrams, padding, no size check | slaves see exactly the datagrams of the frame |
| `Link` | a socket | SendData, ReceiveData | losses, no timeout, frames of others | I/O |
| `Flexpicker::Master` | slaves and controllers of three axes, whether each axis is home, the targets of a move | constructor, Setup, DoHoming, MoveTo, Teardown | a long sequence of steps on three slaves and three drives, each of which may fail, half before and half after the cyclic thread started | a slave in OP always gets outputs; nobody is left moving; outputs go off before the slaves do |
| `main` (`send_test.cpp`) | a few flags and timers | one run of the above | waits by polling and by the clock | it ends, and throws only for a cause |
| kinematics, `PositionController`, build files | | | | not modelled |

How they interact: `Master` and `CANopen` call `Slave`, `SyncManager` and
`FMMU`; each of their register accesses is one `SendDatagram` followed by a wait
on its future; the manager carries the datagram to the slaves in a `Packet`
through the `Link`, on the caller's thread before `Run`, on the cyclic thread
afterwards; the cyclic thread calls `GetDatagram` and `UpdateData` of the
controllers around each exchange.

`PROJECT.json` lists the hazards of the code line by line with the properties
that cover them.

## Modules

| module | models | composed of |
|---|---|---|
| `DatagramService` | what SendDatagram promises: accept, exchange, report, abandon | |
| `CyclicManager` | `ethercat/cyclic_communication_manager.cpp` | implements `DatagramService` |
| `CyclicManagerProofs` | theorems about it | |
| `DriveStates` | the states of a drive (CiA 402), external | |
| `FlexDrive` | `flexpicker/flexpicker_velocitycontroller.cpp` | `DriveStates` |
| `FlexDriveProofs` | theorems about it | |
| `MCFlexDrive` | the velocities and limits of its runs | `FlexDrive` |
| `ALStates` | the AL states and the hops ChangeState lets through | |
| `SlaveState` | the AL state machine in `ethercat/slave.cpp` | `ALStates` |
| `SlaveStateProofs` | theorems about it | |
| `SlaveBus` | addressing in `ethercat/slave.cpp`, the probing of the master's constructor | |
| `SlaveBusProofs` | theorems about it | |
| `SyncManager`, `FMMU` | `ethercat/syncmanager.cpp`, `ethercat/fmmu.cpp`, configuration | |
| `SlaveUnits` | the two in one slave, as Slave::Init builds them | `SyncManager`, `FMMU` |
| `SlaveUnitsProofs` | theorems about the three | |
| `SdoTransfer` | what the SDO calls promise: carried out once and returned, or not carried out and thrown | |
| `CANopenSdo` | `ethercat/canopen.cpp` and the mailbox half of `syncmanager.cpp` | implements `SdoTransfer` |
| `CANopenSdoProofs` | theorems about it | |
| `EtherPacket` | `ethercat/packet.cpp`, `datagram.cpp` | |
| `EtherPacketProofs` | theorems about it | |
| `FlexMaster` | `flexpicker/flexpicker_master.cpp` and `send_test.cpp`: main, the cyclic thread, slaves, drives and arms together | `ALStates`, `DriveStates` |
| `FlexMasterProofs` | theorems about it | |

Variables carry the names of the members they stand for.  `app` and `cyc` (or
`pc`) say where a thread is.  Each module begins with the variables, then a
section of faulty variants: definitions the specification does not use, each of
which is one of the real ones with a plausible mistake.  Putting one in the place
of the real definition shows that the property it is listed with in
`PROJECT.json` notices.

**CyclicManager.**  Each access to a member the two threads share is a step: the
application fills the message slot (`PutMessage`, line 62), the promise slot
(`PutPromise`, 63) and then advances the pointer (`AdvanceWriter`, 65-68); the
cyclic thread goes from `CheckRun` to `Wake` through the loop of lines 100-151.
Steps are in program order.  The members are `volatile`, not atomic; the
Makefiles compile without optimisation and the program is run on hosts that keep
the order of stores.  The application may do anything between two calls,
including not waiting for its futures.  Assigning a promise over an unfulfilled
one, `set_value` on a spent one and a null datagram do in the model what they do
in C++: a broken future and a dead process (`aborted`).  The network delivers in
order, or loses.

`Window` is the one assumption about callers: they hold fewer futures than the
ring has slots.  The code does not check it (the TODO at line 33).  In the
repository every caller waits for each future at once, which is a window of one.

**FlexDrive.**  One axis.  Each read or write of a shared member is a step, so
PositionSetpoint is three steps and doInterpolation up to five.  Positions are
counted in deadbands, so the two comparisons of lines 119-120 are `>=` and `<=`.
The drive follows CiA 402 and reports any position; it faults and leaves the bus
at any time.

Velocities and setpoints come at any moment of the interpolation: `MoveTo` comes by
the clock, `done` has no accessor, and `Velocity` is called for axes that are moving.
A velocity is any int32, as `Velocity` checks nothing (`MaxVelocity` is the largest,
beyond `VELOCITY_LIMIT`); a limit is what `PositionSetpoint` lets through, a double
up to `VELOCITY_LIMIT`, below zero too, or `NaN`, which its comparison does not
catch.  `Patience` is about the control word alone: how many passes the application
waits before SwitchOn, EnableOperation, DisableOperation and SwitchOff.  Main waits
a second before each, which is hundreds of periods.  A setpoint stands for the
position the axis goes to: the home position, which shifts it, is in `FlexMaster`
with `SetHome`.

**SlaveState.**  The slave takes up a request when it likes.  It refuses upward
hops when it likes, ignores requests while it shows an unacknowledged error, and
may fall back.  `disturbed` is true once anything but Init and ChangeState has
acted on the slave: a fall-back, ChangeStateASync, ClearErrors or a call that was
cut short by an exception.  The code never reads the state again after such an
event, so what can be promised about the cached state is about undisturbed
objects.  The read-modify-write of AL_CONTROL is one step, because nobody else
writes that register.  The slave stores what is written to a register.

**SlaveBus.**  Each datagram is a step.  Between them cables break and slaves lose
power; the process may die and be started with slaves exchanged.

**SyncManager, FMMU, SlaveUnits.**  A setter is an action with two outcomes where
the object differs after an exception (StartAddr and Length set the member first)
and one where it does not.

**CANopenSdo.**  A program is one SDO call or the two calls of SetInputPDO and
SetOutputPDO.  The drive takes a request, answers or aborts when the other
mailbox is empty, and may send a message nobody asked for.  `disturbed` is true
after such a message or after an exception that cut a call short between its
write and its read.  `SdoTransfer` knows no mailboxes: a call is carried out by the
drive, then it returns; or it throws and was not carried out.  `Carried` maps
to it: the answer to the call under way is in the mailbox.

**EtherPacket.**  Of a datagram the model keeps length, M bit and working
counter.  SendReceive writes the header, copies one datagram per step, and pads.  The
slaves work on the chain up to the first datagram without M.

**FlexMaster.**  The whole program, from the constructor's probing of the bus to
the end of main.  `phase` and `axis` are main's place and loop index.  What the
other modules show of single calls is used here to take larger steps: a call of a
`VelocityController` is one step, the callbacks of a pass are one step for all
axes (`FlexDrive` interleaves them), and the configuration of one slave's mailbox
or process data is one step.  ChangeState is not: each of its register accesses
is one datagram, exchanged at once before Run and in a frame of the cyclic thread
afterwards, and the slave takes up the request at any time between.  A wait of
main is at least one whole pass of the cyclic thread; the code waits for hundreds.

A position is a place between 0 and `Top`, the mechanical stop against which
homing presses; of a velocity the direction matters, of a speed limit whether it
is zero.

The slaves are found as an earlier master left them: in any AL state, with an error
or an event bit, the drive in fault or, in OP, anywhere on its ladder.  The request
for INIT with which Setup begins acknowledges an error (`Serve`), unless the slave
is in INIT already: then ChangeState returns at once, the slave ignores the next
request (`Ignore`), and the poll of awaitALChange does not end, nor does the wait for a
drive that was found in fault.  A drive may abort the SDO transfers of Setup, which
throws (`ConfigureProcessData`).

Three oddities of the code are in the model as they are: the loop that
should wait for the switched-on bit sets the flag of the loop before it, so main
goes on after one second (`send_test.cpp:75`); the second timer of DoHoming is
created and not waited on, so `SetHome` may see an axis still braking
(`flexpicker_master.cpp:254`); and when no axis has a distance to go the speeds
are 0/0, which no comparison clips (`flexpicker_master.cpp:290`, `Share`).

Nothing in the program catches exceptions, so `Dies` ends the process, the cyclic
thread included, and the model with it.  What a drive does when its master dies
is its own watchdog's business.  `SwitchOff` also forgets the home position, which
nothing reads after it, to keep the state space small.

## Runs

| run | bounds | shows |
|---|---|---|
| `cyclic` | 3 slots, window 2, 5 requests, 1 controller, 1 loss | the manager in any order of calls: safety, that it implements `DatagramService`, and, unless a frame is lost, that every future resolves and Stop returns |
| `drive_axis` | positions 0 and 1, `VELOCITY_LIMIT` 1, int32 -2..2, velocities -2 and 0, limits -2, 1 and NaN, patience 3 | moves commanded at any time are sent as commanded, end and rest, with faults and losses of the drive |
| `drive_velocity` | as above | **violated**: see below |
| `slave_state` | none: finite | the cached state is true, requests legal, failures are refusals, calls return |
| `slave_setup` | none | **violated**: see below |
| `units_any` | 2 addresses, 2 lengths, 2 fields, 2 values | copies follow registers across failures and restarts; a SyncManager's start address and length until a write of them is lost |
| `units_active` | as above | **violated**: see below |
| `sdo_mailbox` | 2 objects, 2 values | transfers take effect, leave nothing behind and implement `SdoTransfer` while none was cut short and nothing came unasked; after that too they end and overwrite no request |
| `packet_frames` | 3 controllers of 20 bytes, 3 ring slots, 2 of them waiting, requests of 13, 44 and 524 bytes | chains and lengths |
| `bus_addresses` | 3 slaves, all managed | addressing |
| `master` | 2 axes, stop at 1, 1 move, 1 trouble | the whole program: outputs, exceptions, homing, teardown, and that main ends if the slaves are found fit |
| `master_moves` | as above, no trouble | **violated**: see below |

Why the bounds are enough.  Five requests through three slots wrap the ring
nearly twice, with a batch of two, a full window and a restart of the thread in
between; the proofs cover every other size.  One lost frame stops the thread for
ever, so a second adds nothing.  Two positions put an
axis below, inside and above the deadband, and a limit of one clips a way of two
(the position of a silent drive is the velocity that was sent to it).  An int32 twice
the limit tells a velocity that was clipped from one that was not, and a limit
below zero and NaN are what the comparisons take differently.  Patience 3 is the
least for which `LadderOnWire` holds.
Two values of a register tell a changed one from an unchanged one.  The sizes of
`packet_frames` are those of a byte access, a request exactly at the minimum
payload, and a mailbox of 512 bytes, with the real MTU, minimum and header.
The 16-bit address field of `SlaveBus` is reduced to 3 bits, more than slaves.
In `master` two axes are the least with an order among them and with a slave
behind a cut of the cable; a stop one place away from the start is the least that
an axis has to move to; one trouble (a cut, a drive fault or a refused request) can
come anywhere, and after most of them the program ends soon.  That is 1.3 million
states, and `drive_axis` has 7.4 million.

`cyclic` turns the deadlock check off: after a lost frame the code really stops.
A type invariant is a run's property in `master`, where a mistake in the model's
larger steps would show in it first.  All type invariants are proved, by themselves or
as a part of the inductive invariant.

### What the properties leave out

Some properties hold only as long as something the code does not guard against has not
happened.  The modules contain the event, and the code does go wrong after it; the
condition in the property says so, and the hazard is listed without a property.

* `smKnown` in `CopyFollowsRegisters`: a write of StartAddr or Length that threw.  The
  member was set before the access (`syncmanager.cpp:91`) and may not be the register's.
* `disturbed` in `FinishedCallsTookEffect`, `CallsLeaveNothingBehind` and
  `ImplementsTransfer`: a call that an exception cut short between its write and its
  read, or an emergency of the drive.  The next call takes what is left for its answer
  (`canopen.cpp:78`).
* `disturbed` in `CachedStateIsTrue`: the slave fell back, or a call was cut short.
* `overlapped` in `MovesEndAtSetpoint`: a setpoint stored after the first comparison of
  doInterpolation and before the outcome (`flexpicker_velocitycontroller.cpp:119-122`).  The
  new move ends where it stands, and the axis rests there (`RestsWhenDone`).
* `CompletionInOrder` is about the requests that go through the ring: one that is sent
  directly, between a Stop and the next Run, overtakes those left in the ring.

### Findings

* `drive_velocity`: `Velocity` stores the velocity and sets `done`, "Stop
  interpolation taking place..."; an interpolation that is past its own check of
  `done` stores its velocity afterwards, and nothing corrects it.
* `slave_setup`: "First, clear errors and go to the INIT state" - but a slave
  found in INIT with an error keeps it, because `ChangeState` returns early on
  the cached state and `ClearErrors` is commented out.
* `units_active`: `SyncManager::Enable` ends with `enabled = false`, so "Tried to
  change StartAddr when SyncManager enabled" is never thrown for a SyncManager
  the object activated.
* `master_moves`: `MoveTo` will "Scale the speeds by the amount to move", and takes
  the distance from the reported position to the target for the amount; but
  `PositionSetpoint` adds the home position to the target.  An axis whose reported
  position happens to be the target gets the speed limit zero and never starts,
  and the other axes' speeds are scaled by the wrong distances.

## Fairness

Liveness is checked in four modules, with weak fairness only.
`CyclicManager!FairSpec`: the scheduler runs both threads (an operation that was
begun goes on, the cyclic thread's `sleep_until` returns), and a frame that is
not lost comes back.  The application is not obliged to begin anything.
`Link::ReceiveData` has no timeout, so after a loss nothing is promised: the
properties say `lost > 0` for that.  A request that is in the ring when the
thread stops stays there until the next Run; `EveryFutureResolved` says
`~runCyclicThread` for that.
`SlaveState!FairSpec`: the polling loop runs and the slave takes up a request;
whether it obeys, refuses or ignores is its choice.  `CANopenSdo!FairSpec`: the
polling loops run and the drive serves what is in its mailbox, with an answer or
an abort.  `FlexMaster!FairSpec`: both threads run; for each axis, a slave takes up
a request in the end, an enabled drive follows its control word and an arm that
is driven moves.  No trouble is obliged to happen, and `MainEnds` promises the end
of main when none does, for slaves that were found fit: no drive in fault, and no slave
in INIT with an error.

## Proofs

`CyclicManagerProofs` proves, for every ring size of two slots or more, every
window below it, and any number of requests, controllers and losses, all `TypeOK` and all
safety properties of the run `cyclic`: `FutureImpliesReply`,
`AbandonedOnlyAtDestruction`, `CompletionInOrder`, `NeverAborts`,
`LinkHasOneUser`, `FrameCoversControllers`, and the refinement
`ImplementsService`.  The assumptions are those of `CyclicManager`.

None of these is inductive.  `IInv` adds an account of the requests: those below
`Fulfilled` are ready, those from there to `Taken` are in the batch of the cyclic
thread, those from there to `issued` are in the ring in order, counted from its
head, and the next may be half written (`FutureInv`, `BatchInv`, `SlotInv`).  The
head is the thread's local `rp` during a pass and `acyclicReaderPtr` otherwise:
the slots between the two are spent, and the window keeps the writer out of them
(`WindowInv`).  `ThreadInv` says when the thread exists, `LinkInv` whose frame is
on the wire.  The proof has one lemma per step that moves a request from one
range to the next; arithmetic modulo the ring size is done once, in
`RingArithmetic` and `DistSteps`.

`SlaveStateProofs` proves `TypeOK`, `CachedStateIsTrue`, `RequestsAreAllowed` and
`FailureMeansRefusal`, for any sequence of calls.  `CallInv` adds what holds in the
middle of a call: the request is pending and the event bit clear, or the slave has
answered and is in the new state, or in the old one with an error.

`CANopenSdoProofs` proves `TypeOK`, `FinishedCallsTookEffect`,
`CallsLeaveNothingBehind` and `RequestIsNotOverwritten`, for any objects and values,
from the assumption that the two entries SetInputPDO writes are different objects.
`ProgramInv` says that the calls of a program, made and still to make, are about
different objects, `ShapeInv` how many they are;
`CallInv` where the request of the call under way is (in the drive's mailbox, at
the drive, or answered) and that an answer is about it; `MailboxInv`, which holds
also when something disturbed the mailboxes, that a request is written into an
empty one.  The refinement `ImplementsTransfer` follows from `CallInv`: Serve maps to
CarryOut, or to a stutter when the drive aborts; ReadMailbox to Return or Fail; an
exception to Fail, because before the write there is nothing to carry out and after
it the mailboxes count as disturbed; everything else to a stutter.

`EtherPacketProofs` proves all properties of `packet_frames`.  `EveryDatagramIsServed`
holds for any number of controllers, any ring and any lengths.  `FillInv` says that the
datagrams of a packet are numbered, so that none is in it twice, and that the M bit is
missing from the last one only; `FrameInv` that the frame holds copies of them.
`FrameFits` and `AnnouncedLengthIsSent` have a hypothesis about the callers,
`LoadFits`: the datagrams of the controllers, and as many of the longest request as may
wait at a time, fit into the payload array, which the code nowhere checks.  The sum of
the lengths is not a function of the state there, which would need induction:
`LengthInv` says that there are places where the datagrams end, one length after the
other, that the last is `payloadPtr`, and that the copying has come to one of them.

`FlexDriveProofs` proves all properties of `drive_axis`, for any positions, velocities
and limits.  At whatever moment the application commands: `SilentDriveHasNoStatus`, from
`PayloadInv`, which follows the status from the frame to the object;
`RestsWhenDone`, from `RestInv`, by which only an arrival sets `done` after
PositionSetpoint, and clears the velocity before the thread looks at `done` again;
`MovesEndAtSetpoint`, from `ArrivalInv`, what the two comparisons know of the setpoint
in force; `SetpointOnWire`, from `WireInv`, by which the first pass begun after the
command computes from that command's members alone.  For a patience of three or more:
`LadderOnWire`.  A drive told to switch off does so after one frame, says so in the
second, and EnableOperation reads it in the third (`Frames`, `LadderInv`).

`FlexMasterProofs` proves all safety properties of `master`, for any number of axes,
any stop, and any number of moves and troubles: `TypeOK`, `OperationalIsServed`,
`AllAtStop`, `NobodyLeftMoving`, `ExceptionsHaveACause` and `OutputsOffBeforeInit`.  They
are about the whole program at once, and so is the invariant.  `ThreadInv` says at
which of main's places the cyclic thread exists and how many controllers it has;
`ProgressInv` and `ConfigInv` how far each slave has come, as its object knows;
`CallInv` what the slave has made of the ChangeState under way, datagram by datagram,
or, with an error, not made of it;
`DriveInv` that a slave outside OP has taken its outputs back.  `LiftInv` is for
`AllAtStop`: until every axis was seen at the stop no velocity, frame or output is
downward, and "pressing" is seen only there.  `OffInv` is for `OutputsOffBeforeInit`:
the control words of SwitchOff are in every frame from the first answer of Teardown on
(`PastFirst`), and no slave is asked to leave OP before that.  `ReadyInv` is for
`ExceptionsHaveACause`: without a trouble every slave answers, goes where it is asked
to or, found in INIT with an error, ignores every request, and a drive that showed it
is ready still is.  The lemma `Deaths` lists where
an exception can end the process and what is known there; `NobodyLeftMoving` follows
from it.

`SlaveUnitsProofs` proves all properties of `units_any`, for any addresses, lengths,
fields and values.  The invariants are inductive together with
the types of the records (`Knowledge`): each setter is guarded by the copy of the
enable bit, so it is the truth of the copy that protects an active FMMU.

`SlaveBusProofs` proves `TypeOK` and `ObjectsDoNotShareAddresses` for any number of
slaves and any width of the address field that holds them, and
`AccessReachesOwnSlave` under the hypothesis `Managed = OnBus`.  The code only
throws when there are fewer slaves than expected; a slave beyond the managed ones
keeps the address of an earlier process, which may be one the master gives out.
The FlexPicker's bus has just its three drives.  `OrderInv` says how far the
renumbering is, `AddressInv` that a slave which was given an address has it or
lost its power; `PositionIsUnique` is the arithmetic of the auto-increment field.

Only model-checked: liveness, because fairness and ENABLED are out of the prover's
reach.  That is `EveryFutureResolved`, `StopReturns`, `CallOnListeningSlaveReturns`,
`CallsEnd` and `MainEnds`.  The findings are counterexamples, which TLC gives.

## Not modelled

* Kinematics: floating-point trigonometry without state.  MoveTo calls `inversekin`;
  in `FlexMaster` its result is any angles the arm can reach, zero among them, which
  `inversekin` returns for an axis it finds no solution for.
* `PositionController`: constructed nowhere, and written against an earlier
  interface of the manager.
* `ReadEEPROM`, `WriteBuffered`, `ReadBuffered`: no caller.  AL state BOOT: no
  caller asks for it.
* Frames of other senders.  `Link` binds its socket with `ETH_P_ALL` (`link.cpp:16`),
  so every frame on the interface, the host's own traffic included, comes to it, and
  `Packet::SendReceive` would take any for the reply, copy it over the frame it sent
  and go on with the headers it finds there.  The modules assume that nothing else
  travels on the interface.  The code neither checks nor enforces this; without it
  nothing could be promised.
* The socket calls of `Link`, the threads' scheduling policy, the clock.
* Torque other than "presses against the stop", scaling factors and doubles, which
  are replaced by deadbands; the layout of bytes in mailbox and SDO messages.
* The values of the slave's registers beyond those named in the modules
  (distributed clock, DL control); `ClearClock` is an access that may throw.
* Code that is commented out, most of `send_test.cpp` from line 158 on.

## Plan

1. An abstract specification of an axis (told to move, moving, at rest), implemented by
   `FlexDrive` except for setpoints stored in the window of `overlapped` and velocities
   that meet an interpolation.
2. One of a slave's ChangeState, implemented by `SlaveState`; then the calls of
   `FlexMaster` shown to be that specification's, slave by slave.
