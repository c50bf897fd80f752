# A verification development for Mousinator

Mousinator is a two-axis (PAN/TILT) camera mount: firmware for an STM32F103
that drives two stepper motors through TMC2209 drivers and obeys a line protocol
over USB CDC, and Raspberry Pi host code that talks to it, serves the camera and
runs a detector. A set of tools prepares the images the detector is trained on.
This directory holds TLA+ models of the parts whose correctness
depends on interleavings, failures and order, the TLC configurations that check
them on small instances, and TLAPS proofs for every value of the constants.

Source paths below are relative to the repository; `PROJECT.json` gives, for
every definition, the lines it translates, and lists the hazards with the
properties that would catch each of them.

Sections: 1 inventory, 2 modules, 3 properties and runs, 4 bounds, 5 fairness,
6 proofs, 7 behaviours worth knowing, 8 what is not modelled, 9 plan.

## 1. Inventory

### 1.1 Firmware

**Axis motion** (`src/motion.c`). State, per axis: position, target, velocity,
phase accumulator, command lease, `enabled`, `moving`, `disabling`, `timeout`,
direction. Operations: velocity command, enable, stop, disable request, the
1 kHz control tick (lease, ramp, end of a disable), the 20 kHz scheduler tick
(phase, step), commit of a step. Correct when the ramp reaches its target
exactly and passes through rest before the direction changes, when no target
outlives its lease, and when the position counts exactly the emitted edges.

**Tilt reference** (`src/tilt_reference.c`). State: the operation (none, homing,
jogging, direction check), the homing phase and status, steps in the phase,
steps a jog still owes, the endstop qualification, `homed`, `min_limit`, a
pending disable request. Operations: home, jog, direction check, the 1 kHz tick,
admission of one step, stop, disable, driver fault. Correct when homing commits
a bounded number of steps in each phase and ends, when a referenced axis is
never counted below its switch, when no edge goes into the pressed switch, and
when every way to power the axis down also loses the reference.

**Motion controller** (`src/motion_controller.c`). State: the two axes, the
reference, the divider from 20 kHz to 1 kHz, and the EN and DIR pins behind
`src/stepper.c`. Operations: the TIM4 interrupt and every host command; each
command masks the interrupt. Correct when whatever a command leaves behind is
right for the very next interrupt.

**Driver control and TMC2209** (`src/driver_control.c`, `src/tmc2209.c`). State,
per driver: state, error, configuration valid, fatal, last register values,
diagnostics. Operations: probe, configure, status refresh; register reads with
retries and writes verified by IFCNT and a read-back. Correct when a driver that
counts as configured holds its settings, when a reset is found, and when every
call ends.

**TMC UART** (`src/tmc_uart.c`). State: the USART3 half-duplex link and its
diagnostics. One operation, the exchange, with a timeout and a recovery.

**Protocol** (`src/protocol.c`). State: the line buffer with its oversize and CR
flags. Operations: line assembly, dispatch, replies. Correct when every line has
exactly one reply with the right verdict.

**USB serial, main loop** (`src/usb_serial.c`, `src/main.c`). State: the RX and
TX rings, the NAK flag, the configured flag. Operations: poll, the endpoint
callbacks, enumeration, read, write. Correct when no byte or reply is lost or
reordered and the port never stays deaf.

### 1.2 Host

**Host client** (`host/sentry_mcu.py`). State: the serial port, and what is still
on its way in both directions. Operations: one command and one reply line at a
time, with a write and a read that give up and a flush between them that does not;
single actions; motor tests that query, enable, home, move, stop and disable.
Correct when a motor test acts only on replies to its own requests, ends, and leaves
its axes released whatever fails.

**Vision service** (`host/vision/*.py`). State: enabled, shutdown, a generation
counter, the published snapshot, an error, the detector, the tracking state
machine; one worker thread; a state lock with a condition and a model lock.
Operations: start, enable, disable, close, and the worker's frame. Correct when
nothing stale is published, the last switch wins, no notification is missed, and
the tracking state follows the target.

**Camera service and backend** (`host/camera/camera_service.py`,
`picamera2_backend.py`). State: running, shutdown, recording and its path,
dataset capture, the MJPEG and the recording encoder, a JPEG buffer; one worker
thread; an operation lock and a state lock with a condition. Operations: start,
close, frame, picture, start and stop of recording and of interval capture.
Correct when stopped capture stays stopped, a recording is not split by a mode
switch, the stream comes back after a still picture, and close releases all.

**Capture storage** (`host/camera/storage.py`). State: JPEG files, their `.part`
files, a CSV table. Operations: check the free space, allocate a name, save a
capture. Correct when no capture is overwritten and the table lists only captures
that exist, also after a kill between any two steps.

**HTTP server** (`host/camera/stream_server.py`): no state of its own; forwards
requests on threads, starts and closes both services. **Detector**
(`host/vision/detector.py`): a wrapper of an external neural network.

**Data-set tools** (`tools/*.py`). State: the files they hand to one another: the
manifest of an archive, the raw and the clean images, the near-duplicate report,
proposed and corrected labels, the decisions of a person, the final labels and
the training set. Operations: prepare and download, a first review, clean-up,
automatic labelling, review, box correction, final labels, division into parts;
each may be stopped at any point and run again. Correct when the pool has one
licensed, whole image per observation, edits and decisions stay with their image
and are not lost, a final label is an approved one, and near duplicates never
straddle the parts.

**Training and experiments**: stand-alone scripts.

### 1.3 Interactions

- The main loop runs one command at a time to its end. The TIM4 interrupt
  preempts it everywhere except inside a `motion_controller_*` function. Both
  share the axes, the reference and the pins.
- The endstop is an input that may change between any two instructions.
- Only the main loop touches the drivers. A register access takes milliseconds,
  during which the interrupt runs, and the chip may reset on its own.
- USB hardware moves packets at any time; the firmware looks at it by polling.
- The host may fall silent, resend, reconnect, or send a command in any state.
- The utility writes a request, flushes and reads one line. Requests wait in the port
  until the board takes them, and lines until the utility reads them. Neither survives
  a lost cable, the lines no new session; and a port that is closed waits for the
  board only so long before it drops what is left.
- HTTP threads, two workers and the main thread share the host services; the
  slow operations (camera, detector, model loading) run outside the state locks. A
  save runs under the camera's operation lock.
- The data-set tools share files only; a person runs one at a time.

The hard behaviours are therefore interleavings (interrupt and command, worker
and caller), state read in one critical section and used in the next, failures
half way through a sequence, lost or repeated register writes, lease and retry
timeouts, late replies, full queues, kills and interruptions between the writes of
files that belong together, and restarts on what they left.

## 2. Modules

| module | models | state and actions |
|---|---|---|
| `AxisMotion` | `motion.c` | no variables: an axis is a record, an operator is the axis after one C function returns |
| `TiltReference` | `tilt_reference.c` | the same for the reference together with the TILT axis |
| `DriverDevice` | what the firmware knows of a driver | the sets of outcomes a probe, refresh or configuration may have |
| `MotionController` | `motion_controller.c`, the DRIVER handlers of `protocol.c`, pins | variables `axis`, `ref`, `sub`, `pinEn`, `pinDir`, `dev`, `main`, `endstop`, `host`, `pulse`; actions `Tim4Isr`, one per host command, one per step of a DRIVER handler |
| `MotionProperties`, `MCMotion` | | its properties; values for TLC |
| `DriverCalls` | abstract | one driver, one call per step, with the outcomes of `DriverDevice` |
| `Tmc2209` | `tmc2209.c` over `tmc_uart.c` | a call is a script of register accesses, one access or failed attempt per step; the chip counts, forgets and resets |
| `LineProtocol` | `protocol_receive` | pure line assembly |
| `SerialLink` | `usb_serial.c`, `main.c`, `LineProtocol` | rings, NAK, endpoint buffers; one action per callback and per step of the main loop |
| `Tracking` | `tracking_state.py`, `target_selector.py` | pure selection and transition |
| `TrackingService` | abstract | what a client of the vision service was promised: switch, reset, one frame at a time |
| `VisionService`, `MCVision` | `vision_service.py` | callers in `enable`, the worker, the main thread; one action per stretch between locks, waits and slow calls |
| `CameraService` | `camera_service.py`, `picamera2_backend.py` | callers, worker, main thread; who holds `_operation_lock`, and both encoders |
| `CaptureStorage` | `storage.py` | the files and the step of the save under way; one action per file operation |
| `CameraMedia` | `CameraService` with `CaptureStorage` | a save begins and ends with the picture of the thread that holds the lock; `Kill` restarts the process on its files |
| `MotorBoard` | the board as the host sees it (`protocol.c`, `motion_controller.c`, the drivers) | pure: each request's outcomes, a new board and a reply; a driver is READY, UNSURE or LOST |
| `HostScripts` | the actions of `sentry_mcu.py` | pure: a script is a sequence of requests, each with what it expects and the `finally` block it stands in |
| `HostClient`, `MCHost` | one session after the other | the client at a step of its script, the port, requests and lines under way, a cable, Ctrl-C |
| `DatasetFiles` | what the tools share | the files, the tool that runs, its list |
| `ImagePool` | `collect_mouse_positives.py`, `review_mouse_positives.py`, `cleanup_mouse_positives.py` | manifest, downloads, moves, union-find |
| `Annotation` | `auto_label_mouse.py`, `review_mouse_annotations.py`, `correct_mouse_boxes.py` | proposals, decisions, the box editor |
| `TrainingSet` | `build_final_mouse_labels_v2.py`, `build_mouse_yolo_v1.py` | final labels, `choose_split`, parts |
| `Dataset`, `MCDataset` | the tools together, with interruptions | beginnings: the files of an earlier day |
| `*Proofs` | | section 6 |

Composition: `MotionController` is the product of two axes, the reference and
two drivers. It takes driver calls atomically per driver; that is justified by
`Tmc2209`, which implements `DriverCalls` (property `CallsImplemented`, theorem
`RegistersImplementCalls`) and `DriverCalls` has exactly the outcomes of
`DriverDevice` that `MotionController` uses. `SerialLink` feeds bytes to
`LineProtocol`. `VisionService` implements `TrackingService`. `CameraMedia` joins
the steps of the service with those of the storage; the place `SAVING` of a thread
is the interface. `HostClient` runs `HostScripts` against `MotorBoard`, which has
the outcomes of the firmware's commands, whole and in one step each, since the
main loop serves one command at a time; ramps and homing end on their own later.
A driver there has one of three classes: READY as `driver_control_ready` says it;
UNSURE, with a valid configuration but an access that failed or a fatal status, so
that a later DRIVER? may find it ready without a configuration; and LOST. A DRIVER?
shuts the axis down for a fatal status or a first sight of a reset only, so after a
failed access the host reads NOT_READY of an axis that is enabled and may move. That
the classes leave out nothing `DriverDevice` allows is the theorem
`BoardKnowsDrivers`. A request is in the port (`untaken`), then with the board, then
answered. `Write` puts it there, `WriteTimesOut` raises with or without having done
so, and no line is read before the port is empty (`Flushed`).
`Dataset` composes the three stages over `DatasetFiles`; `sound` remembers which
outputs come from a build that ended by itself.

Conventions. A refused command that changes nothing is a stuttering step and not
an action. A comment `mutant:` marks an alternative form of a definition, used
only to see that a property notices the difference. Variables whose comment
says `history` record the past for a property and never influence a step.

## 3. Properties and runs

`TypeOK` is checked by TLC for the motion controller and proved (section 6) for it,
for both services and for the data-set tools. Names joined below with "of" are
conjunctions whose parts the modules define and comment one by one.

| run | configuration | question |
|---|---|---|
| `tilt` | `Tilt.cfg` | TILT, with PAN beside it, and healthy drivers: homing, jogs, velocities, VEL BOTH, stops and disables against a switch that may change between any two interrupts |
| `commissioning` | `Commissioning.cfg` | the uncalibrated build with both axes: direction checks, DRIVER CONFIGURE, and PAN over the whole, wrapping position range with a failing driver |
| `liveness` | `Liveness.cfg` | a silent host, disables, homes and a fatal TILT driver come to an end, and leave neither motion nor reference |
| `unpowered` | `Unpowered.cfg` | finding: an enabled axis stays unpowered (section 7) |
| `registers` | `Registers.cfg` | one driver over an unreliable wire |
| `masked_reset` | `MaskedReset.cfg` | finding: a reset during DRIVER CONFIGURE is lost (section 7) |
| `serial` | `Serial.cfg` | rings, NAK, re-enumeration, lines and replies |
| `vision` | `Vision.cfg` | two callers, the worker and the closing main thread |
| `camera` | `Camera.cfg` | two callers, the worker, the closing main thread and the files, with failures, a kill and a restart |
| `recording` | `Recording.cfg` | finding: a recording that nothing writes (section 7) |
| `host` | `Host.cfg` | two sessions of the utility, any script, with a port that does not empty, writes that time out, late and partial replies, drivers that fail and recover, a lost cable and a Ctrl-C |
| `dataset` | `Dataset.cfg` | all tools in any order, interrupted anywhere, from eight states of the files |

What the properties say:

- **Motion, safety.** `NothingOutlivesPower`, of `DisabledAxisIsInert` (nothing of
  a motion or an operation survives a disable) and `ReferenceNeedsPower`.
  `ReferenceIsKept`, of `HomedNeverBelowZero`, `HomingIsBounded` and
  `MinLimitReportsZero`. `NoEdgeIntoSwitch`. `LeaseCoversEveryCommand`: no host
  target without a lease. `PinsFollowAxis`: EN and DIR agree with the firmware's
  belief at every interrupt. `FaultedAxisIsStopping`: after a DRIVER command an
  axis with a lost or fatal driver is off or going off.
  `ConfiguresOnlyInactiveAxes`: although the checks and the rewriting are separate
  critical sections.
- **Motion, steps.** `ReversalPassesThroughRest`, `PositionCountsEdges`,
  `JogAccountsEveryStep`.
- **Motion, liveness.** `HostLossStopsMotion`, `HomingEnds`, `PowerDownCompletes`
  (of `DisableCompletes` and `FaultedAxisPowersDown`).
- **Registers.** `ConfiguredMeansWritten`, `ProbeChangesNothing`, `ResetIsFound`,
  `CallEnds`, `CallsImplemented`.
- **Serial.** `InOrder` (of `BytesInOrder` and `RepliesInOrder`), `HostIsHeard`.
- **Vision.** `EnabledIsHealthy`, `SwitchesHold` (of `NothingStale` and
  `DisableWins`), `TrackingImplemented`, `NobodyWaitsForEver` (of `CloseReturns`
  and `EnabledIsServed`).
- **Camera.** `NothingAfterStop`, `RecordingIsUnsplit`, `StreamIsRestored`,
  `CloseReleases`, and `MediaIsKept`, of `OneSaveAtATime`, `NothingOverwritten` and
  `TableTellsTruth`.
- **Host.** `EnableInSync`: a motor test sends ENABLE only when every earlier
  request is served and every reply read, although the session began with up to
  three replies still due. `RestIsReal`: when `wait_for_stop` believes a report of
  rest, the axis rests. `ReleasedAtExit`: after a motor test each of its axes is
  off, going off, or has a DISABLE on its way that nothing overtakes. It leaves out
  only a lost cable and the axes of `abandoned`: those whose DISABLE was still in the
  port when its write timed out or a Ctrl-C came, and those of a dual test whose
  cleanup a Ctrl-C hit. `SessionEnds`, if the board goes on taking what it is sent.
- **Data set.** `PoolIsClean` (of `OneLicensedImageEach` and `CleanIsCleaned`),
  `NoLeakBetweenParts`, `DividedAsAsked`, `EditsStayOnImage`, `FinalIsApproved`,
  `DecisionsAreKept` (of `CorrectedHasLabel` and `DecisionSurvives`).

Deadlock is checked in all runs but five: the services of `vision`, `camera` and
`recording` stop once they are closed, the last session of `host` may be over with
the cable lost, and in `dataset` a person may find nothing left to do.

## 4. Bounds

**Motion.** Velocities are a few units and a step needs `SchedFreq` units of
phase; with `SchedFreq` 2 or 4 and velocities up to 3 a step takes one to four
interrupts, so ticks with and without a step, carried remainders and several
steps between two control ticks all occur. `TicksPerControl` is 2 where the
code has 20: one interrupt between two control ticks is enough for a step, a
switch change or a command to fall there. `LeaseTicks` 2 lets a lease run,
be renewed on its last tick, and end. `Delta` (the ramp's change per tick) is
below the maximal velocity, so ramps take several ticks; with `Delta` 2 and
velocity 3 (`tilt`) the last one is shorter. Step limits of the homing phases,
jogs and `StableTicks` are 1 to 3: each is reached, with steps to spare and
exactly.

`PanRange` and `TiltRange` bound what the *host* does: it drives an axis away
from zero only while its position is below the range. The axis itself ramps down
beyond that, and homing and jogging are bounded by the code. `TiltHorizon` is the
one bound on the interrupt: TILT never counts to an end of the position range,
which stands for 2^63 steps at 5 kHz; it is never met, because it was checked to be
an invariant of the three passing motion configurations (positions -100..100 in
`tilt`, -8..8 in `liveness`, -3..3 with `TiltRange` 1 in `commissioning`). PAN's
position does wrap: in `commissioning` it runs over the whole range -3..3. `HostVelocities`
holds both directions (and zero in `tilt`); `HostAxes` restricts a run to TILT where PAN would only
multiply states, since the axes share nothing but the interrupt and the main
loop. `commissioning` affords both by the smallest ramps and step limits. VEL BOTH needs a
homed TILT and so belongs to `tilt`, where `PanRange` 0 keeps PAN powered but at
rest; that both axes move at once is left to `commissioning` (with direction checks)
and to the proofs.

**Registers.** `Attempts` is the code's 3. `IfcntModulus` is 4 instead of 256: it
has to exceed `Attempts`, so that repeated writes cannot look like one, and as a
script of seven writes follows a probe of two the counter wraps in every call.

**Serial.** A line buffer of 2 (one character and its end), RX ring 3, TX ring 4, packets
of 2, a reply of 3: all relations of the real sizes (64, 256, 512, 64, and a
reserve of 400) hold, a packet may not fit, two replies never do, and a reply needs two
packets. Bytes are the four classes the parser tells apart.

**Vision.** `GenerationBound` 5 stops callers from switching for ever (an action
that would pass it is disabled, except close); it leaves room for disable,
enable, disable, enable in one inference. Two callers; four frames in which the best
detection is first, last, too uncertain, or of another class than the target,
inside the dead zone and outside it.

**Camera.** Two callers and the worker allow one to hold the operation lock, one
to wait and one to switch. `MaxFiles` 2 lets a save find a name taken and the disk
full; `MaxKills` 1 restarts the service once on the files of a killed one.

**Host.** `MaxSessions` 2: what a session leaves on the wire meets the next one.
`MaxPolls` 1: a poll or refresh that is repeated, and a deadline that passes.
`MaxInterrupts` 1 Ctrl-C in each session. All scripts, on both axes where they
differ, from every class of either driver. 1.6 million states in about two and a half
minutes. `EnableInSync` and `RestIsReal` speak of motor tests that begin with at most
three replies due: the query phase of a motor test notices those by a reply that does
not parse. Four can pass for its answers, when they were left by two requests of any
kind and two `driver` queries, which takes four sessions that each lost a reply. Plain
actions do not ask and are spoken of only with none due (section 7).

**Data set.** Six photographs: one observation with two, one without a licence, a
chain of two near duplicates, an exact copy. `MaxImages` 2 stops a download before
the list does, `Retries` 1, `MaxBoxes` 1 (box or no box), `UndoDepth` 2 is reached.
The pipeline is cut into stretches of work (`job`) with eight beginnings, each a state
of the files the tools before it can leave: a new archive; its pool, one file cut
short; two clean images, whole or one cut short by an interruption; two proposed
labels; and pools of four reviewed images of which all, one or none show mice. 0.55
million states.

The proofs of section 6 hold for every value the assumptions allow; the bounds
only concern what is model-checked alone.

## 5. Fairness

- `MotionController!FairSpec`: `WF_sub(Countdown)`, the timer interrupt recurs
  (it is masked only for bounded critical sections and has no way to stop);
  `WF_vars(DriverHandler)`, the main loop finishes a DRIVER command. No fairness
  for the host or the endstop. `HomingEnds` assumes that the switch stops
  chattering (`EndstopSettles`); `HostLossStopsMotion` does not.
- `Tmc2209`: `WF(Access)`, the code goes on with the script. Success is not
  assumed: attempts may fail for ever.
- `SerialLink`: `WF(MainLoop)`, a `while (true)`; `WF(HostReads)`, the host
  drains its replies, without which the reserve rightly stops the reading.
- `VisionService`: `WF(Worker)`, `WF(Joined)`: threads are scheduled, the camera
  and the detector answer or raise. `CameraService`: `WF(Worker)`, `WF(Release)`,
  `WF(Answer(c))` for each caller: the same, and in `CameraMedia` `WF(StorageStep)`: a file operation ends or raises.
  Nothing is fair after a kill but the new process. Weak fairness of the lock's users
  is enough because no caller is assumed to send requests for ever: nothing is
  promised about a request that waits behind others, only about close.
- `HostClient`: `WF(Client)`: the utility is scheduled and its writes and reads time
  out. The board and the cable are not fair: the board may stay silent for good and
  take no more packets. In that case `flush()` does not return, so `SessionEnds` has
  the hypothesis `[]<>(untaken = 0)`, that time and again the port gets empty; without it
  TLC shows a session that starts, writes PING and waits for ever. `Dataset` has no
  fairness, as a person may leave any tool open.

## 6. Proofs

All proofs are checked by TLAPS to the last leaf. Constants are restricted by
the named assumptions of the modules that declare them: velocities no greater
than the scheduler frequency (otherwise two steps per interrupt would be due), a
ramp step `Delta` below it, positive leases and step limits, `PositionMin < 0 <
PositionMax`, `Park < PositionMax`, `IfcntModulus > Attempts`, a packet that fits
the RX ring, a longest reply that fits the TX ring, thread names that differ.
The compiled-in values satisfy all of them.

| module | theorem | argument |
|---|---|---|
| `MotionProofs` | `TypeCorrect` | each operator keeps the type of an axis and of the reference; one lemma per action |
| | `SafeAlways`, and from it `NothingOutlives`, `LeaseCovers`, `PinsFollow`, `FaultedStops`, `ConfiguresInactive` | the invariant `Safe` |
| `ReferenceProofs` | `LawfulAlways`, and from it `ReferenceKept`, `NeverIntoSwitch`; the action properties `ReversesAtRest`, `CountsEveryEdge`, `JogAccounts` | the invariant `Lawful`, beside `Safe`; what each C function does to position, velocity and reference |
| `RegisterProofs` | `RegistersImplementCalls` | the refinement of `DriverCalls`, with `CallInv` |
| | `TrafficAlways`, and from it `ReadyIsWritten`; the action properties `ResetsAreFound`, `ProbesAreHarmless` | the invariant `Traffic`, beside `CallInv` |
| `HostProofs` | `HostInvAlways`, and from it `TestsReleaseAxes` | the invariant `HostInv`; facts about the scripts and the board |
| | `BoardKnowsDrivers` | case analysis of `DriverDevice` between two calls |
| | `SyncInvAlways`, and from it `RestsAreReal` (`RestIsReal`) and `EnablesInStep` (the action property `EnableInSync`) | the invariant `SyncInv`, beside `HostInv`; the order of the steps of a script, and what each line of the stream can be |
| `SerialProofs` | `LinkIsInOrder` | the invariant `LinkInv` |
| `VisionProofs` | `Healthy`, `LastSwitchHolds`, `ImplementsTracking` | `TypeOK`, `GenerationsAgree`, `LoadsAgree`, `TrackingAgrees` |
| `CameraProofs` | `StopIsFinal`, `Unsplit`, `StreamReturns`, `PicturesAreKept`, all of `MediaSpec` | `TypeOK`, `LockAgrees`, `EncodersAgree`, `QuietAgrees`; `StorageInv`, `SaveAgrees` |
| `DatasetProofs` | `TypeCorrect`, `PoolStaysClean`, `EditsAreOfImage`, `DecisionsStay`, `FinalLabelsAreApproved` | `TypeOK`, `PoolInv`, `DecisionInv` |
| | `NoGroupIsParted`, `ProportionsAsAsked` | the invariant `SplitInv`, beside `PoolInv`; what the union-find and the division compute |

Why strengthenings are needed:

- `Safe` joins the motion properties, which lean on each other. That a disabled
  axis stays inert through a tick needs a disabling axis to have no target and no
  lease; the pins follow only if DIR agrees with the direction an *enabled* axis
  remembers, also at rest; a reference needs power only if no disable request is
  pending; and `MainSafe` remembers where the main loop is: what it has checked
  stays inactive, because the interrupt cannot wake a disabled axis, and a fault
  it has found is being acted upon.
- `Lawful` relates what `Safe` says nothing of: the state of the tilt reference and
  the position and velocity of its axis. That a referenced axis stays above zero
  needs a downward jog to have room for every step it owes and to turn one way only
  (`JogLawful`); that HOME ends at `Park` needs a parking axis to stand where it has
  counted (`ParkLawful`); MIN_LIMIT is right only if every change of the position
  refreshes it (`ZeroLawful`); and that one tick emits no edge after the switch has
  placed the axis needs an empty accumulator at rest (`Rested`). What an edge did
  cannot be read off the state, so `NoEdgeIntoSwitch` joins the invariant itself. The
  action properties follow from it step by step: an edge is committed in the
  direction the velocity had when the switch was looked at.
- `CallInv` says, by its part `Progress`, how what the firmware believes at each
  point of a script relates to what it believed when the call began: without it
  the one visible step at the end of a call could not be matched with an outcome.
- `Traffic` is about one write of the script: `Written` says that the settings
  checked so far are in the chip, and how far IFCNT has come since it was read before
  the write. Each attempt that the chip took has advanced it by one, so an IFCNT that
  shows one more is the proof of a write, also when its reply was lost: the bound
  `IfcntModulus > Attempts` is what keeps the counter from coming round. `Latched`
  keeps a reset visible until a configuration clears it, `Reported` carries it from
  GSTAT to the end of a status read, `ValidHolds` says what a valid configuration
  stands for between the calls, and `Restores` what the probe owes GCONF when it has
  inverted it. A reset in the midst of the writes drops `Written` and is what the
  exception `hidden` of the property is for.
- `HostInv` says that an axis a test is in charge of has its disable ahead of the
  session, or is left to be released already. It rests on a fact about the scripts
  (`Scripted`): they are put together from pieces whose zones only grow, and one with
  a try block disables each axis of it at a place that is the first of a later zone,
  so an exception cannot jump over it. `Releases` is that fact for one axis. The
  other half is about the board (`Serving`, `Ending`): only ENABLE, HOME and DIR-CHECK
  arm an axis that is off or ramping down, so what stands in the queue decides.
  A session that is past its DISABLE must have one that the board has taken (`Firm`,
  `Taken`), since a closed port drops the rest: it has flushed, or the axis is in
  `abandoned`.
- `SyncInv` is about the lines that are still due, read or not yet served. No line says
  which request it answers, so neither property is inductive: an old snapshot may stand
  at the head of the stream long before a step believes it. `Sound` says where a session
  stands. It is in step (`InStep`) when what is due is the answer it waits for, and at
  most the rest of one line before it. It is out of step in three ways, and for each
  the script decides why no harm comes of it. `Awry`: a query of a driver is asked
  while the next line cannot be a driver's, so it raises (`QueriesAwry`); this is how
  the reply of a DRIVER CONFIGURE that was given up is found. `Early`: with at most
  three lines of earlier sessions ahead, PING, INFO and that query take them up one by
  one (`EarlyReads`), which is why the properties say `late <= 3`. `Stale`: after a line
  given up in the try block, the STOP of the cleanup takes the line, and the poll for
  rest finds the answer to the STOP, no snapshot (`StaleReads`). `Allowed`
  and `Follows` are the facts about the scripts this needs, carried through the pieces
  they are put together from (`ScriptsPaced`): ENABLE only before the try block, after a
  READY a query of a driver, a poll for rest in the cleanup only after its STOP. About
  the board it needs that only a query of its kind gets a reply of that kind
  (`Replying`), and that a motion that ends disturbs no axis that stands (`EndsStand`),
  so the last line of the stream is true of the board as it is (`Truth`). A write that
  times out either leaves the stream or makes it longer by one line that nobody waits
  for, which is no more than a read that times out leaves behind (`WriteFailsInSync`).
- `LinkInv` adds to the two queue equations the types of the queues and that the
  history of the line the host types agrees with the firmware's line buffer
  (`LineAgrees`): only then is the verdict of a reply the one its line deserves.
- In `VisionProofs`, `GenerationsAgree` ties the worker's and the callers'
  remembered generations to the counter (an equal generation means that nothing
  was switched), `LoadsAgree` says who may load and what an enabled service has,
  and `TrackingAgrees` that the memory of the target and the published snapshot
  belong together, which the step simulation needs. The detector's frames are
  arbitrary sequences; that a frame with an eligible detection has a leading one
  is proved from the well-foundedness of the naturals.
- In `CameraProofs`, `LockAgrees` says that whoever is in a camera operation
  holds the lock, `EncodersAgree` that the backend records only while the service
  says so, and that a recording starts and a still picture is taken only while it
  does not, `QuietAgrees` that after a stop interval capture is off and no
  interval picture is in progress. `StorageInv` follows one save through its steps:
  which of the name, the `.part` file, the picture and the row exist at each of
  them, so that a kill anywhere leaves what the next save can live with.
  `SaveAgrees` ties the two machines together: a save is under way exactly while
  the holder of the lock is saving. Every step of `MediaSpec` is a step of the
  service, of the storage, or a kill, and a restart re-establishes the initial
  invariant of the service over any state of the files.
- In `DatasetProofs`, `PoolInv` adds to `PoolIsClean` what a tool half way through
  its list has done and will still do: the manifest and the list of a download hold
  only chosen rows, and the images copied by a clean-up and those still on its list
  are whole and pairwise no twins. `DecisionInv` relates, for each image, the
  decision, the approved label and the label file it was approved from, except for
  those the history `stale` names, and says that the editor which has saved a label
  has the label on disk before it writes the decision.
- `SplitInv` says that a report of a clean-up that ended gives near duplicates the
  same group, that a plan covers the clean images and parts no group, and that the
  images copied lie where the plan says. What it starts from are facts about folds:
  `NearGrouped` (kept images that are near duplicates get the same group) and
  `AssignmentWhole`, `AssignmentFills` (what `assign_groups` returns). The library's
  induction theorems cannot be applied here, so `FoldExists` builds the function
  behind a fold prefix by prefix, with a least counterexample in the place of the
  induction; `UnionFolds` and `DivisionFolds` unroll it into the list of intermediate
  results, along which `UnionJoins`, `PlansWhole` and `FillsExactly` carry what each
  step keeps (`UniteKeeps`, `PlaceParts`, `SendOne`). That single images fill the parts
  exactly rests on `ChoiceFills`: while images are left, some part is short of its
  target, and `choose_split` never takes one that is not.

Only model-checked: all liveness properties (`HostLossStopsMotion`,
`PowerDownCompletes`, `HomingEnds`, `CallEnds`, `HostIsHeard`,
`NobodyWaitsForEver`, `CloseReleases`, `SessionEnds`), because fairness is out of
the prover's reach. Every safety property that a passing run checks is also the
statement of a theorem.

## 7. Behaviours worth knowing

Findings, each with a run that reaches the state described:

- `unpowered`: README.md:345 promises that a transient UART error blocks ENABLE
  only temporarily. ENABLE of an *enabled* axis while its driver is not ready
  releases the EN pin (`motion_controller.c:133`) and leaves the axis enabled;
  after the recovery ENABLE answers OK without energising it again (line 138).
  Edges are then counted by a motor that is off.
- `masked_reset`: DRIVER CONFIGURE clears GSTAT after its writes without reading
  it (`tmc2209.c:644`), so a reset between two of the writes leaves a CONFIGURED
  driver with default settings and no trace.
- `recording`: when stopping the encoder raises, the backend drops its encoder
  but the service keeps `_recording` and the path (`camera_service.py:193-197`);
  a repeated start returns the old path and records nothing.

Met while modelling, without a run of their own:

- ENABLE during a disable answers OK, and the axis is disabled all the same.
- A chattering endstop keeps HOME RUNNING without emitting steps, and a negative
  jog against a switch that stays pressed never ends by itself.
- When stopping the MJPEG encoder itself fails (`picamera2_backend.py:180`, before
  the `try`), the stream stays off until the next still picture.
- A `StorageLow` of the worker may revoke a start of interval capture that was
  made between the failure and its handling.
- README.md:1219 says that an MP4 is finalized before the worker is closed; `close`
  joins the worker first and then stops the recording.
- `flush()` in `command` (`sentry_mcu.py:188`) has no time limit, though the write
  before it and the read after it have. A board that stops taking packets, with
  interrupts running on, holds the utility there: a motor test then neither ends nor
  disables its axes, and only the lease of the velocity stops them. A Ctrl-C gets it
  into the cleanup, whose STOP waits in the next flush.
- Host client. `ENABLE` stands before the `try` of a motor test: when its reply does
  not come in time, or ENABLE TILT of the dual test fails after ENABLE PAN, an axis
  stays enabled. The cleanup of the dual test takes an ERR for success, and a Ctrl-C
  in it skips what is left. `driver()` does not compare the axis of the answer with
  the one it asked for. A read that gives up in the middle of a line leaves the rest
  as the next line. The plain actions (`jog-tilt`, `velocity`, ...) have no query
  phase, so a reply an earlier session left can be taken for theirs.
- Storage. A kill, or a full disk, between the creation of `capture_metadata.csv` and
  its header leaves an empty table, and every later capture raises. A capture whose
  row could not be written stays as an unlisted file. The image is not synced before
  it is renamed: after a power loss it may have a name and no data. A failed `fsync`
  of the table may leave the row although the save raised.
- Labelling. `auto_label_mouse.py` rewrites its manifest with the images of this run
  only: after a resumed run the reviewer does not see the earlier ones, and after a
  run that skipped everything it sees none. With `--overwrite` an accepted decision
  stands on a label nobody saw. A save of a corrected label interrupted in the middle
  leaves an empty file, a valid "no mouse". `FinalIsApproved` leaves these images out
  by the history `stale`.
- Image pool. A rejected photograph is downloaded again by the next run of the
  collector. A transfer that ends early but after 1024 bytes is accepted and never
  repeated; the clean-up drops it. An interrupted clean-up leaves its old or a partial
  report, by which near duplicates can straddle the parts; `NoLeakBetweenParts` speaks
  of inputs that were built to their end (`sound`).
- Training set. Ratios without a test part can make its target negative: of three
  images at 0.5 and 0.5, `build_mouse_yolo_v1.py:88-91` asks for two, two and minus
  one, and gets two and one. `DividedAsAsked` speaks of targets that are not negative;
  those of the default ratios never are.
- `correct_mouse_boxes.py` lists only images that need correction, so that its way to
  skip those already corrected never applies; an image it cannot decode ends it.

## 8. Abstractions, and what is not modelled

- A driver error is one value, COMM, for every transport, CRC, IFCNT, read-back
  and version error: the code treats them alike. Diagnostic records and counters
  (`tmc_uart_diagnostics.c`) are left out: nothing is decided from them.
- Bytes of a TMC2209 datagram, CRC, current and microstep arithmetic are pure and
  have unit tests. An exchange is an attempt that succeeds or fails, where a
  failed write may have arrived; busy waits on USART flags are not modelled.
- The USB rings are queues; the one-packet buffers of the hardware keep an unread
  packet and refuse a second write (libopencm3, external). Descriptors and CDC
  control requests carry no state. After re-enumeration stale replies and a
  partial line survive, as in the code. A reply is its length and its line's
  verdict; the longest, DRIVER_DIAG, needs at most 390 of the 400 bytes reserved.
- Argument parsing and the wording of replies are left out; the host commands of
  `MotionController` are the parsed ones.
- Inference time, frame rates, status reports and `last_error` of the services
  are left out, except the vision error, which a property is about. The encoders'
  outputs are active exactly while the encoder exists. Consumers of the JPEG
  buffer are left out: each wait has a timeout and is followed by a status check.
- Host: a script's timing is only the choice between a reply, a poll and a timeout.
  Device discovery, argument checks and the wording of reports are left out. The
  board of `MotorBoard` takes every outcome the firmware may have in some state of
  drivers, switch and ramps, without their detail, which is `MotionController`'s; for
  the drivers this is proved (`BoardKnowsDrivers`), for the motions it is by reading. A
  request is far shorter than a buffer of the port, so no write is cut in two; the port
  is the operating system's and pyserial's (external). A driver that fails between two
  requests shows when it is next read, at a DRIVER? or a configuration, as in the code.
- Storage: a name stands for a time stamp and its counter, so that a full set of
  names is a full disk. Directories are there. A row of the table is written whole or not
  at all; one that a full disk cuts in the middle of a flush is not modelled.
- Data set: images are numbers, a body is absent, whole or cut, near duplicates and
  copies are relations on images; a label is its number of boxes, in the editor
  with the image they were drawn on. Scores, coordinates, hashes and drawing are
  left out. `choose_split` compares floating-point scores; the model compares the
  exact fractions, which may order two equal scores of groups larger than one
  differently. Ratios are whole tenths, and rounding is half to even, as in the code. The
  pairs are compared and the groups shuffled in some order, any order. The priority of the review
  queue leaves out the score and area of single boxes. No two tools run at once: each
  rewrites whole files from memory, so two would lose each other's updates. A failed
  removal of the old training set is not modelled.
- Hardware set-up (`board.c`, timers, clocks), the build, the detector, training and
  experiments have no concurrent or failing protocol worth a model.

## 9. Plan

Done in this order: motion core and its proofs; the register layer and its
refinement; the serial link; vision; camera; the host utility; storage with
restarts; the data-set tools; the proofs of every safety property. Left:
the exchange of `tmc_uart.c` byte by byte, with late bytes of an earlier reply.
