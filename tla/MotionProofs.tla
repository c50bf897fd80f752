---------------------------- MODULE MotionProofs ----------------------------
(***************************************************************************)
(* What MotionController promises for every value of its constants: first  *)
(* what the motion primitives and the tilt reference preserve (each maps   *)
(* an axis to an axis, a tilt to a tilt) and the type invariant; then the  *)
(* power, lease, pin and driver invariants.  None of these is inductive    *)
(* alone: Safe adds what the reference, the axes and the main loop owe one *)
(* another.                                                                *)
(***************************************************************************)
EXTENDS MotionProperties, TLAPS

-----------------------------------------------------------------------------
(* One axis.                                                               *)

\* An acceleration step between two allowed velocities is an allowed velocity.
LEMMA ApproachType ==
    ASSUME NEW a \in Axes, NEW c \in Velocities(a), NEW t \in Velocities(a)
    PROVE  ApproachVelocity(c, t) \in Velocities(a)
BY AxisAssumption DEF ApproachVelocity, Velocities, MaxVelocity

\* Zero is an allowed velocity, position and phase.
LEMMA ZeroType ==
    ASSUME NEW a \in Axes
    PROVE  /\ 0 \in Velocities(a) /\ 0 \in Positions
           /\ 0 \in 0..(SchedFreq - 1) /\ 0 \in 0..LeaseTicks
           /\ LeaseTicks \in 0..LeaseTicks
BY AxisAssumption DEF Velocities, MaxVelocity, Positions

\* The initial axis, and enabling any axis.
LEMMA InitialAxisType ==
    ASSUME NEW a \in Axes
    PROVE  InitialAxis \in AxisState(a)
BY ZeroType DEF InitialAxis, AxisState

LEMMA EnableType ==
    ASSUME NEW a \in Axes, NEW s \in AxisState(a)
    PROVE  EnableAxis(s) \in AxisState(a)
BY ZeroType DEF InitialAxis, AxisState, EnableAxis

\* The two stops, a disable request, a new position and an internal velocity.
LEMMA StopType ==
    ASSUME NEW a \in Axes, NEW s \in AxisState(a)
    PROVE  /\ Stop(s) \in AxisState(a)
           /\ ForceStop(s) \in AxisState(a)
           /\ RequestDisable(s) \in AxisState(a)
           /\ SetPosition(s, 0) \in AxisState(a)
BY ZeroType
DEF AxisState, Stop, ForceStop, RequestDisable, SetPosition

LEMMA VelocityType ==
    ASSUME NEW a \in Axes, NEW s \in AxisState(a), NEW v \in Velocities(a)
    PROVE  /\ SetInternalVelocity(s, v) \in AxisState(a)
           /\ ApplyVelocity(s, v) \in AxisState(a)
BY ZeroType DEF AxisState, SetInternalVelocity, ApplyVelocity

\* The control tick.
LEMMA ControlTickType ==
    ASSUME NEW a \in Axes, NEW s \in AxisState(a)
    PROVE  ControlTick(s) \in AxisState(a)
<1> DEFINE target   == IF LeaseExpires(s) THEN 0 ELSE s.target
           velocity == ApproachVelocity(s.velocity,
                                        RampTarget(s.velocity, target))
           lease    == IF s.lease > 0 THEN s.lease - 1 ELSE 0
<1>1. target \in Velocities(a)
  BY ZeroType DEF AxisState
<1>2. RampTarget(s.velocity, target) \in Velocities(a)
  BY <1>1, ZeroType DEF RampTarget
<1>3. velocity \in Velocities(a)
  BY <1>2, ApproachType DEF AxisState
<1>4. lease \in 0..LeaseTicks
  BY AxisAssumption DEF AxisState
<1>5. s.phase \in 0..(SchedFreq - 1) /\ 0 \in 0..(SchedFreq - 1)
  BY ZeroType DEF AxisState
<1>6. (velocity > 0) \in BOOLEAN /\ (velocity # 0) \in BOOLEAN
  OBVIOUS
<1> HIDE DEF target, velocity, lease
<1>7. ControlTick(s) =
        [s EXCEPT !.target    = target,
                  !.velocity  = velocity,
                  !.lease     = lease,
                  !.timeout   = s.timeout \/ LeaseExpires(s),
                  !.moving    = (velocity # 0),
                  !.phase     = IF velocity # 0 THEN s.phase ELSE 0,
                  !.positive  = IF velocity # 0 THEN (velocity > 0) ELSE s.positive,
                  !.enabled   = s.enabled /\ (velocity # 0 \/ ~s.disabling),
                  !.disabling = s.disabling /\ velocity # 0]
  BY DEF ControlTick, target, velocity, lease, AxisState
<1> QED
  BY <1>1, <1>3, <1>4, <1>5, <1>6, <1>7 DEF AxisState

\* The phase accumulator stays below one step, whatever the velocity.
LEMMA SchedulerTickType ==
    ASSUME NEW a \in Axes, NEW s \in AxisState(a)
    PROVE  SchedulerTick(s) \in AxisState(a)
<1> DEFINE phase == IF s.velocity = 0 THEN 0
                    ELSE IF SchedulerTickSteps(s)
                         THEN s.phase + Speed(s) - SchedFreq
                         ELSE s.phase + Speed(s)
<1>1. s.velocity \in Velocities(a) /\ s.phase \in 0..(SchedFreq - 1)
  BY DEF AxisState
<1>2. Speed(s) \in 0..SchedFreq
  BY <1>1, AxisAssumption DEF Speed, Velocities, MaxVelocity
<1>3. phase \in 0..(SchedFreq - 1)
  BY <1>1, <1>2, AxisAssumption DEF SchedulerTickSteps
<1>4. SchedulerTick(s) = [s EXCEPT !.phase = phase]
  BY DEF SchedulerTick, AxisState
<1> HIDE DEF phase
<1> QED
  BY <1>3, <1>4 DEF AxisState

\* A counted step stays in int64_t, by wrapping.
LEMMA CommitStepType ==
    ASSUME NEW a \in Axes, NEW s \in AxisState(a)
    PROVE  CommitStep(s) \in AxisState(a)
<1>1. s.position \in Positions
  BY DEF AxisState
<1>2. CommitStep(s).position \in Positions
  BY <1>1, AxisAssumption DEF CommitStep, Positions, AxisState
<1> QED
  BY <1>2 DEF CommitStep, AxisState

-----------------------------------------------------------------------------
(* The tilt reference.                                                     *)

TiltState == [ref : TiltRef, axis : AxisState("TILT")]

LEMMA TiltParts ==
    ASSUME NEW t \in TiltState
    PROVE  t.ref \in TiltRef /\ t.axis \in AxisState("TILT")
BY DEF TiltState

\* The internal velocities of the operations are allowed ones.
LEMMA DriveType ==
    ASSUME NEW t \in TiltState, NEW v \in Velocities("TILT")
    PROVE  Drive(t, v) \in TiltState
BY TiltParts, VelocityType DEF Drive, TiltState, Axes

LEMMA OperationVelocities ==
    /\ BackoffVelocity \in Velocities("TILT")
    /\ -FastVelocity \in Velocities("TILT")
    /\ -SlowVelocity \in Velocities("TILT")
    /\ PostHomeVelocity \in Velocities("TILT")
    /\ CheckVelocity \in Velocities("TILT")
    /\ JogVelocity \in Velocities("TILT")
    /\ -JogVelocity \in Velocities("TILT")
BY AxisAssumption, TiltAssumption DEF Velocities, MaxVelocity

LEMMA ForceStopTilt ==
    ASSUME NEW s \in AxisState("TILT")
    PROVE  /\ ForceStop(s) \in AxisState("TILT")
           /\ Stop(s) \in AxisState("TILT")
           /\ SetPosition(s, 0) \in AxisState("TILT")
BY StopType DEF Axes

LEMMA UpdateStabilityType ==
    ASSUME NEW r \in TiltRef, NEW pressed \in BOOLEAN
    PROVE  UpdateStability(r, pressed) \in TiltRef
<1> DEFINE longer(n) == IF n < StableTicks THEN n + 1 ELSE n
<1>1. \A n \in 0..StableTicks : longer(n) \in 0..StableTicks
  BY TiltAssumption
<1>2. 0 \in 0..StableTicks
  BY TiltAssumption
<1> HIDE DEF longer
<1>3. UpdateStability(r, pressed) =
        [r EXCEPT !.triggerTicks = IF pressed THEN longer(r.triggerTicks) ELSE 0,
                  !.releaseTicks = IF pressed THEN 0 ELSE longer(r.releaseTicks)]
  BY DEF UpdateStability, longer, TiltRef
<1> QED
  BY <1>1, <1>2, <1>3 DEF TiltRef

\* Starting an operation.
LEMMA StartType ==
    ASSUME NEW r \in TiltRef, NEW b \in BOOLEAN,
           NEW n \in Int, n # 0
    PROVE  /\ StartHome(r, b) \in TiltRef
           /\ StartJog(r, n) \in TiltRef
           /\ StartDirectionCheck(r, b) \in TiltRef
<1>1. 0 \in 0..StableTicks /\ 1 \in 0..StableTicks
  BY TiltAssumption
<1>2. CheckSteps \in Nat
  BY TiltAssumption
<1>3. StartHome(r, b) \in TiltRef
  BY <1>1 DEF StartHome, TiltRef, Operations, HomePhases, HomeStatuses
<1> DEFINE size    == IF n > 0 THEN n ELSE -n
           forward == n > 0
<1>4. size \in Nat /\ forward \in BOOLEAN
  OBVIOUS
<1>5. StartJog(r, n) =
        [r EXCEPT !.operation = "JOGGING", !.forward = forward,
                  !.remaining = size, !.disableReq = FALSE]
  BY DEF StartJog
<1> HIDE DEF size, forward
<1>7. StartJog(r, n) \in TiltRef
  BY <1>4, <1>5 DEF TiltRef, Operations
<1>6. StartDirectionCheck(r, b) \in TiltRef
  BY <1>2 DEF StartDirectionCheck, TiltRef, Operations
<1> QED
  BY <1>3, <1>7, <1>6

\* The ticks of the operations.
LEMMA FailHomeType ==
    ASSUME NEW t \in TiltState, NEW status \in HomeStatuses
    PROVE  FailHome(t, status) \in TiltState
BY TiltParts, ForceStopTilt
DEF FailHome, TiltState, TiltRef, Operations, HomePhases

LEMMA EnterPhaseType ==
    ASSUME NEW t \in TiltState, NEW phase \in HomePhases
    PROVE  EnterPhase(t, phase) \in TiltState
BY TiltParts, ForceStopTilt DEF EnterPhase, TiltState, TiltRef

LEMMA HaltType ==
    ASSUME NEW t \in TiltState
    PROVE  [t EXCEPT !.axis = ForceStop(@)] \in TiltState
BY TiltParts, ForceStopTilt DEF TiltState

LEMMA ReleaseTickType ==
    ASSUME NEW t \in TiltState, NEW pressed \in BOOLEAN,
           NEW next \in HomePhases
    PROVE  ReleaseTick(t, pressed, next) \in TiltState
BY EnterPhaseType, DriveType, OperationVelocities, FailHomeType, HaltType
DEF ReleaseTick, HomeStatuses

LEMMA ClearanceTickType ==
    ASSUME NEW t \in TiltState
    PROVE  ClearanceTick(t) \in TiltState
BY EnterPhaseType, DriveType, OperationVelocities DEF ClearanceTick, HomePhases

LEMMA FoundSwitchType ==
    ASSUME NEW t \in TiltState
    PROVE  FoundSwitch(t) \in TiltState
<1>1. EnterPhase(t, "RELEASE_SEARCH") \in TiltState
  BY EnterPhaseType DEF HomePhases
<1> DEFINE p == EnterPhase(t, "POST_HOME_PARK")
<1>2. p \in TiltState
  BY EnterPhaseType DEF HomePhases
<1> HIDE DEF p
<1>3. [ref  |-> [p.ref EXCEPT !.minLimit = TRUE],
       axis |-> SetPosition(p.axis, 0)] \in TiltState
  BY <1>2, TiltParts, ForceStopTilt DEF TiltState, TiltRef
<1> QED
  BY <1>1, <1>3 DEF FoundSwitch, p

LEMMA ApproachTickType ==
    ASSUME NEW t \in TiltState, NEW pressed \in BOOLEAN,
           NEW v \in Velocities("TILT")
    PROVE  ApproachTick(t, pressed, v) \in TiltState
BY FoundSwitchType, HaltType, FailHomeType, DriveType
DEF ApproachTick, HomeStatuses

LEMMA ParkTickType ==
    ASSUME NEW t \in TiltState
    PROVE  ParkTick(t) \in TiltState
<1>1. [ref  |-> [t.ref EXCEPT !.operation = "IDLE", !.homePhase = "NONE",
                              !.homeStatus = "SUCCESS", !.homed = TRUE,
                              !.minLimit = FALSE],
       axis |-> ForceStop(t.axis)] \in TiltState
  BY TiltParts, ForceStopTilt
  DEF TiltState, TiltRef, Operations, HomePhases, HomeStatuses
<1> QED
  BY <1>1, DriveType, OperationVelocities DEF ParkTick

LEMMA UpdateHomeType ==
    ASSUME NEW t \in TiltState, NEW pressed \in BOOLEAN
    PROVE  UpdateHome(t, pressed) \in TiltState
<1>1. /\ ReleaseTick(t, pressed, "FAST_APPROACH") \in TiltState
      /\ ReleaseTick(t, pressed, "POST_RELEASE_CLEARANCE") \in TiltState
  BY ReleaseTickType DEF HomePhases
<1>2. /\ ApproachTick(t, pressed, -FastVelocity) \in TiltState
      /\ ApproachTick(t, pressed, -SlowVelocity) \in TiltState
  BY ApproachTickType, OperationVelocities
<1>3. FailHome(t, "ABORTED") \in TiltState
  BY FailHomeType DEF HomeStatuses
<1> QED
  BY <1>1, <1>2, <1>3, ClearanceTickType, ParkTickType DEF UpdateHome

LEMMA JogTickType ==
    ASSUME NEW t \in TiltState
    PROVE  JogTick(t) \in TiltState
BY DriveType, OperationVelocities DEF JogTick

LEMMA DirectionCheckTickType ==
    ASSUME NEW t \in TiltState, NEW pressed \in BOOLEAN
    PROVE  DirectionCheckTick(t, pressed) \in TiltState
<1>1. [ref  |-> [t.ref EXCEPT !.operation = "IDLE", !.remaining = 0,
                              !.disableReq = TRUE],
       axis |-> ForceStop(t.axis)] \in TiltState
  BY TiltParts, ForceStopTilt DEF TiltState, TiltRef, Operations
<1> QED
  BY <1>1, DriveType, OperationVelocities DEF DirectionCheckTick

LEMMA IdleTickType ==
    ASSUME NEW t \in TiltState, NEW pressed \in BOOLEAN
    PROVE  IdleTick(t, pressed) \in TiltState
<1> DEFINE hit     == t.ref.homed /\ pressed /\ Downward(t.axis)
           held    == t.ref.latched \/ hit
           settled == held /\ TriggerIsStable(t.ref)
           halted  == IF hit THEN ForceStop(t.axis) ELSE t.axis
           placed  == IF settled THEN SetPosition(halted, 0) ELSE halted
           atZero  == t.ref.homed /\ placed.position <= 0
           latch   == held /\ pressed /\ ~settled
           limit   == \/ t.ref.homed /\ placed.position = 0
                      \/ pressed /\ (t.ref.minLimit \/ settled)
           last    == IF atZero /\ Downward(placed) THEN ForceStop(placed)
                                                    ELSE placed
<1>1. halted \in AxisState("TILT")
  BY TiltParts, ForceStopTilt
<1> HIDE DEF halted
<1>2. placed \in AxisState("TILT")
  BY <1>1, ForceStopTilt
<1> HIDE DEF placed
<1>3. last \in AxisState("TILT")
  BY <1>2, ForceStopTilt
<1>4. t.ref \in TiltRef /\ t.ref.latched \in BOOLEAN
         /\ t.ref.homed \in BOOLEAN /\ t.ref.minLimit \in BOOLEAN
  BY TiltParts DEF TiltRef
<1>5. latch \in BOOLEAN /\ limit \in BOOLEAN
  BY <1>4
<1> HIDE DEF last, latch, limit
<1>6. [t.ref EXCEPT !.latched = latch, !.minLimit = limit] \in TiltRef
  BY <1>4, <1>5 DEF TiltRef
<1>7. IdleTick(t, pressed) =
        [ref  |-> [t.ref EXCEPT !.latched = latch, !.minLimit = limit],
         axis |-> last]
  BY <1>4 DEF IdleTick, last, latch, limit, halted, placed, TiltRef
<1> QED
  BY <1>3, <1>6, <1>7 DEF TiltState

\* The whole of tilt_reference_before_tick.
LEMMA BeforeTickType ==
    ASSUME NEW t0 \in TiltState, NEW pressed \in BOOLEAN
    PROVE  BeforeTick(t0, pressed) \in TiltState
<1> DEFINE t == [t0 EXCEPT !.ref = UpdateStability(@, pressed)]
<1>1. t \in TiltState
  BY UpdateStabilityType, TiltParts DEF TiltState
<1> HIDE DEF t
<1>2. /\ UpdateHome(t, pressed) \in TiltState
      /\ JogTick(t) \in TiltState
      /\ DirectionCheckTick(t, pressed) \in TiltState
      /\ IdleTick(t, pressed) \in TiltState
  BY <1>1, UpdateHomeType, JogTickType, DirectionCheckTickType, IdleTickType
<1> QED
  BY <1>2 DEF BeforeTick, t

\* After a counted step, and the ways an operation is given up.
LEMMA StepCommittedType ==
    ASSUME NEW t \in TiltState
    PROVE  StepCommitted(t) \in TiltState
<1> DEFINE r       == t.ref
           bounded == r.operation \in {"JOGGING", "DIRECTION_CHECKING"}
           left    == IF r.remaining > 0 THEN r.remaining - 1 ELSE 0
           done    == bounded /\ left = 0
           steps   == IF r.operation = "HOMING" THEN r.phaseSteps + 1
                                                ELSE r.phaseSteps
           owed    == IF bounded THEN left ELSE r.remaining
           op      == IF done THEN "IDLE" ELSE r.operation
           request == \/ r.disableReq
                      \/ done /\ r.operation = "DIRECTION_CHECKING"
           limit   == IF r.homed \/ r.homePhase = "POST_HOME_PARK"
                      THEN t.axis.position = 0 ELSE r.minLimit
           last    == IF done THEN ForceStop(t.axis) ELSE t.axis
<1>1. r \in TiltRef
  BY TiltParts
<1>2. steps \in Nat /\ owed \in Nat
  BY <1>1 DEF TiltRef
<1>3. op \in Operations /\ request \in BOOLEAN /\ limit \in BOOLEAN
  BY <1>1 DEF TiltRef, Operations
<1>4. last \in AxisState("TILT")
  BY TiltParts, ForceStopTilt
<1>5. StepCommitted(t) =
        [ref  |-> [r EXCEPT !.phaseSteps = steps, !.remaining = owed,
                            !.operation = op, !.disableReq = request,
                            !.minLimit = limit],
         axis |-> last]
  BY <1>1 DEF StepCommitted, TiltRef
<1> HIDE DEF steps, owed, op, request, limit, last
<1>6. [r EXCEPT !.phaseSteps = steps, !.remaining = owed,
                !.operation = op, !.disableReq = request,
                !.minLimit = limit] \in TiltRef
  BY <1>1, <1>2, <1>3 DEF TiltRef
<1> QED
  BY <1>4, <1>5, <1>6 DEF TiltState

LEMMA GiveUpType ==
    ASSUME NEW t \in TiltState
    PROVE  /\ Abort(t) \in TiltState
           /\ OnDisable(t) \in TiltState
           /\ OnDriverFault(t) \in TiltState
<1>1. t.ref \in TiltRef /\ Stop(t.axis) \in AxisState("TILT")
  BY TiltParts, ForceStopTilt
<1> DEFINE homing  == t.ref.operation = "HOMING"
           homed   == t.ref.homed /\ ~homing
           limit   == t.ref.minLimit /\ ~homing
           status  == IF homing THEN "ABORTED" ELSE t.ref.homeStatus
           request == t.ref.disableReq \/ t.ref.operation = "DIRECTION_CHECKING"
<1>2. Abort(t).ref \in TiltRef
  <2>1. homed \in BOOLEAN /\ limit \in BOOLEAN /\ request \in BOOLEAN
           /\ status \in HomeStatuses
    BY <1>1 DEF TiltRef, HomeStatuses
  <2>2. Abort(t).ref =
          [t.ref EXCEPT !.operation = "IDLE", !.homePhase = "NONE",
                        !.remaining = 0, !.homeStatus = status,
                        !.homed = homed, !.minLimit = limit,
                        !.disableReq = request]
    BY <1>1 DEF Abort, TiltRef
  <2> HIDE DEF homing, homed, limit, status, request
  <2>3. [t.ref EXCEPT !.operation = "IDLE", !.homePhase = "NONE",
                      !.remaining = 0, !.homeStatus = status,
                      !.homed = homed, !.minLimit = limit,
                      !.disableReq = request] \in TiltRef
    BY <1>1, <2>1 DEF TiltRef, Operations, HomePhases
  <2> QED
    BY <2>2, <2>3
<1>3. ASSUME NEW given \in HomeStatuses, NEW asked \in BOOLEAN
      PROVE  Unreference(t, given, asked).ref \in TiltRef
  BY <1>1 DEF Unreference, TiltRef, Operations, HomePhases
<1>4. OnDisable(t).ref \in TiltRef /\ OnDriverFault(t).ref \in TiltRef
  <2>1. /\ "ABORTED" \in HomeStatuses /\ "IDLE" \in HomeStatuses
        /\ "DRIVER_FAULT" \in HomeStatuses
    BY DEF HomeStatuses
  <2>2. OnDriverFault(t).ref \in TiltRef
    BY <1>3, <2>1 DEF OnDriverFault
  <2>3. OnDisable(t).ref \in TiltRef
    <3>1. Unreference(t, "ABORTED", FALSE).ref \in TiltRef
      BY <1>3, <2>1
    <3>2. Unreference(t, "IDLE", FALSE).ref \in TiltRef
      BY <1>3, <2>1
    <3>3. \/ OnDisable(t) = Unreference(t, "ABORTED", FALSE)
          \/ OnDisable(t) = Unreference(t, "IDLE", FALSE)
      BY Zenon DEF OnDisable
    <3> QED
      BY <3>1, <3>2, <3>3
  <2> QED
    BY <2>2, <2>3
<1> QED
  BY <1>1, <1>2, <1>4
  DEF Abort, OnDisable, OnDriverFault, Unreference, TiltState

-----------------------------------------------------------------------------
(* The state of the controller.                                            *)

\* A family of axes has its type when each of them has.
AxisTypeOK(f) == /\ f \in [Axes -> AxisState("PAN") \cup AxisState("TILT")]
                 /\ \A a \in Axes : f[a] \in AxisState(a)

LEMMA AxesType ==
    ASSUME NEW p \in AxisState("PAN"), NEW t \in AxisState("TILT")
    PROVE  AxisTypeOK([a \in Axes |-> IF a = "PAN" THEN p ELSE t])
BY DEF AxisTypeOK, Axes

\* Replacing one axis by another of its type.
LEMMA ExceptType ==
    ASSUME NEW f, AxisTypeOK(f), NEW b \in Axes, NEW s \in AxisState(b)
    PROVE  AxisTypeOK([f EXCEPT ![b] = s])
BY DEF AxisTypeOK, Axes

\* The two axes and the tilt view of a typed state.
LEMMA StateParts ==
    ASSUME TypeOK
    PROVE  /\ AxisTypeOK(axis)
           /\ \A a \in Axes : axis[a] \in AxisState(a)
           /\ axis["PAN"] \in AxisState("PAN")
           /\ axis["TILT"] \in AxisState("TILT")
           /\ "PAN" \in Axes /\ "TILT" \in Axes
           /\ Tilt \in TiltState
           /\ Tilt.axis = axis["TILT"] /\ Tilt.ref = ref
BY DEF TypeOK, AxisTypeOK, Axes, Tilt, TiltState

-----------------------------------------------------------------------------
(* Drivers.                                                                *)

LEMMA ObserveType ==
    ASSUME NEW d \in DriverState, NEW reset \in BOOLEAN, NEW fatal \in BOOLEAN,
           NEW h \in {"PRESENT", "CONFIGURED"}
    PROVE  Observe(d, reset, fatal, h) \in DriverState
BY DEF Observe, DriverState

LEMMA RefreshType ==
    ASSUME NEW d \in DriverState, NEW faults
    PROVE  /\ CommFailures(d, faults) \subseteq DriverState
           /\ RefreshOutcomes(d, faults) \subseteq DriverState
<1>1. CommFailures(d, faults) \subseteq DriverState
  BY DEF CommFailures, DriverState
<1>2. Observations(d, faults, "CONFIGURED") \subseteq DriverState
  BY ObserveType DEF Observations
<1> QED
  BY <1>1, <1>2 DEF RefreshOutcomes

LEMMA ProbeType ==
    ASSUME NEW d \in DriverState, NEW faults
    PROVE  ProbeOutcomes(d, faults) \subseteq DriverState
<1> DEFINE c == [d EXCEPT !.fatal = FALSE]
<1>1. c \in DriverState
  BY DEF DriverState
<1>2. Observations(c, faults, "PRESENT") \subseteq DriverState
  BY <1>1, ObserveType DEF Observations
<1> QED
  BY <1>1, <1>2, RefreshType DEF ProbeOutcomes

LEMMA ConfigureType ==
    ASSUME NEW d \in DriverState, NEW faults
    PROVE  /\ ConfigureOutcomes(d, faults) \subseteq DriverState
           /\ ConfigureDriverOutcomes(d, faults) \subseteq DriverState
<1>1. \A e \in DriverState : ConfigureOutcomes(e, faults) \subseteq DriverState
  <2> TAKE e \in DriverState
  <2>1. [e EXCEPT !.valid = FALSE] \in DriverState
           /\ [e EXCEPT !.valid = TRUE] \in DriverState
    BY DEF DriverState
  <2> QED
    BY <2>1, RefreshType DEF ConfigureOutcomes
<1>2. ProbeOutcomes(d, faults) \subseteq DriverState
  BY ProbeType
<1> QED
  BY <1>1, <1>2 DEF ConfigureDriverOutcomes

-----------------------------------------------------------------------------
(* The interrupt.                                                          *)

\* What one frame hands on: axes, a reference and pins of their types.
FrameOK(f) == /\ AxisTypeOK(f.axis)
              /\ f.ref \in TiltRef
              /\ f.pinEn \in [Axes -> BOOLEAN]
              /\ f.pinDir \in [Axes -> BOOLEAN]

LEMMA ControlFrameType ==
    ASSUME TypeOK
    PROVE  FrameOK(ControlFrame)
<1> DEFINE before == BeforeTick(Tilt, endstop)
           pan    == ControlTick(axis["PAN"])
           tilt   == ControlTick(before.axis)
           asked  == before.ref.disableReq
           level  == IF before.ref.operation = "DIRECTION_CHECKING"
                     THEN before.ref.checkHigh ELSE tilt.positive
           last   == IF asked THEN RequestDisable(tilt) ELSE tilt
<1>1. before \in TiltState
  BY StateParts, BeforeTickType DEF TypeOK
<1>2. before.ref \in TiltRef /\ before.axis \in AxisState("TILT")
  BY <1>1, TiltParts
<1>3. pan \in AxisState("PAN") /\ tilt \in AxisState("TILT")
  BY <1>2, StateParts, ControlTickType
<1>4. last \in AxisState("TILT")
  BY <1>3, StateParts, StopType
<1>5. TakeDisableRequest(before.ref) \in TiltRef
  BY <1>2 DEF TakeDisableRequest, TiltRef
<1>6. pan.positive \in BOOLEAN /\ level \in BOOLEAN
  BY <1>2, <1>3 DEF AxisState, TiltRef
<1>7. ControlFrame.axis = [a \in Axes |-> IF a = "PAN" THEN pan ELSE last]
         /\ ControlFrame.ref = TakeDisableRequest(before.ref)
  BY DEF ControlFrame
<1>8. ControlFrame.pinEn \in [Axes -> BOOLEAN]
  <2> HIDE DEF before
  <2>1. pinEn \in [Axes -> BOOLEAN]
    BY DEF TypeOK
  <2> QED
    BY <2>1 DEF ControlFrame, before
<1>9. ControlFrame.pinDir \in [Axes -> BOOLEAN]
  <2>1. pinDir \in [Axes -> BOOLEAN]
    BY DEF TypeOK
  <2>2. ControlFrame.pinDir =
          [a \in Axes |->
             IF a = "PAN"
             THEN IF DirectionChanged(axis["PAN"]) THEN pan.positive
                                                   ELSE pinDir[a]
             ELSE IF DirectionChanged(before.axis) THEN level ELSE pinDir[a]]
    BY DEF ControlFrame
  <2> HIDE DEF pan, level, before
  <2> QED
    BY <1>6, <2>1, <2>2
<1>10. AxisTypeOK(ControlFrame.axis)
  <2> HIDE DEF pan, last
  <2> QED
    BY <1>3, <1>4, <1>7 DEF AxisTypeOK, Axes
<1> QED
  BY <1>5, <1>7, <1>8, <1>9, <1>10 DEF FrameOK

LEMMA StagesType ==
    ASSUME NEW f, FrameOK(f)
    PROVE  /\ PanStage(f) \in AxisState("PAN")
           /\ TiltStage(f).axis \in AxisState("TILT")
           /\ TiltStage(f).ref \in TiltRef
<1>1. /\ f.axis["PAN"] \in AxisState("PAN")
      /\ f.axis["TILT"] \in AxisState("TILT")
      /\ "PAN" \in Axes /\ "TILT" \in Axes
  BY DEF FrameOK, AxisTypeOK, Axes
<1>2. /\ SchedulerTick(f.axis["PAN"]) \in AxisState("PAN")
      /\ SchedulerTick(f.axis["TILT"]) \in AxisState("TILT")
  BY <1>1, SchedulerTickType
<1>3. PanStage(f) \in AxisState("PAN")
  BY <1>1, <1>2, CommitStepType DEF PanStage
<1> DEFINE s == SchedulerTick(f.axis["TILT"])
           u == [ref |-> f.ref, axis |-> CommitStep(s)]
<1>4. CommitStep(s) \in AxisState("TILT")
  BY <1>1, <1>2, CommitStepType
<1>5. u \in TiltState
  BY <1>4 DEF TiltState, FrameOK
<1>6. StepCommitted(u) \in TiltState
  BY <1>5, StepCommittedType
<1>7. /\ StepCommitted(u).axis \in AxisState("TILT")
      /\ StepCommitted(u).ref \in TiltRef
  BY <1>6, TiltParts
<1>8. TiltStage(f) = IF TiltSteps(f) THEN StepCommitted(u)
                                     ELSE [ref |-> f.ref, axis |-> s]
  BY DEF TiltStage
<1> HIDE DEF u, s
<1> QED
  BY <1>2, <1>3, <1>7, <1>8 DEF FrameOK, s

-----------------------------------------------------------------------------
(* The type invariant.                                                     *)

LEMMA TypeInit == Init => TypeOK
<1> SUFFICES ASSUME Init PROVE TypeOK
  OBVIOUS
<1>1. \A a \in Axes : InitialAxis \in AxisState(a)
  BY InitialAxisType
<1>2. InitialRef \in TiltRef
  BY TiltAssumption
  DEF InitialRef, TiltRef, Operations, HomePhases, HomeStatuses
<1>3. sub \in 1..TicksPerControl
  BY ControllerAssumption DEF Init
<1> QED
  BY <1>1, <1>2, <1>3 DEF Init, TypeOK, Axes, Idle, MainPcs, NoPulse

\* The interrupt, and what the main loop does inside a DRIVER command.
LEMMA TypeTim4Isr == TypeOK /\ Tim4Isr => TypeOK'
<1> SUFFICES ASSUME TypeOK, Tim4Isr PROVE TypeOK'
  OBVIOUS
<1> DEFINE f == IF sub = 1 THEN ControlFrame ELSE CurrentFrame
<1>1. FrameOK(CurrentFrame)
  BY StateParts DEF CurrentFrame, FrameOK, TypeOK
<1>2. FrameOK(f)
  BY <1>1, ControlFrameType
<1>3. /\ axis' = [a \in Axes |-> IF a = "PAN" THEN PanStage(f)
                                             ELSE TiltStage(f).axis]
      /\ ref' = TiltStage(f).ref
      /\ pinEn' = f.pinEn /\ pinDir' = f.pinDir
  BY DEF Tim4Isr
<1>4. AxisTypeOK(axis')
  <2> HIDE DEF f
  <2> QED
    BY <1>2, <1>3, StagesType, AxesType
<1>5. sub' \in 1..TicksPerControl
  BY ControllerAssumption DEF Tim4Isr, Countdown, TypeOK
<1>6. pulse' \in [Axes -> {-1, 0, 1}]
  <2>1. pulse' = [a \in Axes |-> Edge(f, a, IF a = "PAN" THEN PanSteps(f)
                                                       ELSE TiltSteps(f))]
    BY DEF Tim4Isr
  <2> HIDE DEF f
  <2> QED
    BY <2>1 DEF Edge
<1>7. main' \in [pc : MainPcs, axis : Axes, ticked : BOOLEAN]
  BY DEF Tim4Isr, TypeOK
<1>8. UNCHANGED <<dev, endstop, host>>
  BY DEF Tim4Isr
<1>9. ref' \in TiltRef
  <2> HIDE DEF f
  <2> QED
    BY <1>2, <1>3, StagesType
<1> HIDE DEF f
<1> QED
  BY <1>2, <1>3, <1>4, <1>5, <1>6, <1>7, <1>8, <1>9
  DEF TypeOK, AxisTypeOK, FrameOK

LEMMA TypeMain ==
    ASSUME TypeOK, DriverHandler
    PROVE  TypeOK'
<1>0. main.axis \in Axes
  BY DEF TypeOK
<1>1. \A pc \in MainPcs, a \in Axes :
        Goto(pc, a) => main' \in [pc : MainPcs, axis : Axes, ticked : BOOLEAN]
  BY DEF Goto
<1>2. Idle \in [pc : MainPcs, axis : Axes, ticked : BOOLEAN]
  BY DEF Idle, MainPcs, Axes
<1>3. \A pc \in MainPcs : InHandler(pc) =>
           UNCHANGED <<sub, endstop, host>> /\ pulse' \in [Axes -> {-1, 0, 1}]
  BY DEF InHandler, NoPulse
<1>4. CASE RefreshDriver
  <2>1. PICK d \in RefreshOutcomes(dev[main.axis], Faults(main.axis)) :
           /\ dev' = [dev EXCEPT ![main.axis] = d]
           /\ IF FaultFound(d) THEN Goto("SNAPSHOT", main.axis) ELSE main' = Idle
    BY <1>4 DEF RefreshDriver
  <2>2. d \in DriverState
    BY <1>0, <2>1, RefreshType DEF TypeOK
  <2> QED
    BY <1>0, <1>1, <1>2, <1>3, <1>4, <2>1, <2>2
    DEF RefreshDriver, TypeOK, MainPcs
<1>5. CASE SnapshotAfterRefresh
  BY <1>0, <1>1, <1>2, <1>3, <1>5 DEF SnapshotAfterRefresh, TypeOK, MainPcs
<1>6. CASE CheckTilt
  BY <1>0, <1>1, <1>2, <1>3, <1>6 DEF CheckTilt, TypeOK, MainPcs, Axes
<1>7. CASE ConfigureDriver
  <2>1. PICK d \in ConfigureDriverOutcomes(dev[main.axis], Faults(main.axis)) :
           dev' = [dev EXCEPT ![main.axis] = d]
    BY <1>7 DEF ConfigureDriver
  <2>2. d \in DriverState
    BY <1>0, <2>1, ConfigureType DEF TypeOK
  <2>3. main' \in [pc : MainPcs, axis : Axes, ticked : BOOLEAN]
    BY <1>1, <1>2, <1>7 DEF ConfigureDriver, MainPcs, Axes
  <2> QED
    BY <1>0, <1>3, <1>7, <2>1, <2>2, <2>3
    DEF ConfigureDriver, TypeOK, MainPcs
<1>8. CASE DriverFault
  <2> DEFINE t == IF main.axis = "TILT" THEN OnDriverFault(Tilt)
                  ELSE [ref |-> ref, axis |-> Stop(axis[main.axis])]
  <2>1. t.ref \in TiltRef /\ t.axis \in AxisState(main.axis)
    BY <1>0, StateParts, GiveUpType, TiltParts, StopType DEF TypeOK
  <2>2. RequestDisable(t.axis) \in AxisState(main.axis)
    BY <1>0, <2>1, StopType
  <2>3. /\ axis' = [axis EXCEPT ![main.axis] = RequestDisable(t.axis)]
        /\ ref' = t.ref /\ main' = Idle /\ UNCHANGED <<pinDir, dev>>
        /\ pinEn' = [pinEn EXCEPT ![main.axis] = @ /\ ~DisablesAtOnce(t.axis)]
    BY <1>8 DEF DriverFault
  <2> HIDE DEF t
  <2>4. AxisTypeOK(axis')
    BY <1>0, <2>2, <2>3, ExceptType, StateParts
  <2>5. pinEn' \in [Axes -> BOOLEAN]
    BY <1>0, <2>3 DEF TypeOK
  <2>6. UNCHANGED <<sub, endstop, host>> /\ pulse' \in [Axes -> {-1, 0, 1}]
    BY <1>3, <1>8 DEF DriverFault, MainPcs
  <2> QED
    BY <1>2, <2>1, <2>3, <2>4, <2>5, <2>6 DEF TypeOK, AxisTypeOK
<1> QED
  BY <1>4, <1>5, <1>6, <1>7, <1>8 DEF DriverHandler

\* What is left to show of a command of the host.
LEMMA CommandType ==
    ASSUME TypeOK, AxisTypeOK(axis'), ref' \in TiltRef,
           pinEn' \in [Axes -> BOOLEAN], pinDir' \in [Axes -> BOOLEAN],
           pulse' = NoPulse, UNCHANGED <<sub, dev, main, endstop, host>>
    PROVE  TypeOK'
BY DEF TypeOK, AxisTypeOK, NoPulse

LEMMA TypeAxisCommand ==
    ASSUME TypeOK, NEW a \in Axes,
           \/ Enable(a) \/ EnableRefused(a) \/ Disable(a)
           \/ \E v \in HostVelocities : SetVelocity(a, v)
    PROVE  TypeOK'
<1>1. AxisTypeOK(axis) /\ axis[a] \in AxisState(a)
  BY StateParts
<1>2. CASE Enable(a)
  <2>1. EnableAxis(axis[a]) \in AxisState(a)
    BY <1>1, EnableType
  <2>2. AxisTypeOK(axis')
    BY <1>1, <1>2, <2>1, ExceptType DEF Enable
  <2> QED
    BY <1>2, <2>2, CommandType DEF Enable, Command, TypeOK
<1>3. CASE EnableRefused(a)
  BY <1>1, <1>3, CommandType DEF EnableRefused, ReleasePin, Command, TypeOK
<1>4. CASE Disable(a)
  <2> DEFINE t == IF a = "TILT" THEN OnDisable(Tilt)
                               ELSE [ref |-> ref, axis |-> axis[a]]
  <2>1. t.ref \in TiltRef /\ t.axis \in AxisState(a)
    BY <1>1, StateParts, GiveUpType, TiltParts DEF TypeOK
  <2>2. RequestDisable(t.axis) \in AxisState(a)
    BY <2>1, StopType
  <2>3. /\ axis' = [axis EXCEPT ![a] = RequestDisable(t.axis)]
        /\ ref' = t.ref /\ UNCHANGED pinDir /\ Command(a)
        /\ pinEn' = [pinEn EXCEPT ![a] = @ /\ ~DisablesAtOnce(t.axis)]
    BY <1>4 DEF Disable
  <2> HIDE DEF t
  <2>4. AxisTypeOK(axis')
    BY <1>1, <2>2, <2>3, ExceptType
  <2>5. pinEn' \in [Axes -> BOOLEAN] /\ pinDir' \in [Axes -> BOOLEAN]
    BY <2>3 DEF TypeOK
  <2> QED
    BY <2>1, <2>3, <2>4, <2>5, CommandType DEF Command
<1>5. ASSUME NEW v \in HostVelocities, SetVelocity(a, v) PROVE TypeOK'
  <2>1. v \in Velocities(a)
    BY <1>5 DEF SetVelocity, Validated, ValidateTiltVelocity, ValidateVelocity,
                Axes
  <2>2. ApplyVelocity(axis[a], v) \in AxisState(a)
    BY <1>1, <2>1, VelocityType
  <2>3. AxisTypeOK(axis')
    BY <1>1, <1>5, <2>2, ExceptType DEF SetVelocity
  <2> QED
    BY <1>5, <2>3, CommandType DEF SetVelocity, Command, TypeOK
<1> QED
  BY <1>2, <1>3, <1>4, <1>5

LEMMA TypeBothCommand ==
    ASSUME TypeOK,
           \/ StopAll
           \/ \E v, w \in HostVelocities : SetBothVelocities(v, w)
    PROVE  TypeOK'
<1>1. CASE StopAll
  <2>1. Abort(Tilt).axis \in AxisState("TILT") /\ Abort(Tilt).ref \in TiltRef
    BY StateParts, GiveUpType, TiltParts
  <2>2. /\ Stop(axis["PAN"]) \in AxisState("PAN")
        /\ Stop(Abort(Tilt).axis) \in AxisState("TILT")
    BY <2>1, StateParts, StopType
  <2>3. axis' = [a \in Axes |-> IF a = "PAN" THEN Stop(axis["PAN"])
                                           ELSE Stop(Abort(Tilt).axis)]
    BY <1>1 DEF StopAll
  <2>4. AxisTypeOK(axis')
    BY <2>2, <2>3, AxesType
  <2> QED
    BY <1>1, <2>1, <2>4, CommandType DEF StopAll, TypeOK
<1>2. ASSUME NEW v \in HostVelocities, NEW w \in HostVelocities,
             SetBothVelocities(v, w)
      PROVE  TypeOK'
  <2>1. v \in Velocities("PAN") /\ w \in Velocities("TILT")
    BY <1>2 DEF SetBothVelocities, Validated, ValidateTiltVelocity,
                ValidateVelocity
  <2>2. /\ ApplyVelocity(axis["PAN"], v) \in AxisState("PAN")
        /\ ApplyVelocity(axis["TILT"], w) \in AxisState("TILT")
    BY <2>1, StateParts, VelocityType
  <2>3. axis' = [a \in Axes |-> IF a = "PAN" THEN ApplyVelocity(axis["PAN"], v)
                                           ELSE ApplyVelocity(axis["TILT"], w)]
    BY <1>2 DEF SetBothVelocities, Axes
  <2>4. AxisTypeOK(axis')
    BY <2>2, <2>3, AxesType
  <2> QED
    BY <1>2, <2>4, CommandType DEF SetBothVelocities, Command, TypeOK
<1> QED
  BY <1>1, <1>2

LEMMA TypeTiltCommand ==
    ASSUME TypeOK,
           \/ HomeTilt \/ HomeRefused \/ DirectionCheckRefused
           \/ \E n \in HostJogs : JogTilt(n)
           \/ \E high \in BOOLEAN : DirectionCheckTilt(high)
    PROVE  TypeOK'
<1>1. /\ AxisTypeOK(axis) /\ "TILT" \in Axes
      /\ EnableAxis(axis["TILT"]) \in AxisState("TILT")
  BY StateParts, EnableType
<1>2. AxisTypeOK([axis EXCEPT !["TILT"] = EnableAxis(@)])
  BY <1>1, ExceptType
<1>3. /\ pinEn \in [Axes -> BOOLEAN] /\ pinDir \in [Axes -> BOOLEAN]
      /\ ref \in TiltRef /\ endstop \in BOOLEAN
  BY DEF TypeOK
<1>4. CASE HomeTilt
  <2>1. StartHome(ref, endstop) \in TiltRef
    BY <1>3, StartType
  <2>2. pinEn' \in [Axes -> BOOLEAN] /\ pinDir' \in [Axes -> BOOLEAN]
    BY <1>3, <1>4 DEF HomeTilt
  <2>3. AxisTypeOK(axis') /\ ref' \in TiltRef /\ Command("TILT")
    BY <1>2, <1>4, <2>1 DEF HomeTilt
  <2> QED
    BY <2>2, <2>3, CommandType DEF Command
<1>5. CASE HomeRefused \/ DirectionCheckRefused
  BY <1>1, <1>3, <1>5, CommandType
  DEF HomeRefused, DirectionCheckRefused, ReleasePin, Command
<1>6. ASSUME NEW n \in HostJogs, JogTilt(n) PROVE TypeOK'
  <2>1. n \in Int /\ n # 0
    BY <1>6, ControllerAssumption DEF JogTilt
  <2>2. StartJog(ref, n) \in TiltRef
    BY <1>3, <2>1, StartType
  <2> QED
    BY <1>1, <1>3, <1>6, <2>2, CommandType DEF JogTilt, Command
<1>7. ASSUME NEW high \in BOOLEAN, DirectionCheckTilt(high) PROVE TypeOK'
  <2>1. StartDirectionCheck(ref, high) \in TiltRef
    BY <1>3, StartType
  <2>2. pinEn' \in [Axes -> BOOLEAN] /\ pinDir' \in [Axes -> BOOLEAN]
    BY <1>3, <1>7 DEF DirectionCheckTilt
  <2>3. AxisTypeOK(axis') /\ ref' \in TiltRef /\ Command("TILT")
    BY <1>2, <1>7, <2>1 DEF DirectionCheckTilt
  <2> QED
    BY <2>2, <2>3, CommandType DEF Command
<1> QED
  BY <1>4, <1>5, <1>6, <1>7

\* The commands that only start a handler of the main loop.
LEMMA TypeDriverCommand ==
    ASSUME TypeOK, ConfigureDrivers \/ \E a \in Axes : QueryDriver(a)
    PROVE  TypeOK'
<1>1. main' \in [pc : MainPcs, axis : Axes, ticked : BOOLEAN]
  <2>1. \A pc \in MainPcs, a \in Axes :
           Goto(pc, a) => main' \in [pc : MainPcs, axis : Axes, ticked : BOOLEAN]
    BY DEF Goto
  <2>2. Goto("CHECK_TILT", "TILT") \/ \E a \in Axes : Goto("REFRESH", a)
    BY DEF ConfigureDrivers, QueryDriver
  <2> QED
    BY <2>1, <2>2 DEF MainPcs, Axes
<1>2. /\ pulse' = NoPulse
      /\ UNCHANGED <<axis, ref, sub, pinEn, pinDir, dev, endstop, host>>
  BY DEF ConfigureDrivers, QueryDriver
<1> QED
  BY <1>1, <1>2 DEF TypeOK, NoPulse

LEMMA TypeNext == TypeOK /\ [Next]_vars => TypeOK'
<1> SUFFICES ASSUME TypeOK, [Next]_vars PROVE TypeOK'
  OBVIOUS
<1>1. CASE Tim4Isr
  BY <1>1, TypeTim4Isr
<1>2. CASE EndstopChanges
  BY <1>2 DEF EndstopChanges, TypeOK, NoPulse
<1>3. CASE HostVanishes
  BY <1>3 DEF HostVanishes, TypeOK, NoPulse
<1>4. CASE DriverHandler
  BY <1>4, TypeMain
<1>5. CASE HostCommand
  BY <1>5, TypeAxisCommand, TypeBothCommand, TypeTiltCommand,
     TypeDriverCommand
  DEF HostCommand, HandleVelocity, HandleEnable, HandleDisable
<1>6. CASE UNCHANGED vars
  BY <1>6 DEF vars, TypeOK
<1> QED
  BY <1>1, <1>2, <1>3, <1>4, <1>5, <1>6 DEF Next

\* Type correctness: the phase accumulators stay below one step, every
\* velocity within the limit of its axis and every lease within LeaseTicks,
\* whatever the host, the endstop and the drivers do.
THEOREM TypeCorrect == Spec => []TypeOK
BY TypeInit, TypeNext, PTL DEF Spec

-----------------------------------------------------------------------------
(* The safety invariants.                                                  *)

\* One axis: inert when disabled, no command while it is being disabled, and
\* a direction that is the sign of its velocity.
AxisSafe(s) ==
    /\ ~s.enabled => /\ s.velocity = 0 /\ s.target = 0 /\ s.lease = 0
                     /\ ~s.disabling
    /\ s.moving <=> s.velocity # 0
    /\ s.moving => s.positive = (s.velocity > 0)
    /\ s.disabling => s.target = 0 /\ s.lease = 0

\* The tilt: a target has a lease or an operation behind it, and a reference
\* or an operation needs power that nobody has asked to take away.
Claimed(r) == r.homed \/ r.operation # "IDLE"

TiltSafe(t) ==
    /\ AxisSafe(t.axis)
    /\ t.axis.target # 0 => t.axis.lease > 0 \/ t.ref.operation # "IDLE"
    /\ Claimed(t.ref) => /\ t.axis.enabled /\ ~t.axis.disabling
                         /\ ~t.ref.disableReq
    /\ t.ref.operation = "DIRECTION_CHECKING" =>
           ~t.ref.homed /\ ~DirectionCalibrated

PanSafe(s) == AxisSafe(s) /\ (s.target # 0 => s.lease > 0)

\* A pin of one axis: EN only while enabled, DIR what the axis believes.
PinSafe(a, s, en, dir) ==
    /\ en => s.enabled
    /\ s.enabled /\ Oriented(a) => dir = s.positive

\* The main loop: the axes it checked stay inactive until it has configured
\* the drivers, and a fault it found is being acted upon.
Acting(a) == main.pc \in {"SNAPSHOT", "FAULT"} /\ main.axis = a

MainSafe ==
    /\ main.pc \in {"CHECK_TILT", "CONFIGURE"} => ~axis["PAN"].enabled
    /\ main.pc = "CONFIGURE" => ~axis["TILT"].enabled
    /\ \A a \in Axes : \/ ~axis[a].enabled
                       \/ dev[a].valid /\ ~dev[a].fatal
                       \/ axis[a].disabling
                       \/ Acting(a)

Safe ==
    /\ PanSafe(axis["PAN"])
    /\ TiltSafe(Tilt)
    /\ \A a \in Axes : PinSafe(a, axis[a], pinEn[a], pinDir[a])
    /\ MainSafe

-----------------------------------------------------------------------------
(* One axis.                                                               *)

LEMMA AxisParts ==
    ASSUME NEW a \in Axes, NEW s \in AxisState(a)
    PROVE  /\ s.velocity \in Int /\ s.target \in Int /\ s.lease \in Nat
           /\ s.lease <= LeaseTicks
           /\ s.enabled \in BOOLEAN /\ s.moving \in BOOLEAN
           /\ s.disabling \in BOOLEAN /\ s.positive \in BOOLEAN
BY DEF AxisState, Velocities

LEMMA StopSafe ==
    ASSUME NEW a \in Axes, NEW s \in AxisState(a), AxisSafe(s)
    PROVE  /\ AxisSafe(Stop(s)) /\ AxisSafe(ForceStop(s))
           /\ AxisSafe(SetPosition(s, 0)) /\ AxisSafe(RequestDisable(s))
BY AxisParts
DEF AxisState, AxisSafe, Stop, ForceStop, SetPosition, RequestDisable,
    DisablesAtOnce

\* Stopping an axis keeps its power and its direction, and ends its command.
LEMMA StopKeeps ==
    ASSUME NEW a \in Axes, NEW s \in AxisState(a)
    PROVE  /\ \A u \in {Stop(s), ForceStop(s)} :
                 /\ u.enabled = s.enabled /\ u.disabling = s.disabling
                 /\ u.positive = s.positive /\ u.target = 0
           /\ SetPosition(s, 0) = [s EXCEPT !.position = 0]
           /\ RequestDisable(s).positive = s.positive
           /\ RequestDisable(s).target = 0
           /\ RequestDisable(s).enabled = (s.enabled /\ ~DisablesAtOnce(s))
           /\ RequestDisable(s).enabled => RequestDisable(s).disabling
BY DEF AxisState, Stop, ForceStop, SetPosition, RequestDisable,
       DisablesAtOnce

\* A command or an operation drives only an axis that is enabled and stays so.
LEMMA DriveSafe ==
    ASSUME NEW a \in Axes, NEW s \in AxisState(a), AxisSafe(s),
           NEW v \in Velocities(a), s.enabled, ~s.disabling
    PROVE  AxisSafe(SetInternalVelocity(s, v)) /\ AxisSafe(ApplyVelocity(s, v))
BY AxisParts
DEF AxisState, AxisSafe, SetInternalVelocity, ApplyVelocity

LEMMA ApplyKeeps ==
    ASSUME NEW a \in Axes, NEW s \in AxisState(a), AxisSafe(s),
           NEW v \in Velocities(a), s.enabled, ~s.disabling
    PROVE  LET u == ApplyVelocity(s, v)
           IN  /\ AxisSafe(u) /\ u.enabled = s.enabled
               /\ u.disabling = s.disabling /\ u.positive = s.positive
               /\ u.target # 0 => u.lease > 0
<1>1. AxisSafe(ApplyVelocity(s, v))
  BY DriveSafe
<1>2. LET u == ApplyVelocity(s, v)
      IN  /\ u.enabled = s.enabled /\ u.disabling = s.disabling
          /\ u.positive = s.positive /\ u.target = v
          /\ u.lease = IF v = 0 THEN 0 ELSE LeaseTicks
  BY DEF ApplyVelocity, AxisState
<1>3. LeaseTicks > 0
  BY AxisAssumption
<1> QED
  BY <1>1, <1>2, <1>3

LEMMA EnableSafe ==
    ASSUME NEW a \in Axes, NEW s \in AxisState(a), AxisSafe(s)
    PROVE  /\ AxisSafe(EnableAxis(s)) /\ EnableAxis(s).enabled
           /\ ~s.enabled => EnableAxis(s).positive
           /\ s.enabled => EnableAxis(s) = s
           /\ ~s.enabled => /\ EnableAxis(s).target = 0
                            /\ ~EnableAxis(s).disabling
BY DEF AxisSafe, EnableAxis, InitialAxis, AxisState

\* The control tick ramps an inert axis to nothing, completes a disable only
\* at rest, and lets no target outlive its lease.
LEMMA ControlTickSafe ==
    ASSUME NEW a \in Axes, NEW s \in AxisState(a), AxisSafe(s)
    PROVE  LET u == ControlTick(s)
           IN  /\ AxisSafe(u)
               /\ u.enabled = (s.enabled /\ ~DisableDriver(s))
               /\ u.disabling => s.disabling
               /\ ~u.disabling /\ s.disabling => ~u.enabled
               /\ u.target # 0 => s.target # 0 /\ (s.lease > 0 => u.lease > 0)
               /\ DirectionChanged(s) <=> u.positive # s.positive
<1> DEFINE target   == IF LeaseExpires(s) THEN 0 ELSE s.target
           velocity == ApproachVelocity(s.velocity,
                                        RampTarget(s.velocity, target))
           u == ControlTick(s)
<1>1. /\ s.velocity \in Int /\ s.target \in Int /\ s.lease \in Nat
      /\ s.enabled \in BOOLEAN /\ s.disabling \in BOOLEAN
      /\ s.positive \in BOOLEAN
  BY AxisParts
<1>2. velocity \in Int /\ target \in Int
  <2>1. u.velocity = velocity /\ u.target = target
    BY DEF ControlTick, AxisState
  <2>2. u \in AxisState(a)
    BY ControlTickType
  <2> QED
    BY <2>1, <2>2, AxisParts
<1>3. /\ u.target = target /\ u.velocity = velocity
      /\ u.moving = (velocity # 0)
      /\ u.lease = IF s.lease > 0 THEN s.lease - 1 ELSE 0
      /\ u.positive = IF velocity # 0 THEN velocity > 0 ELSE s.positive
      /\ u.enabled = (s.enabled /\ (velocity # 0 \/ ~s.disabling))
      /\ u.disabling = (s.disabling /\ velocity # 0)
  BY DEF ControlTick, AxisState
<1>4. s.velocity = 0 /\ target = 0 => velocity = 0
  BY AxisAssumption DEF ApproachVelocity, RampTarget, Opposed
<1>5. target # 0 => target = s.target /\ s.lease # 1
  BY DEF LeaseExpires
<1>6. DisableDriver(s) <=> s.disabling /\ ~u.moving
  BY DEF DisableDriver
<1>7. DirectionChanged(s) <=> u.positive # s.positive
  BY DEF DirectionChanged
<1> HIDE DEF target, velocity, u
<1>8. AxisSafe(u)
  <2>1. s.target = 0 => target = 0
    BY <1>5
  <2>2. ~s.enabled => velocity = 0 /\ target = 0 /\ u.lease = 0
    BY <1>1, <1>3, <1>4, <2>1 DEF AxisSafe
  <2>3. s.disabling => target = 0 /\ u.lease = 0
    BY <1>1, <1>3, <2>1 DEF AxisSafe
  <2> QED
    BY <1>1, <1>2, <1>3, <2>2, <2>3 DEF AxisSafe
<1>9. u.enabled = (s.enabled /\ ~DisableDriver(s))
  BY <1>1, <1>3, <1>6
<1>10. u.target # 0 => s.target # 0 /\ (s.lease > 0 => u.lease > 0)
  BY <1>1, <1>3, <1>5
<1> QED
  BY <1>1, <1>3, <1>7, <1>8, <1>9, <1>10 DEF u

\* The step stage touches only the phase and the position.
LEMMA StepStageSafe ==
    ASSUME NEW a \in Axes, NEW s \in AxisState(a), AxisSafe(s)
    PROVE  \A u \in {SchedulerTick(s), CommitStep(s)} :
              /\ AxisSafe(u)
              /\ u.enabled = s.enabled /\ u.disabling = s.disabling
              /\ u.positive = s.positive /\ u.target = s.target
              /\ u.lease = s.lease
BY DEF AxisState, AxisSafe, SchedulerTick, CommitStep

-----------------------------------------------------------------------------
(* The tilt at its control tick.                                           *)

\* What an operation may not touch: the power and the direction of the axis.
Keeps(t, u) == /\ u.axis.enabled = t.axis.enabled
               /\ u.axis.disabling = t.axis.disabling
               /\ u.axis.positive = t.axis.positive

LEMMA DriveKeepsSafe ==
    ASSUME NEW t \in TiltState, TiltSafe(t), t.ref.operation # "IDLE",
           NEW v \in Velocities("TILT")
    PROVE  TiltSafe(Drive(t, v)) /\ Keeps(t, Drive(t, v))
<1>1. t.axis \in AxisState("TILT") /\ "TILT" \in Axes /\ AxisSafe(t.axis)
      /\ t.axis.enabled /\ ~t.axis.disabling
  BY TiltParts DEF TiltSafe, Claimed, Axes
<1>2. AxisSafe(SetInternalVelocity(t.axis, v))
  BY <1>1, DriveSafe
<1>3. /\ Drive(t, v).ref = t.ref
      /\ Drive(t, v).axis = SetInternalVelocity(t.axis, v)
  BY DEF Drive, TiltState
<1>4. LET u == SetInternalVelocity(t.axis, v)
      IN  /\ u.enabled = t.axis.enabled /\ u.disabling = t.axis.disabling
          /\ u.positive = t.axis.positive
  BY <1>1 DEF SetInternalVelocity, AxisState
<1> QED
  BY <1>1, <1>2, <1>3, <1>4 DEF TiltSafe, Keeps

\* Halting the axis and putting any reference that claims no more beside it.
LEMMA HaltSafe ==
    ASSUME NEW t \in TiltState, TiltSafe(t), NEW u \in TiltState,
           u.axis \in {ForceStop(t.axis), Stop(t.axis),
                       SetPosition(ForceStop(t.axis), 0)},
           Claimed(u.ref) => Claimed(t.ref) /\ ~u.ref.disableReq,
           u.ref.operation = "DIRECTION_CHECKING" =>
               t.ref.operation = "DIRECTION_CHECKING" /\ ~u.ref.homed
    PROVE  TiltSafe(u) /\ Keeps(t, u)
<1>1. t.axis \in AxisState("TILT") /\ "TILT" \in Axes /\ AxisSafe(t.axis)
  BY TiltParts DEF TiltSafe, Axes
<1>2. ForceStop(t.axis) \in AxisState("TILT") /\ AxisSafe(ForceStop(t.axis))
      /\ AxisSafe(Stop(t.axis))
  BY <1>1, StopSafe, StopType
<1>3. AxisSafe(SetPosition(ForceStop(t.axis), 0))
  BY <1>1, <1>2, StopSafe
<1>4. \A x \in {ForceStop(t.axis), Stop(t.axis)} :
         /\ x.enabled = t.axis.enabled /\ x.disabling = t.axis.disabling
         /\ x.positive = t.axis.positive /\ x.target = 0
  BY <1>1, StopKeeps
<1>5. LET x == SetPosition(ForceStop(t.axis), 0)
      IN  /\ x.enabled = t.axis.enabled /\ x.disabling = t.axis.disabling
          /\ x.positive = t.axis.positive /\ x.target = 0
  BY <1>2, <1>4 DEF SetPosition, AxisState
<1> QED
  BY <1>1, <1>2, <1>3, <1>4, <1>5 DEF TiltSafe, Keeps

LEMMA HomeTicksSafe ==
    ASSUME NEW t \in TiltState, TiltSafe(t), t.ref.operation = "HOMING",
           NEW pressed \in BOOLEAN
    PROVE  TiltSafe(UpdateHome(t, pressed)) /\ Keeps(t, UpdateHome(t, pressed))
<1> DEFINE Good(u) == TiltSafe(u) /\ Keeps(t, u)
<1>1. t.ref \in TiltRef /\ t.axis \in AxisState("TILT") /\ Claimed(t.ref)
      /\ ~t.ref.disableReq
  BY TiltParts DEF Claimed, TiltSafe
<1>2. \A v \in Velocities("TILT") : Good(Drive(t, v))
  BY DriveKeepsSafe
<1>3. ASSUME NEW status \in HomeStatuses PROVE Good(FailHome(t, status))
  <2>1. FailHome(t, status) \in TiltState
    BY FailHomeType
  <2>2. /\ FailHome(t, status).axis = ForceStop(t.axis)
        /\ ~Claimed(FailHome(t, status).ref)
        /\ FailHome(t, status).ref.operation = "IDLE"
    BY <1>1 DEF FailHome, Claimed, TiltRef
  <2> QED
    BY <2>1, <2>2, HaltSafe
<1>4. ASSUME NEW phase \in HomePhases PROVE Good(EnterPhase(t, phase))
  <2>1. EnterPhase(t, phase) \in TiltState
    BY EnterPhaseType
  <2>2. /\ EnterPhase(t, phase).axis = ForceStop(t.axis)
        /\ EnterPhase(t, phase).ref.operation = "HOMING"
        /\ ~EnterPhase(t, phase).ref.disableReq
    BY <1>1 DEF EnterPhase, TiltRef
  <2> QED
    BY <1>1, <2>1, <2>2, HaltSafe
<1>5. Good([t EXCEPT !.axis = ForceStop(@)])
  <2>1. [t EXCEPT !.axis = ForceStop(@)] \in TiltState
    BY HaltType
  <2>2. /\ [t EXCEPT !.axis = ForceStop(@)].axis = ForceStop(t.axis)
        /\ [t EXCEPT !.axis = ForceStop(@)].ref = t.ref
    BY DEF TiltState
  <2> QED
    BY <1>1, <2>1, <2>2, HaltSafe
<1>6. Good(FoundSwitch(t))
  <2>1. FoundSwitch(t) \in TiltState
    BY FoundSwitchType
  <2>2. /\ FoundSwitch(t).axis \in {ForceStop(t.axis),
                                    SetPosition(ForceStop(t.axis), 0)}
        /\ FoundSwitch(t).ref.operation = "HOMING"
        /\ ~FoundSwitch(t).ref.disableReq
    BY <1>1 DEF FoundSwitch, EnterPhase, TiltRef
  <2> QED
    BY <1>1, <2>1, <2>2, HaltSafe
<1>7. Good(ParkTick(t))
  <2>1. CASE Exhausted(t.ref)
    <3>1. ParkTick(t) \in TiltState
      BY ParkTickType
    <3>2. /\ ParkTick(t).axis = ForceStop(t.axis)
          /\ ParkTick(t).ref.operation = "IDLE"
          /\ ~ParkTick(t).ref.disableReq
      BY <1>1, <2>1 DEF ParkTick, TiltRef
    <3> QED
      BY <1>1, <3>1, <3>2, HaltSafe
  <2>2. CASE ~Exhausted(t.ref)
    BY <1>2, <2>2, OperationVelocities DEF ParkTick
  <2> QED
    BY <2>1, <2>2
<1> HIDE DEF Good
<1>8. \A next \in HomePhases : Good(ReleaseTick(t, pressed, next))
  BY <1>2, <1>3, <1>4, <1>5, OperationVelocities DEF ReleaseTick, HomeStatuses
<1>9. Good(ClearanceTick(t))
  BY <1>2, <1>4, OperationVelocities DEF ClearanceTick, HomePhases
<1>10. \A v \in Velocities("TILT") : Good(ApproachTick(t, pressed, v))
  BY <1>2, <1>3, <1>5, <1>6 DEF ApproachTick, HomeStatuses
<1>11. Good(UpdateHome(t, pressed))
  BY <1>3, <1>7, <1>8, <1>9, <1>10, OperationVelocities
  DEF UpdateHome, HomePhases, HomeStatuses
<1> QED
  BY <1>11 DEF Good

LEMMA CheckTickSafe ==
    ASSUME NEW t \in TiltState, TiltSafe(t), NEW pressed \in BOOLEAN,
           t.ref.operation = "DIRECTION_CHECKING"
    PROVE  /\ TiltSafe(DirectionCheckTick(t, pressed))
           /\ Keeps(t, DirectionCheckTick(t, pressed))
<1>1. CASE pressed
  <2>1. DirectionCheckTick(t, pressed) \in TiltState
    BY DirectionCheckTickType
  <2>2. /\ DirectionCheckTick(t, pressed).axis = ForceStop(t.axis)
        /\ ~Claimed(DirectionCheckTick(t, pressed).ref)
        /\ DirectionCheckTick(t, pressed).ref.operation = "IDLE"
    BY <1>1, TiltParts DEF DirectionCheckTick, Claimed, TiltSafe, TiltRef
  <2> QED
    BY <2>1, <2>2, HaltSafe
<1>2. CASE ~pressed
  BY <1>2, DriveKeepsSafe, OperationVelocities DEF DirectionCheckTick
<1> QED
  BY <1>1, <1>2

\* Without an operation the switch and zero only ever stop the axis.
LEMMA IdleTickSafe ==
    ASSUME NEW t \in TiltState, TiltSafe(t), NEW pressed \in BOOLEAN,
           t.ref.operation = "IDLE"
    PROVE  TiltSafe(IdleTick(t, pressed)) /\ Keeps(t, IdleTick(t, pressed))
<1> DEFINE hit     == t.ref.homed /\ pressed /\ Downward(t.axis)
           held    == t.ref.latched \/ hit
           settled == held /\ TriggerIsStable(t.ref)
           halted  == IF hit THEN ForceStop(t.axis) ELSE t.axis
           placed  == IF settled THEN SetPosition(halted, 0) ELSE halted
           last    == IF t.ref.homed /\ placed.position <= 0 /\ Downward(placed)
                      THEN ForceStop(placed) ELSE placed
           Good(x) == /\ x \in AxisState("TILT") /\ AxisSafe(x)
                      /\ x.enabled = t.axis.enabled
                      /\ x.disabling = t.axis.disabling
                      /\ x.positive = t.axis.positive
                      /\ x.target # 0 => x.lease > 0
<1>1. "TILT" \in Axes /\ Good(t.axis)
  BY TiltParts DEF TiltSafe, Axes
<1>2. \A x : Good(x) => Good(ForceStop(x)) /\ Good(SetPosition(x, 0))
  <2> SUFFICES ASSUME NEW x, Good(x)
               PROVE  Good(ForceStop(x)) /\ Good(SetPosition(x, 0))
    OBVIOUS
  <2>1. /\ ForceStop(x) \in AxisState("TILT") /\ AxisSafe(ForceStop(x))
        /\ SetPosition(x, 0) \in AxisState("TILT")
        /\ AxisSafe(SetPosition(x, 0))
    BY <1>1, StopType, StopSafe
  <2> QED
    BY <2>1 DEF ForceStop, SetPosition, AxisState
<1>3. Good(halted)
  BY <1>1, <1>2
<1>4. Good(placed)
  BY <1>2, <1>3
<1>5. Good(last)
  BY <1>2, <1>4
<1>6. /\ IdleTick(t, pressed).axis = last
      /\ IdleTick(t, pressed).ref.operation = t.ref.operation
      /\ IdleTick(t, pressed).ref.homed = t.ref.homed
      /\ IdleTick(t, pressed).ref.disableReq = t.ref.disableReq
  BY TiltParts DEF IdleTick, TiltRef
<1> HIDE DEF last
<1> QED
  BY <1>5, <1>6 DEF TiltSafe, Keeps, Claimed

LEMMA BeforeTickSafe ==
    ASSUME NEW t0 \in TiltState, TiltSafe(t0), NEW pressed \in BOOLEAN
    PROVE  /\ TiltSafe(BeforeTick(t0, pressed))
           /\ Keeps(t0, BeforeTick(t0, pressed))
<1> DEFINE t == [t0 EXCEPT !.ref = UpdateStability(@, pressed)]
<1>1. t \in TiltState
  BY TiltParts, UpdateStabilityType DEF TiltState
<1>2. /\ t.axis = t0.axis
      /\ t.ref.operation = t0.ref.operation
      /\ t.ref.homed = t0.ref.homed
      /\ t.ref.disableReq = t0.ref.disableReq
  BY TiltParts DEF UpdateStability, TiltState, TiltRef
<1>3. TiltSafe(t)
  BY <1>2 DEF TiltSafe, Claimed
<1>4. BeforeTick(t0, pressed) =
        CASE t.ref.operation = "HOMING" -> UpdateHome(t, pressed)
          [] t.ref.operation = "JOGGING" -> JogTick(t)
          [] t.ref.operation = "DIRECTION_CHECKING" ->
                 DirectionCheckTick(t, pressed)
          [] OTHER -> IdleTick(t, pressed)
  BY DEF BeforeTick
<1>5. t.ref.operation \in Operations
  BY <1>1, TiltParts DEF TiltRef
<1> HIDE DEF t
<1>6. t.ref.operation = "JOGGING" => TiltSafe(JogTick(t)) /\ Keeps(t, JogTick(t))
  BY <1>1, <1>3, DriveKeepsSafe, OperationVelocities DEF JogTick
<1>7. TiltSafe(BeforeTick(t0, pressed)) /\ Keeps(t, BeforeTick(t0, pressed))
  BY <1>1, <1>3, <1>4, <1>5, <1>6, HomeTicksSafe, CheckTickSafe, IdleTickSafe
  DEF Operations
<1> QED
  BY <1>2, <1>7 DEF Keeps

\* A disable request the reference made, a pending one consumed.
LEMMA AbortSafe ==
    ASSUME NEW t \in TiltState, TiltSafe(t)
    PROVE  \A u \in {Abort(t), OnDisable(t), OnDriverFault(t)} :
              TiltSafe(u) /\ Keeps(t, u)
<1>1. t.ref \in TiltRef
  BY TiltParts
<1>2. /\ Abort(t).axis = Stop(t.axis)
      /\ Abort(t).ref.operation = "IDLE"
      /\ Abort(t).ref.homed => t.ref.homed
      /\ Abort(t).ref.homed => ~Abort(t).ref.disableReq
  BY <1>1 DEF Abort, TiltRef, TiltSafe, Claimed
<1>3. \A u \in {OnDisable(t), OnDriverFault(t)} :
         u.axis = Stop(t.axis) /\ ~Claimed(u.ref) /\ u.ref.operation = "IDLE"
  <2>1. \A status, request :
           LET u == Unreference(t, status, request)
           IN  /\ u.axis = Stop(t.axis) /\ u.ref.operation = "IDLE"
               /\ u.ref.homed = FALSE
    BY <1>1 DEF Unreference, TiltRef
  <2> QED
    BY <2>1 DEF OnDisable, OnDriverFault, Claimed
<1>4. TiltSafe(Abort(t)) /\ Keeps(t, Abort(t))
  BY <1>2, GiveUpType, HaltSafe DEF Claimed
<1>5. \A u \in {OnDisable(t), OnDriverFault(t)} : TiltSafe(u) /\ Keeps(t, u)
  BY <1>3, GiveUpType, HaltSafe
<1> QED
  BY <1>4, <1>5

LEMMA UnclaimedDisableSafe ==
    ASSUME NEW s \in AxisState("TILT"), AxisSafe(s), NEW r \in TiltRef,
           ~Claimed(r)
    PROVE  /\ TiltSafe([ref |-> r, axis |-> RequestDisable(s)])
           /\ TiltSafe([ref |-> TakeDisableRequest(r),
                        axis |-> RequestDisable(s)])
<1>1. AxisSafe(RequestDisable(s)) /\ RequestDisable(s).target = 0
  BY StopSafe, StopKeeps DEF Axes
<1>2. /\ TakeDisableRequest(r).operation = r.operation
      /\ TakeDisableRequest(r).homed = r.homed
  BY DEF TakeDisableRequest, TiltRef
<1> QED
  BY <1>1, <1>2 DEF TiltSafe, Claimed

LEMMA StepCommittedSafe ==
    ASSUME NEW t \in TiltState, TiltSafe(t)
    PROVE  TiltSafe(StepCommitted(t)) /\ Keeps(t, StepCommitted(t))
<1> DEFINE done == /\ t.ref.operation \in {"JOGGING", "DIRECTION_CHECKING"}
                   /\ (IF t.ref.remaining > 0 THEN t.ref.remaining - 1
                                              ELSE 0) = 0
           u == StepCommitted(t)
<1>1. t.ref \in TiltRef /\ u \in TiltState
  BY TiltParts, StepCommittedType
<1>2. /\ u.axis = IF done THEN ForceStop(t.axis) ELSE t.axis
      /\ u.ref.operation = IF done THEN "IDLE" ELSE t.ref.operation
      /\ u.ref.homed = t.ref.homed
      /\ u.ref.disableReq = \/ t.ref.disableReq
                            \/ done /\ t.ref.operation = "DIRECTION_CHECKING"
  BY <1>1 DEF StepCommitted, TiltRef
<1> HIDE DEF u
<1>3. CASE done
  BY <1>1, <1>2, <1>3, HaltSafe DEF Claimed, TiltSafe, u
<1>4. CASE ~done
  BY <1>2, <1>4 DEF TiltSafe, Claimed, Keeps, u
<1> QED
  BY <1>3, <1>4

-----------------------------------------------------------------------------
(* The interrupt.                                                          *)

\* A safe frame, and what a frame may have changed since the step began.
FrameSafe(f) ==
    /\ PanSafe(f.axis["PAN"])
    /\ TiltSafe([ref |-> f.ref, axis |-> f.axis["TILT"]])
    /\ \A a \in Axes : PinSafe(a, f.axis[a], f.pinEn[a], f.pinDir[a])
    /\ \A a \in Axes : f.axis[a].enabled =>
           axis[a].enabled /\ (axis[a].disabling => f.axis[a].disabling)

LEMMA PanControlSafe ==
    ASSUME TypeOK, Safe
    PROVE  /\ PanSafe(ControlFrame.axis["PAN"])
           /\ PinSafe("PAN", ControlFrame.axis["PAN"],
                      ControlFrame.pinEn["PAN"], ControlFrame.pinDir["PAN"])
           /\ ControlFrame.axis["PAN"].enabled =>
                 axis["PAN"].enabled /\
                 (axis["PAN"].disabling => ControlFrame.axis["PAN"].disabling)
<1> DEFINE s == axis["PAN"]
           u == ControlTick(s)
<1>1. s \in AxisState("PAN") /\ "PAN" \in Axes /\ PanSafe(s) /\ AxisSafe(s)
      /\ PinSafe("PAN", s, pinEn["PAN"], pinDir["PAN"])
  BY StateParts DEF Safe, PanSafe
<1>2. u \in AxisState("PAN")
  BY <1>1, ControlTickType
<1>3. /\ AxisSafe(u)
      /\ u.enabled = (s.enabled /\ ~DisableDriver(s))
      /\ ~u.disabling /\ s.disabling => ~u.enabled
      /\ u.target # 0 => s.target # 0 /\ (s.lease > 0 => u.lease > 0)
      /\ DirectionChanged(s) <=> u.positive # s.positive
  BY <1>1, ControlTickSafe
<1>4. /\ ControlFrame.axis["PAN"] = u
      /\ ControlFrame.pinEn["PAN"] = (pinEn["PAN"] /\ ~DisableDriver(s))
      /\ ControlFrame.pinDir["PAN"] =
            IF DirectionChanged(s) THEN u.positive ELSE pinDir["PAN"]
  BY <1>1 DEF ControlFrame
<1> HIDE DEF u
<1>5. PanSafe(u)
  BY <1>1, <1>3 DEF PanSafe
<1>6. PinSafe("PAN", u, ControlFrame.pinEn["PAN"], ControlFrame.pinDir["PAN"])
  BY <1>1, <1>3, <1>4 DEF PinSafe, Oriented
<1>7. u.enabled => s.enabled /\ (s.disabling => u.disabling)
  BY <1>1, <1>2, <1>3, AxisParts
<1> QED
  BY <1>4, <1>5, <1>6, <1>7

LEMMA TiltControlSafe ==
    ASSUME TypeOK, Safe
    PROVE  /\ TiltSafe([ref |-> ControlFrame.ref,
                        axis |-> ControlFrame.axis["TILT"]])
           /\ PinSafe("TILT", ControlFrame.axis["TILT"],
                      ControlFrame.pinEn["TILT"], ControlFrame.pinDir["TILT"])
           /\ ControlFrame.axis["TILT"].enabled =>
                 axis["TILT"].enabled /\
                 (axis["TILT"].disabling => ControlFrame.axis["TILT"].disabling)
<1> DEFINE b == BeforeTick(Tilt, endstop)
           s == b.axis
           u == ControlTick(s)
           asked == b.ref.disableReq
           level == IF b.ref.operation = "DIRECTION_CHECKING"
                    THEN b.ref.checkHigh ELSE u.positive
           last  == IF asked THEN RequestDisable(u) ELSE u
           r     == TakeDisableRequest(b.ref)
           en    == /\ pinEn["TILT"] /\ ~DisableDriver(s)
                    /\ ~(asked /\ DisablesAtOnce(u))
           dir   == IF DirectionChanged(s) THEN level ELSE pinDir["TILT"]
<1>1. /\ Tilt \in TiltState /\ TiltSafe(Tilt) /\ endstop \in BOOLEAN
      /\ "TILT" \in Axes /\ "TILT" # "PAN" /\ Tilt.axis = axis["TILT"]
      /\ PinSafe("TILT", axis["TILT"], pinEn["TILT"], pinDir["TILT"])
  BY StateParts DEF Safe, TypeOK
<1>2. b \in TiltState /\ TiltSafe(b) /\ Keeps(Tilt, b)
  BY <1>1, BeforeTickType, BeforeTickSafe
<1>3. s \in AxisState("TILT") /\ b.ref \in TiltRef /\ AxisSafe(s)
  BY <1>2, TiltParts DEF TiltSafe
<1>4. u \in AxisState("TILT")
  BY <1>1, <1>3, ControlTickType
<1>5. /\ AxisSafe(u)
      /\ u.enabled = (s.enabled /\ ~DisableDriver(s))
      /\ u.disabling => s.disabling
      /\ ~u.disabling /\ s.disabling => ~u.enabled
      /\ u.target # 0 => s.target # 0 /\ (s.lease > 0 => u.lease > 0)
      /\ DirectionChanged(s) <=> u.positive # s.positive
      /\ DisableDriver(s) => s.disabling
  BY <1>1, <1>3, ControlTickSafe DEF DisableDriver
<1>6. /\ ControlFrame.ref = r /\ ControlFrame.axis["TILT"] = last
      /\ ControlFrame.pinEn["TILT"] = en /\ ControlFrame.pinDir["TILT"] = dir
  BY <1>1 DEF ControlFrame
<1>7. /\ RequestDisable(u).positive = u.positive
      /\ RequestDisable(u).enabled = (u.enabled /\ ~DisablesAtOnce(u))
      /\ RequestDisable(u).enabled => RequestDisable(u).disabling
  BY <1>1, <1>4, StopKeeps
<1>8. r.operation = b.ref.operation /\ r.homed = b.ref.homed
      /\ r.disableReq = FALSE
  BY <1>3 DEF TakeDisableRequest, TiltRef
<1>9. asked => ~Claimed(b.ref)
  BY <1>2 DEF TiltSafe
<1> HIDE DEF b, s, u, r
<1>10. TiltSafe([ref |-> r, axis |-> last])
  <2>1. CASE asked
    BY <1>3, <1>4, <1>5, <1>9, <2>1, UnclaimedDisableSafe DEF r
  <2>2. CASE ~asked
    <3>1. TiltSafe(b) /\ b.axis = s
      BY <1>2 DEF s
    <3> QED
      BY <1>5, <1>8, <2>2, <3>1 DEF TiltSafe, Claimed
  <2> QED
    BY <2>1, <2>2
<1>11. PinSafe("TILT", last, en, dir)
  <2>1. /\ s.enabled = axis["TILT"].enabled
        /\ s.positive = axis["TILT"].positive
    BY <1>1, <1>2 DEF Keeps, s
  <2>2. last.positive = u.positive
        /\ last.enabled = (u.enabled /\ ~(asked /\ DisablesAtOnce(u)))
    BY <1>4, <1>7, AxisParts, <1>1
  <2>3. DirectionCalibrated => level = u.positive
    BY <1>2 DEF TiltSafe
  <2> HIDE DEF last, level, asked
  <2> QED
    BY <1>1, <1>5, <2>1, <2>2, <2>3 DEF PinSafe, Oriented
<1>12. last.enabled => axis["TILT"].enabled
                       /\ (axis["TILT"].disabling => last.disabling)
  <2>1. /\ s.enabled = axis["TILT"].enabled
        /\ s.disabling = axis["TILT"].disabling
    BY <1>1, <1>2 DEF Keeps, s
  <2>2. u.enabled => s.enabled
    BY <1>1, <1>3, <1>5, AxisParts
  <2> QED
    BY <1>1, <1>4, <1>5, <1>7, <2>1, <2>2, AxisParts
<1> HIDE DEF last, en, dir
<1> QED
  BY <1>6, <1>10, <1>11, <1>12

LEMMA SafeTim4Isr == TypeOK /\ Safe /\ Tim4Isr => Safe'
<1> SUFFICES ASSUME TypeOK, Safe, Tim4Isr PROVE Safe'
  OBVIOUS
<1> DEFINE f == IF sub = 1 THEN ControlFrame ELSE CurrentFrame
           p == f.axis["PAN"]
           t == f.axis["TILT"]
           c == [ref |-> f.ref, axis |-> CommitStep(SchedulerTick(t))]
           pan  == PanStage(f)
           tilt == TiltStage(f)
<1>1. FrameOK(f) /\ FrameSafe(f)
  <2>1. FrameOK(CurrentFrame) /\ FrameSafe(CurrentFrame)
    BY StateParts DEF CurrentFrame, FrameOK, FrameSafe, Safe, TypeOK, Tilt
  <2>2. FrameOK(ControlFrame) /\ FrameSafe(ControlFrame)
    BY ControlFrameType, PanControlSafe, TiltControlSafe DEF FrameSafe, Axes
  <2> QED
    BY <2>1, <2>2
<1>2. /\ axis' = [a \in Axes |-> IF a = "PAN" THEN pan ELSE tilt.axis]
      /\ ref' = tilt.ref /\ pinEn' = f.pinEn /\ pinDir' = f.pinDir
      /\ UNCHANGED dev
      /\ main'.pc = main.pc /\ main'.axis = main.axis
  BY DEF Tim4Isr, TypeOK
<1> HIDE DEF f
<1>3. /\ p \in AxisState("PAN") /\ t \in AxisState("TILT") /\ f.ref \in TiltRef
      /\ "PAN" \in Axes /\ "TILT" \in Axes /\ AxisSafe(p) /\ AxisSafe(t)
  BY <1>1 DEF FrameOK, AxisTypeOK, Axes, FrameSafe, PanSafe, TiltSafe
<1>4. /\ SchedulerTick(p) \in AxisState("PAN")
      /\ SchedulerTick(t) \in AxisState("TILT")
  BY <1>3, SchedulerTickType
<1>5. /\ PanSafe(pan) /\ pan.enabled = p.enabled
      /\ pan.disabling = p.disabling /\ pan.positive = p.positive
  <2>1. \A u \in {SchedulerTick(p), CommitStep(SchedulerTick(p))} :
           /\ AxisSafe(u) /\ u.enabled = p.enabled
           /\ u.disabling = p.disabling /\ u.positive = p.positive
           /\ u.target = p.target /\ u.lease = p.lease
    BY <1>3, <1>4, StepStageSafe
  <2>2. pan \in {SchedulerTick(p), CommitStep(SchedulerTick(p))}
    BY DEF PanStage
  <2> HIDE DEF pan
  <2> QED
    BY <1>1, <2>1, <2>2 DEF FrameSafe, PanSafe
<1>6. /\ TiltSafe(tilt) /\ tilt.axis.enabled = t.enabled
      /\ tilt.axis.disabling = t.disabling /\ tilt.axis.positive = t.positive
  <2>1. \A u \in {SchedulerTick(t), CommitStep(SchedulerTick(t))} :
           /\ AxisSafe(u) /\ u.enabled = t.enabled
           /\ u.disabling = t.disabling /\ u.positive = t.positive
           /\ u.target = t.target /\ u.lease = t.lease
    BY <1>3, <1>4, StepStageSafe
  <2>2. TiltSafe([ref |-> f.ref, axis |-> t])
    BY <1>1 DEF FrameSafe
  <2>3. \A u \in {SchedulerTick(t), CommitStep(SchedulerTick(t))} :
           TiltSafe([ref |-> f.ref, axis |-> u])
    BY <2>1, <2>2 DEF TiltSafe
  <2>4. c \in TiltState
    BY <1>3, <1>4, CommitStepType DEF TiltState
  <2>5. TiltSafe(StepCommitted(c)) /\ Keeps(c, StepCommitted(c))
    BY <2>3, <2>4, StepCommittedSafe
  <2>6. tilt \in {[ref |-> f.ref, axis |-> SchedulerTick(t)], StepCommitted(c)}
    BY DEF TiltStage
  <2> HIDE DEF tilt
  <2> QED
    BY <2>1, <2>3, <2>5, <2>6 DEF Keeps
<1>7. PanSafe(axis'["PAN"]) /\ TiltSafe(Tilt')
  <2>1. Tilt' = [ref |-> tilt.ref, axis |-> tilt.axis]
    BY <1>2, <1>3 DEF Tilt
  <2> HIDE DEF tilt, pan
  <2> QED
    BY <1>2, <1>3, <1>5, <1>6, <2>1 DEF TiltSafe
<1>8. \A a \in Axes : /\ axis'[a].enabled = f.axis[a].enabled
                     /\ axis'[a].disabling = f.axis[a].disabling
                     /\ axis'[a].positive = f.axis[a].positive
  <2> HIDE DEF tilt, pan
  <2> QED
    BY <1>2, <1>5, <1>6 DEF Axes
<1>9. \A a \in Axes : PinSafe(a, axis'[a], pinEn'[a], pinDir'[a])
  BY <1>1, <1>2, <1>8 DEF FrameSafe, PinSafe
<1>10. MainSafe'
  BY <1>1, <1>2, <1>3, <1>8 DEF FrameSafe, MainSafe, Acting, Safe
<1> QED
  BY <1>7, <1>9, <1>10 DEF Safe, PinSafe, Oriented

-----------------------------------------------------------------------------
(* The commands and the main loop.                                         *)

\* What is left to show of a command of the host, which finds no handler at
\* work.
LEMMA CommandSafe ==
    ASSUME TypeOK, Safe, HostReady, UNCHANGED <<main, dev>>,
           PanSafe(axis'["PAN"]),
           TiltSafe([ref |-> ref', axis |-> axis'["TILT"]]),
           \A a \in Axes : PinSafe(a, axis'[a], pinEn'[a], pinDir'[a]),
           \A a \in Axes : axis'[a].enabled =>
              \/ Ready(dev[a])
              \/ axis[a].enabled /\ (axis[a].disabling => axis'[a].disabling)
    PROVE  Safe'
<1>1. MainSafe'
  BY DEF Safe, MainSafe, HostReady, Acting, Ready
<1> QED
  BY <1>1 DEF Safe, Tilt, PinSafe, Oriented

\* What Safe says of the axes, for the commands below.
LEMMA SafeParts ==
    ASSUME TypeOK, Safe
    PROVE  /\ \A a \in Axes : /\ axis[a] \in AxisState(a) /\ AxisSafe(axis[a])
                             /\ PinSafe(a, axis[a], pinEn[a], pinDir[a])
           /\ PanSafe(axis["PAN"])
           /\ TiltSafe([ref |-> ref, axis |-> axis["TILT"]])
           /\ axis \in [Axes -> AxisState("PAN") \cup AxisState("TILT")]
           /\ pinEn \in [Axes -> BOOLEAN] /\ pinDir \in [Axes -> BOOLEAN]
           /\ "PAN" \in Axes /\ "TILT" \in Axes /\ ref \in TiltRef
           /\ Tilt \in TiltState /\ TiltSafe(Tilt)
BY StateParts DEF Safe, PanSafe, TiltSafe, Tilt, Axes, TypeOK

LEMMA SafeReleasePin ==
    ASSUME TypeOK, Safe, NEW a \in Axes, ReleasePin(a)
    PROVE  Safe'
<1>1. \A b \in Axes : PinSafe(b, axis'[b], pinEn'[b], pinDir'[b])
  BY SafeParts DEF ReleasePin, PinSafe
<1> QED
  BY <1>1, SafeParts, CommandSafe DEF ReleasePin, Command

LEMMA SafeEnable ==
    ASSUME TypeOK, Safe, NEW a \in Axes, Enable(a)
    PROVE  Safe'
<1> DEFINE u == EnableAxis(axis[a])
<1>1. /\ axis' = [axis EXCEPT ![a] = u] /\ UNCHANGED <<ref, main, dev>>
      /\ pinEn' = [pinEn EXCEPT ![a] = TRUE]
      /\ pinDir' = [pinDir EXCEPT ![a] = TRUE]
      /\ ~axis[a].enabled /\ HostReady /\ Ready(dev[a])
  BY DEF Enable, Command
<1>2. /\ AxisSafe(u) /\ u.enabled /\ u.positive /\ u.target = 0
      /\ ~u.disabling /\ u.positive \in BOOLEAN
  BY <1>1, SafeParts, EnableSafe, EnableType, AxisParts
<1> HIDE DEF u
<1>3. /\ axis'[a] = u /\ pinEn'[a] = TRUE /\ pinDir'[a] = TRUE
      /\ \A b \in Axes \ {a} : /\ axis'[b] = axis[b]
                              /\ pinEn'[b] = pinEn[b]
                              /\ pinDir'[b] = pinDir[b]
  BY <1>1, SafeParts
<1>4. PanSafe(axis'["PAN"])
  BY <1>2, <1>3, SafeParts DEF PanSafe
<1>5. TiltSafe([ref |-> ref', axis |-> axis'["TILT"]])
  BY <1>1, <1>2, <1>3, SafeParts DEF TiltSafe
<1>6. \A b \in Axes : PinSafe(b, axis'[b], pinEn'[b], pinDir'[b])
  BY <1>2, <1>3, SafeParts DEF PinSafe
<1> QED
  BY <1>1, <1>3, <1>4, <1>5, <1>6, CommandSafe

LEMMA SafeDisable ==
    ASSUME TypeOK, Safe, NEW a \in Axes, Disable(a)
    PROVE  Safe'
<1> DEFINE t == IF a = "TILT" THEN OnDisable(Tilt)
                             ELSE [ref |-> ref, axis |-> axis[a]]
           u == RequestDisable(t.axis)
<1>1. /\ axis' = [axis EXCEPT ![a] = u] /\ UNCHANGED <<pinDir, main, dev>>
      /\ ref' = t.ref /\ HostReady
      /\ pinEn' = [pinEn EXCEPT ![a] = @ /\ ~DisablesAtOnce(t.axis)]
  BY DEF Disable, Command
<1>2. a = "TILT" => /\ t \in TiltState /\ TiltSafe(t) /\ Keeps(Tilt, t)
                    /\ ~Claimed(t.ref)
  BY SafeParts, AbortSafe, GiveUpType
  DEF OnDisable, Unreference, Claimed, TiltRef, Tilt
<1>3. /\ t.axis \in AxisState(a) /\ AxisSafe(t.axis)
      /\ t.axis.enabled = axis[a].enabled
      /\ t.axis.positive = axis[a].positive
  BY <1>2, SafeParts, TiltParts DEF TiltSafe, Keeps, Tilt
<1> HIDE DEF t
<1>4. /\ AxisSafe(u) /\ u.target = 0 /\ u.positive = axis[a].positive
      /\ u.enabled = (axis[a].enabled /\ ~DisablesAtOnce(t.axis))
      /\ u.enabled => u.disabling
  BY <1>3, StopSafe, StopKeeps
<1>5. /\ axis'[a] = u /\ pinDir' = pinDir
      /\ pinEn'[a] = (pinEn[a] /\ ~DisablesAtOnce(t.axis))
      /\ \A b \in Axes \ {a} : axis'[b] = axis[b] /\ pinEn'[b] = pinEn[b]
  BY <1>1, SafeParts
<1>6. TiltSafe([ref |-> ref', axis |-> axis'["TILT"]])
  <2>1. CASE a = "TILT"
    <3>1. t.ref \in TiltRef /\ ~Claimed(t.ref)
      BY <1>2, <2>1, TiltParts
    <3> QED
      BY <1>1, <1>3, <1>5, <2>1, <3>1, UnclaimedDisableSafe
  <2>2. CASE a = "PAN"
    BY <1>1, <1>5, <2>2, SafeParts DEF t
  <2> QED
    BY <2>1, <2>2 DEF Axes
<1> HIDE DEF u
<1>7. PanSafe(axis'["PAN"])
  BY <1>4, <1>5, SafeParts DEF PanSafe
<1>8. \A b \in Axes : PinSafe(b, axis'[b], pinEn'[b], pinDir'[b])
  BY <1>4, <1>5, SafeParts DEF PinSafe
<1>9. axis[a].enabled \in BOOLEAN
  BY SafeParts, AxisParts
<1> QED
  BY <1>1, <1>4, <1>5, <1>6, <1>7, <1>8, <1>9, CommandSafe

LEMMA SafeVelocity ==
    ASSUME TypeOK, Safe, NEW a \in Axes, NEW v \in Int, SetVelocity(a, v)
    PROVE  Safe'
<1> DEFINE u == ApplyVelocity(axis[a], v)
<1>1. /\ axis' = [axis EXCEPT ![a] = u] /\ HostReady
      /\ UNCHANGED <<ref, pinEn, pinDir, main, dev>>
      /\ v \in Velocities(a) /\ axis[a].enabled /\ ~axis[a].disabling
  BY DEF SetVelocity, Command, Validated, ValidateTiltVelocity,
         ValidateVelocity, Axes
<1>2. /\ AxisSafe(u) /\ u.enabled = axis[a].enabled
      /\ u.disabling = axis[a].disabling /\ u.positive = axis[a].positive
      /\ u.target # 0 => u.lease > 0
  BY <1>1, SafeParts, ApplyKeeps
<1> HIDE DEF u
<1>3. axis'[a] = u /\ \A b \in Axes \ {a} : axis'[b] = axis[b]
  BY <1>1, SafeParts
<1>4. PanSafe(axis'["PAN"])
  BY <1>2, <1>3, SafeParts DEF PanSafe
<1>5. TiltSafe([ref |-> ref', axis |-> axis'["TILT"]])
  BY <1>1, <1>2, <1>3, SafeParts DEF TiltSafe
<1>6. \A b \in Axes : PinSafe(b, axis'[b], pinEn'[b], pinDir'[b])
  BY <1>1, <1>2, <1>3, SafeParts DEF PinSafe
<1> QED
  BY <1>1, <1>2, <1>3, <1>4, <1>5, <1>6, CommandSafe

LEMMA SafeBoth ==
    ASSUME TypeOK, Safe, NEW v \in Int, NEW w \in Int, SetBothVelocities(v, w)
    PROVE  Safe'
<1> DEFINE p == ApplyVelocity(axis["PAN"], v)
           t == ApplyVelocity(axis["TILT"], w)
<1>1. /\ axis' = [a \in Axes |-> ApplyVelocity(axis[a],
                                              IF a = "PAN" THEN v ELSE w)]
      /\ UNCHANGED <<ref, pinEn, pinDir, main, dev>> /\ HostReady
      /\ v \in Velocities("PAN") /\ axis["PAN"].enabled
      /\ w \in Velocities("TILT") /\ axis["TILT"].enabled
      /\ ~axis["PAN"].disabling /\ ~axis["TILT"].disabling
  BY DEF SetBothVelocities, Command, Validated, ValidateTiltVelocity,
         ValidateVelocity
<1>2. /\ AxisSafe(p) /\ p.enabled = axis["PAN"].enabled
      /\ p.disabling = axis["PAN"].disabling
      /\ p.positive = axis["PAN"].positive /\ (p.target # 0 => p.lease > 0)
  BY <1>1, SafeParts, ApplyKeeps
<1>3. /\ AxisSafe(t) /\ t.enabled = axis["TILT"].enabled
      /\ t.disabling = axis["TILT"].disabling
      /\ t.positive = axis["TILT"].positive /\ (t.target # 0 => t.lease > 0)
  BY <1>1, SafeParts, ApplyKeeps
<1>4. axis'["PAN"] = p /\ axis'["TILT"] = t
  BY <1>1, SafeParts
<1> HIDE DEF p, t
<1>5. PanSafe(axis'["PAN"])
  BY <1>2, <1>4 DEF PanSafe
<1>6. TiltSafe([ref |-> ref', axis |-> axis'["TILT"]])
  BY <1>1, <1>3, <1>4, SafeParts DEF TiltSafe
<1>7. \A b \in Axes : PinSafe(b, axis'[b], pinEn'[b], pinDir'[b])
  BY <1>1, <1>2, <1>3, <1>4, SafeParts DEF PinSafe, Axes
<1> QED
  BY <1>1, <1>2, <1>3, <1>4, <1>5, <1>6, <1>7, CommandSafe DEF Axes

LEMMA SafeStopAll ==
    ASSUME TypeOK, Safe, StopAll
    PROVE  Safe'
<1> DEFINE p == Stop(axis["PAN"])
           b == Abort(Tilt)
           t == Stop(b.axis)
<1>1. /\ axis'["PAN"] = p /\ axis'["TILT"] = t /\ ref' = b.ref
      /\ UNCHANGED <<pinEn, pinDir, main, dev>> /\ HostReady
  BY DEF StopAll, Axes
<1>2. /\ AxisSafe(p) /\ p.enabled = axis["PAN"].enabled
      /\ p.disabling = axis["PAN"].disabling
      /\ p.positive = axis["PAN"].positive /\ p.target = 0
  BY SafeParts, StopSafe, StopKeeps
<1>3. /\ b \in TiltState /\ TiltSafe(b) /\ Keeps(Tilt, b)
      /\ b.axis \in AxisState("TILT") /\ AxisSafe(b.axis)
  BY SafeParts, AbortSafe, GiveUpType, TiltParts DEF TiltSafe
<1>4. /\ AxisSafe(t) /\ t.enabled = axis["TILT"].enabled
      /\ t.disabling = axis["TILT"].disabling
      /\ t.positive = axis["TILT"].positive /\ t.target = 0
  BY <1>3, SafeParts, StopSafe, StopKeeps DEF Keeps, Tilt
<1>5. TiltSafe([ref |-> ref', axis |-> axis'["TILT"]])
  BY <1>1, <1>3, <1>4, SafeParts DEF TiltSafe, Keeps, Tilt
<1> HIDE DEF p, t, b
<1>6. PanSafe(axis'["PAN"])
  BY <1>1, <1>2 DEF PanSafe
<1>7. \A x \in Axes : PinSafe(x, axis'[x], pinEn'[x], pinDir'[x])
  BY <1>1, <1>2, <1>4, SafeParts DEF PinSafe, Axes
<1> QED
  BY <1>1, <1>2, <1>4, <1>5, <1>6, <1>7, CommandSafe DEF Axes

\* HOME, JOG and DIR-CHECK on an axis at rest.
LEMMA SafeTiltStart ==
    ASSUME TypeOK, Safe, HostReady, UNCHANGED <<main, dev>>,
           ~axis["TILT"].disabling, NEW r \in TiltRef, ref' = r,
           r.operation # "IDLE", ~r.disableReq,
           axis' = [axis EXCEPT !["TILT"] = EnableAxis(@)],
           r.operation = "DIRECTION_CHECKING" =>
               ~r.homed /\ ~DirectionCalibrated,
           \E p, q \in BOOLEAN :
              /\ pinEn' = [pinEn EXCEPT !["TILT"] = p]
              /\ pinDir' = [pinDir EXCEPT !["TILT"] = q]
              /\ Oriented("TILT") =>
                     IF axis["TILT"].enabled THEN q = pinDir["TILT"] ELSE q,
           Ready(dev["TILT"]) \/ axis["TILT"].enabled
    PROVE  Safe'
<1> DEFINE u == EnableAxis(axis["TILT"])
<1>1. /\ AxisSafe(u) /\ u.enabled /\ ~u.disabling
      /\ ~axis["TILT"].enabled => u.positive = TRUE
      /\ axis["TILT"].enabled => u = axis["TILT"]
  BY SafeParts, EnableSafe, EnableType, AxisParts
<1>2. /\ axis'["TILT"] = u /\ axis'["PAN"] = axis["PAN"]
      /\ pinEn'["PAN"] = pinEn["PAN"] /\ pinDir'["PAN"] = pinDir["PAN"]
      /\ pinDir'["TILT"] \in BOOLEAN
      /\ Oriented("TILT") => IF axis["TILT"].enabled
                             THEN pinDir'["TILT"] = pinDir["TILT"]
                             ELSE pinDir'["TILT"]
  BY SafeParts
<1> HIDE DEF u
<1>3. TiltSafe([ref |-> ref', axis |-> axis'["TILT"]])
  BY <1>1, <1>2 DEF TiltSafe, Claimed
<1>4. PanSafe(axis'["PAN"])
  BY <1>2, SafeParts
<1>5. PinSafe("TILT", axis'["TILT"], pinEn'["TILT"], pinDir'["TILT"])
  BY <1>1, <1>2, SafeParts DEF PinSafe
<1>6. \A b \in Axes : PinSafe(b, axis'[b], pinEn'[b], pinDir'[b])
  BY <1>2, <1>5, SafeParts DEF Axes
<1> QED
  BY <1>1, <1>2, <1>3, <1>4, <1>6, CommandSafe DEF Axes

LEMMA SafeHome ==
    ASSUME TypeOK, Safe, HomeTilt
    PROVE  Safe'
<1> DEFINE r == StartHome(ref, endstop)
           p == pinEn["TILT"] \/ ~axis["TILT"].enabled
           q == pinDir["TILT"] \/ ~axis["TILT"].enabled
<1>1. /\ HostReady /\ UNCHANGED <<main, dev>> /\ ref' = r
      /\ axis' = [axis EXCEPT !["TILT"] = EnableAxis(@)]
      /\ ~axis["TILT"].disabling /\ Ready(dev["TILT"])
  BY DEF HomeTilt, Command, AtRest
<1>2. r \in TiltRef /\ r.operation = "HOMING" /\ r.disableReq = FALSE
  <2>1. ref \in TiltRef /\ endstop \in BOOLEAN
    BY DEF TypeOK
  <2>2. r \in TiltRef
    BY <2>1, StartType
  <2> QED
    BY <2>1, <2>2 DEF StartHome, TiltRef
<1>3. /\ pinEn' = [pinEn EXCEPT !["TILT"] = p]
      /\ pinDir' = [pinDir EXCEPT !["TILT"] = q]
  BY DEF HomeTilt
<1>4. /\ p \in BOOLEAN /\ q \in BOOLEAN
      /\ IF axis["TILT"].enabled THEN q = pinDir["TILT"] ELSE q
  BY SafeParts
<1> HIDE DEF r, p, q
<1> QED
  BY <1>1, <1>2, <1>3, <1>4, SafeTiltStart

LEMMA SafeJog ==
    ASSUME TypeOK, Safe, NEW n \in Int, JogTilt(n)
    PROVE  Safe'
<1> DEFINE r == StartJog(ref, n)
<1>1. /\ HostReady /\ UNCHANGED <<axis, pinEn, pinDir, main, dev>> /\ ref' = r
      /\ axis["TILT"].enabled /\ ~axis["TILT"].disabling /\ n # 0
  BY DEF JogTilt, Command
<1>2. r.operation = "JOGGING" /\ r.disableReq = FALSE
  BY SafeParts DEF StartJog, TiltRef
<1> HIDE DEF r
<1>3. TiltSafe([ref |-> ref', axis |-> axis'["TILT"]])
  BY <1>1, <1>2, SafeParts DEF TiltSafe, Claimed
<1> QED
  BY <1>1, <1>3, SafeParts, CommandSafe

LEMMA SafeDirectionCheck ==
    ASSUME TypeOK, Safe, NEW high \in BOOLEAN, DirectionCheckTilt(high)
    PROVE  Safe'
<1> DEFINE r == StartDirectionCheck(ref, high)
<1>1. /\ HostReady /\ UNCHANGED <<main, dev>> /\ ref' = r
      /\ axis' = [axis EXCEPT !["TILT"] = EnableAxis(@)]
      /\ ~axis["TILT"].disabling /\ Ready(dev["TILT"])
      /\ ~DirectionCalibrated
      /\ pinEn' = [pinEn EXCEPT !["TILT"] = TRUE]
      /\ pinDir' = [pinDir EXCEPT !["TILT"] = high]
  BY DEF DirectionCheckTilt, Command, AtRest, CheckAllowed
<1>2. /\ r \in TiltRef /\ r.operation = "DIRECTION_CHECKING"
      /\ r.disableReq = FALSE /\ r.homed = FALSE
  <2>1. ref \in TiltRef
    BY DEF TypeOK
  <2>2. r \in TiltRef
    BY <2>1, StartType
  <2> QED
    BY <2>1, <2>2 DEF StartDirectionCheck, TiltRef
<1>3. ~Oriented("TILT")
  BY <1>1 DEF Oriented
<1> HIDE DEF r
<1> QED
  BY <1>1, <1>2, <1>3, SafeTiltStart

LEMMA SafeDriverCommand ==
    ASSUME TypeOK, Safe, ConfigureDrivers \/ \E a \in Axes : QueryDriver(a)
    PROVE  Safe'
<1>1. /\ UNCHANGED <<axis, ref, pinEn, pinDir, dev>>
      /\ main.pc = "IDLE"
      /\ \/ main'.pc = "CHECK_TILT" /\ ~axis["PAN"].enabled
         \/ main'.pc = "REFRESH"
  BY DEF ConfigureDrivers, QueryDriver, Goto, AxisInactive, HostReady
<1>2. MainSafe'
  BY <1>1 DEF Safe, MainSafe, Acting
<1> QED
  BY <1>1, <1>2 DEF Safe, Tilt, PinSafe, Oriented

-----------------------------------------------------------------------------
(* The main loop inside a DRIVER command.                                  *)

\* A refresh that finds nothing wrong leaves valid settings valid.
LEMMA RefreshFinds ==
    ASSUME NEW d \in DriverState, NEW faults, NEW e \in RefreshOutcomes(d, faults),
           d.valid /\ ~d.fatal, ~FaultFound(e)
    PROVE  e.valid /\ ~e.fatal
<1>1. CASE e \in CommFailures(d, faults)
  BY <1>1 DEF CommFailures, DriverState
<1>2. CASE e \in Observations(d, faults, "CONFIGURED")
  <2>1. PICK reset \in BOOLEAN, fatal \in BOOLEAN :
           e = Observe(d, reset, fatal, "CONFIGURED")
    BY <1>2 DEF Observations
  <2> QED
    BY <2>1 DEF Observe, FaultFound
<1> QED
  BY <1>1, <1>2 DEF RefreshOutcomes

LEMMA SafeRefresh ==
    ASSUME TypeOK, Safe, RefreshDriver
    PROVE  Safe'
<1>1. PICK d \in RefreshOutcomes(dev[main.axis], Faults(main.axis)) :
         /\ dev' = [dev EXCEPT ![main.axis] = d]
         /\ IF FaultFound(d) THEN Goto("SNAPSHOT", main.axis) ELSE main' = Idle
  BY DEF RefreshDriver
<1>2. main.axis \in Axes /\ dev[main.axis] \in DriverState
      /\ dev \in [Axes -> DriverState]
  BY DEF TypeOK
<1>3. UNCHANGED <<axis, ref, pinEn, pinDir>> /\ main.pc = "REFRESH"
  BY DEF RefreshDriver, InHandler
<1>4. CASE FaultFound(d)
  <2>1. main'.pc = "SNAPSHOT" /\ main'.axis = main.axis
    BY <1>1, <1>4 DEF Goto
  <2>2. \A a \in Axes \ {main.axis} : dev'[a] = dev[a]
    BY <1>1, <1>2
  <2>3. MainSafe'
    BY <1>3, <2>1, <2>2 DEF Safe, MainSafe, Acting
  <2> QED
    BY <1>3, <2>3 DEF Safe, Tilt, PinSafe, Oriented
<1>5. CASE ~FaultFound(d)
  <2>1. main'.pc = "IDLE"
    BY <1>1, <1>5 DEF Idle
  <2>2. /\ dev'[main.axis] = d
        /\ \A a \in Axes \ {main.axis} : dev'[a] = dev[a]
    BY <1>1, <1>2
  <2>3. dev[main.axis].valid /\ ~dev[main.axis].fatal => d.valid /\ ~d.fatal
    BY <1>1, <1>2, <1>5, RefreshFinds
  <2>4. MainSafe'
    BY <1>3, <2>1, <2>2, <2>3 DEF Safe, MainSafe, Acting
  <2> QED
    BY <1>3, <2>4 DEF Safe, Tilt, PinSafe, Oriented
<1> QED
  BY <1>4, <1>5

LEMMA SafeSnapshot ==
    ASSUME TypeOK, Safe, SnapshotAfterRefresh
    PROVE  Safe'
<1>1. /\ UNCHANGED <<axis, ref, pinEn, pinDir, dev>>
      /\ main.pc = "SNAPSHOT" /\ main.axis \in Axes
      /\ IF axis[main.axis].enabled
         THEN main'.pc = "FAULT" /\ main'.axis = main.axis
         ELSE main'.pc = "IDLE"
  BY DEF SnapshotAfterRefresh, InHandler, Goto, Idle, TypeOK
<1>2. MainSafe'
  BY <1>1 DEF Safe, MainSafe, Acting
<1> QED
  BY <1>1, <1>2 DEF Safe, Tilt, PinSafe, Oriented

LEMMA SafeConfigure ==
    ASSUME TypeOK, Safe, CheckTilt \/ ConfigureDriver
    PROVE  Safe'
<1>1. UNCHANGED <<axis, ref, pinEn, pinDir>>
  BY DEF CheckTilt, ConfigureDriver
<1>2. CASE CheckTilt
  <2>1. /\ main.pc = "CHECK_TILT" /\ dev' = dev
        /\ \/ main'.pc = "CONFIGURE" /\ ~axis["TILT"].enabled
           \/ main'.pc = "IDLE"
    BY <1>2 DEF CheckTilt, InHandler, Goto, Idle, AxisInactive
  <2> QED
    BY <1>1, <2>1 DEF Safe, MainSafe, Acting, Tilt, PinSafe, Oriented
<1>3. CASE ConfigureDriver
  <2>1. main.pc = "CONFIGURE" /\ main'.pc \in {"CONFIGURE", "IDLE"}
    BY <1>3 DEF ConfigureDriver, InHandler, Goto, Idle
  <2>2. \A a \in Axes : ~axis[a].enabled
    BY <2>1 DEF Safe, MainSafe, Axes
  <2>3. MainSafe'
    BY <1>1, <2>1, <2>2 DEF MainSafe, Axes
  <2> QED
    BY <1>1, <2>3 DEF Safe, Tilt, PinSafe, Oriented
<1> QED
  BY <1>2, <1>3

LEMMA SafeFault ==
    ASSUME TypeOK, Safe, DriverFault
    PROVE  Safe'
<1> DEFINE a == main.axis
           t == IF a = "TILT" THEN OnDriverFault(Tilt)
                ELSE [ref |-> ref, axis |-> Stop(axis[a])]
           u == RequestDisable(t.axis)
<1>1. /\ axis' = [axis EXCEPT ![a] = u] /\ UNCHANGED <<pinDir, dev>>
      /\ ref' = t.ref /\ main.pc = "FAULT" /\ main'.pc = "IDLE"
      /\ pinEn' = [pinEn EXCEPT ![a] = @ /\ ~DisablesAtOnce(t.axis)]
  BY DEF DriverFault, InHandler, Idle
<1>2. a \in Axes
  BY DEF TypeOK
<1>3. a = "TILT" => /\ t \in TiltState /\ TiltSafe(t) /\ Keeps(Tilt, t)
                    /\ ~Claimed(t.ref)
  BY SafeParts, AbortSafe, GiveUpType
  DEF OnDriverFault, Unreference, Claimed, TiltRef, Tilt
<1>4. /\ t.axis \in AxisState(a) /\ AxisSafe(t.axis)
      /\ t.axis.enabled = axis[a].enabled
      /\ t.axis.positive = axis[a].positive
  <2>1. CASE a = "TILT"
    BY <1>3, <2>1, TiltParts DEF TiltSafe, Keeps, Tilt
  <2>2. CASE a = "PAN"
    BY <1>2, <2>2, SafeParts, StopSafe, StopType, StopKeeps
  <2> QED
    BY <1>2, <2>1, <2>2 DEF Axes
<1> HIDE DEF t
<1>5. /\ AxisSafe(u) /\ u.target = 0 /\ u.positive = axis[a].positive
      /\ u.enabled = (axis[a].enabled /\ ~DisablesAtOnce(t.axis))
      /\ u.enabled => u.disabling
  BY <1>2, <1>4, StopSafe, StopKeeps
<1>6. /\ axis'[a] = u /\ pinDir' = pinDir
      /\ pinEn'[a] = (pinEn[a] /\ ~DisablesAtOnce(t.axis))
      /\ \A b \in Axes \ {a} : axis'[b] = axis[b] /\ pinEn'[b] = pinEn[b]
  BY <1>1, <1>2, SafeParts
<1>7. TiltSafe([ref |-> ref', axis |-> axis'["TILT"]])
  <2>1. CASE a = "TILT"
    <3>1. t.ref \in TiltRef /\ ~Claimed(t.ref)
      BY <1>3, <2>1, TiltParts
    <3> QED
      BY <1>1, <1>4, <1>6, <2>1, <3>1, UnclaimedDisableSafe
  <2>2. CASE a = "PAN"
    BY <1>1, <1>6, <2>2, SafeParts DEF t
  <2> QED
    BY <1>2, <2>1, <2>2 DEF Axes
<1> HIDE DEF u
<1>8. PanSafe(axis'["PAN"])
  BY <1>5, <1>6, SafeParts DEF PanSafe
<1>9. \A b \in Axes : PinSafe(b, axis'[b], pinEn'[b], pinDir'[b])
  BY <1>5, <1>6, SafeParts DEF PinSafe
<1>10. MainSafe'
  BY <1>1, <1>5, <1>6 DEF Safe, MainSafe, Acting
<1> QED
  BY <1>7, <1>8, <1>9, <1>10 DEF Safe, Tilt, PinSafe, Oriented

-----------------------------------------------------------------------------
(* The theorems.                                                           *)

LEMMA SafeInit == Init => Safe
BY DEF Init, Safe, PanSafe, TiltSafe, AxisSafe, PinSafe, MainSafe, Claimed,
       Tilt, InitialAxis, InitialRef, Axes, Oriented, Idle

LEMMA SafeNext == TypeOK /\ Safe /\ [Next]_vars => Safe'
<1> SUFFICES ASSUME TypeOK, Safe, [Next]_vars PROVE Safe'
  OBVIOUS
<1>1. CASE Tim4Isr
  BY <1>1, SafeTim4Isr
<1>2. CASE EndstopChanges \/ HostVanishes \/ UNCHANGED vars
  BY <1>2 DEF EndstopChanges, HostVanishes, vars, Safe, MainSafe, Acting,
              Tilt, PinSafe, Oriented
<1>3. CASE DriverHandler
  BY <1>3, SafeRefresh, SafeSnapshot, SafeFault, SafeConfigure
  DEF DriverHandler
<1>4. CASE HostCommand
  <2>1. HostVelocities \subseteq Int /\ HostJogs \subseteq Int
    BY ControllerAssumption
  <2>2. ASSUME NEW a \in Axes,
               \/ Enable(a) \/ EnableRefused(a) \/ Disable(a) \/ QueryDriver(a)
               \/ \E v \in HostVelocities : SetVelocity(a, v)
        PROVE  Safe'
    BY <2>1, <2>2, SafeEnable, SafeReleasePin, SafeDisable, SafeDriverCommand,
       SafeVelocity
    DEF EnableRefused
  <2>3. (\E v, w \in HostVelocities : SetBothVelocities(v, w)) => Safe'
    BY <2>1, SafeBoth
  <2>4. (\E n \in HostJogs : JogTilt(n)) => Safe'
    BY <2>1, SafeJog
  <2>5. (\E high \in BOOLEAN : DirectionCheckTilt(high)) => Safe'
    BY SafeDirectionCheck
  <2>6. HomeRefused \/ DirectionCheckRefused => Safe'
    BY SafeReleasePin DEF HomeRefused, DirectionCheckRefused, Axes
  <2> QED
    BY <1>4, <2>2, <2>3, <2>4, <2>5, <2>6, SafeStopAll, SafeHome,
       SafeDriverCommand
    DEF HostCommand, HandleVelocity, HandleEnable, HandleDisable
<1> QED
  BY <1>1, <1>2, <1>3, <1>4 DEF Next

\* The inductive invariant of the controller.
THEOREM SafeAlways == Spec => [](TypeOK /\ Safe)
<1>1. Init => TypeOK /\ Safe
  BY TypeInit, SafeInit
<1>2. TypeOK /\ Safe /\ [Next]_vars => (TypeOK /\ Safe)'
  BY TypeNext, SafeNext
<1> QED
  BY <1>1, <1>2, PTL DEF Spec

\* No disable leaves anything running: a disabled axis has no velocity,
\* target, lease or pending disable, and a disabled TILT no operation.
THEOREM DisabledIsInert == Spec => []DisabledAxisIsInert
<1>1. TypeOK /\ Safe => DisabledAxisIsInert
  <2> SUFFICES ASSUME TypeOK, Safe PROVE DisabledAxisIsInert
    OBVIOUS
  <2> QED
    BY SafeParts
    DEF DisabledAxisIsInert, InertWhenDisabled, Operating, AxisSafe, TiltSafe,
        Claimed, Axes
<1> QED
  BY <1>1, SafeAlways, PTL

\* A tilt reference or operation lives only on a powered axis that nobody has
\* asked to power down.
THEOREM ReferencePowered == Spec => []ReferenceNeedsPower
<1>1. TypeOK /\ Safe => ReferenceNeedsPower
  <2> SUFFICES ASSUME TypeOK, Safe PROVE ReferenceNeedsPower
    OBVIOUS
  <2> QED
    BY SafeParts DEF ReferenceNeedsPower, Operating, TiltSafe, Claimed
<1> QED
  BY <1>1, SafeAlways, PTL

\* Nothing outlives the power: both of the above, whoever takes it away.
THEOREM NothingOutlives == Spec => []NothingOutlivesPower
BY DisabledIsInert, ReferencePowered, PTL DEF NothingOutlivesPower

\* No axis is driven by a command whose lease has run out.
THEOREM LeaseCovers == Spec => []LeaseCoversEveryCommand
<1>1. TypeOK /\ Safe => LeaseCoversEveryCommand
  <2> SUFFICES ASSUME TypeOK, Safe PROVE LeaseCoversEveryCommand
    OBVIOUS
  <2> QED
    BY SafeParts
    DEF LeaseCoversEveryCommand, Operating, AxisSafe, PanSafe, TiltSafe, Axes
<1> QED
  BY <1>1, SafeAlways, PTL

\* EN is asserted only for an enabled axis, and a turning shaft turns the way
\* the firmware counts it.
THEOREM PinsFollow == Spec => []PinsFollowAxis
<1>1. TypeOK /\ Safe => PinsFollowAxis
  <2> SUFFICES ASSUME TypeOK, Safe PROVE PinsFollowAxis
    OBVIOUS
  <2> QED
    BY SafeParts DEF PinsFollowAxis, AxisSafe, PinSafe
<1> QED
  BY <1>1, SafeAlways, PTL

\* Whenever the main loop is back in its idle state, an axis whose driver was
\* found reset or fatal is off or ramping down.
THEOREM FaultedStops == Spec => []FaultedAxisIsStopping
<1>1. Safe => FaultedAxisIsStopping
  BY DEF Safe, MainSafe, Acting, FaultedAxisIsStopping
<1> QED
  BY <1>1, SafeAlways, PTL

\* The checks of DRIVER CONFIGURE still hold when the registers are written.
THEOREM ConfiguresInactive == Spec => []ConfiguresOnlyInactiveAxes
<1>1. TypeOK /\ Safe => ConfiguresOnlyInactiveAxes
  <2> SUFFICES ASSUME TypeOK, Safe PROVE ConfiguresOnlyInactiveAxes
    OBVIOUS
  <2> QED
    BY SafeParts
    DEF Safe, MainSafe, ConfiguresOnlyInactiveAxes, AxisInactive, AxisSafe,
        TiltSafe, Claimed
<1> QED
  BY <1>1, SafeAlways, PTL
=============================================================================
