----------------------------- MODULE AxisMotion -----------------------------
(***************************************************************************)
(* The motion primitives of one stepper axis (src/motion.c).  An axis is a *)
(* record; every operator below is the state after one C function returns. *)
(* axis_motion_state_t.max_absolute_velocity_steps_s never changes after   *)
(* axis_motion_init, so it is the constant operator MaxVelocity.           *)
(***************************************************************************)
EXTENDS Integers

CONSTANTS
    PanMaxVelocity,     \* PAN_MAX_ABSOLUTE_VELOCITY_STEPS_S, 10000
    TiltMaxVelocity,    \* TILT_MAX_ABSOLUTE_VELOCITY_STEPS_S, 5000
    Delta,              \* MOTION_VELOCITY_DELTA_PER_TICK, 2
    SchedFreq,          \* MOTION_SCHEDULER_FREQUENCY_HZ, 20000
    LeaseTicks,         \* MOTION_COMMAND_LEASE_TICKS, 1000
    PositionMin,        \* INT64_MIN
    PositionMax         \* INT64_MAX

\* What the #error checks of motion.h and the value of the constants give.
ASSUME AxisAssumption ==
    /\ SchedFreq \in Nat
    /\ PanMaxVelocity \in 1..SchedFreq
    /\ TiltMaxVelocity \in 1..SchedFreq
    /\ Delta \in 1..(SchedFreq - 1)
    /\ LeaseTicks \in Nat \ {0}
    /\ PositionMin \in Int /\ PositionMin < 0
    /\ PositionMax \in Int /\ 0 < PositionMax

Axes == {"PAN", "TILT"}
MaxVelocity(a) == IF a = "PAN" THEN PanMaxVelocity ELSE TiltMaxVelocity
Velocities(a) == -MaxVelocity(a) .. MaxVelocity(a)
Positions == PositionMin..PositionMax

AxisState(a) ==
    [position   : Positions,
     target     : Velocities(a),
     velocity   : Velocities(a),
     phase      : 0..(SchedFreq - 1),
     lease      : 0..LeaseTicks,
     enabled    : BOOLEAN,
     moving     : BOOLEAN,
     disabling  : BOOLEAN,
     timeout    : BOOLEAN,
     positive   : BOOLEAN]

Opposed(v, w) == (v > 0 /\ w < 0) \/ (v < 0 /\ w > 0)

\* One acceleration step from current towards target.
NeverArrives(current, target) ==    \* mutant: the last step is not taken
    IF target - current > Delta THEN current + Delta
    ELSE IF target - current < -Delta THEN current - Delta
    ELSE current

ApproachVelocity(current, target) ==
    IF target - current > Delta THEN current + Delta
    ELSE IF target - current < -Delta THEN current - Delta
    ELSE target

InitialAxis ==
    [position |-> 0, target |-> 0, velocity |-> 0, phase |-> 0, lease |-> 0,
     enabled |-> FALSE, moving |-> FALSE, disabling |-> FALSE,
     timeout |-> FALSE, positive |-> TRUE]

ApplyWithoutLease(s, v) ==          \* mutant: the lease is not started
    [s EXCEPT !.target = v, !.lease = IF v = 0 THEN 0 ELSE @,
              !.timeout = IF v = 0 THEN @ ELSE FALSE]

ApplyVelocity(s, v) ==
    [s EXCEPT !.target  = v,
              !.lease   = IF v = 0 THEN 0 ELSE LeaseTicks,
              !.timeout = IF v = 0 THEN @ ELSE FALSE]

EnableAxis(s) ==
    IF s.enabled THEN s
    ELSE [InitialAxis EXCEPT !.position = s.position,
                             !.timeout  = s.timeout,
                             !.enabled  = TRUE]

Stop(s) == [s EXCEPT !.target = 0, !.lease = 0]

ForceStop(s) ==
    [s EXCEPT !.target = 0, !.velocity = 0, !.phase = 0, !.lease = 0,
              !.moving = FALSE]

\* TRUE when axis_motion_request_disable answers AXIS_DISABLE_COMPLETE.
DisablesAtOnce(s) == ~s.enabled \/ s.velocity = 0

RequestDisable(s) ==
    IF DisablesAtOnce(s)
    THEN [ForceStop(s) EXCEPT !.disabling = FALSE, !.enabled = FALSE]
    ELSE [Stop(s) EXCEPT !.disabling = TRUE]

\* axis_motion_validate_velocity; the first failing check names the error.
ValidateVelocity(s, a, v) ==
    IF v \notin Velocities(a) THEN "RANGE"
    ELSE IF ~s.enabled THEN "DISABLED"
    ELSE IF s.disabling THEN "DISABLING"
    ELSE "OK"

SetInternalVelocity(s, v) ==
    [s EXCEPT !.target = v, !.lease = 0, !.timeout = FALSE]

SetPosition(s, p) == [s EXCEPT !.position = p]

\* The tick on which the command lease runs out.
NeverExpires(s) == FALSE                         \* mutant
LeaseExpires(s) == s.lease = 1

\* A reversal must reach an explicit zero-velocity tick first.
ReverseAtOnce(velocity, target) == target        \* mutant
RampTarget(velocity, target) ==
    IF Opposed(velocity, target) THEN 0 ELSE target

\* The 1 kHz tick: the lease, the ramp, the end of a pending disable and the
\* direction of the next steps.
ControlTick(s) ==
    LET expires  == LeaseExpires(s)
        target   == IF expires THEN 0 ELSE s.target
        velocity == ApproachVelocity(s.velocity, RampTarget(s.velocity, target))
        moving   == velocity # 0
    IN  [s EXCEPT !.target    = target,
                  !.velocity  = velocity,
                  !.lease     = IF @ > 0 THEN @ - 1 ELSE 0,
                  !.timeout   = @ \/ expires,
                  !.moving    = moving,
                  !.phase     = IF moving THEN @ ELSE 0,
                  !.positive  = IF moving THEN velocity > 0 ELSE @,
                  !.enabled   = @ /\ (moving \/ ~s.disabling),
                  !.disabling = @ /\ moving]

\* The two outputs of ControlTick that move a pin (axis_motion_control_result_t).
ReportsOnlyForward(s) == ControlTick(s).positive /\ ~s.positive  \* mutant
DirectionChanged(s) == ControlTick(s).positive # s.positive
DisableDriver(s) == s.disabling /\ ~ControlTick(s).moving

\* The 20 kHz tick: the phase accumulator, and whether it overflows.
Speed(s) == IF s.velocity > 0 THEN s.velocity ELSE -s.velocity

SchedulerTickSteps(s) == s.velocity # 0 /\ s.phase + Speed(s) >= SchedFreq

KeepsPhase(s) ==                    \* mutant: the overflow is not subtracted
    [s EXCEPT !.phase = IF s.velocity = 0 THEN 0 ELSE @ + Speed(s)]

SchedulerTick(s) ==
    [s EXCEPT !.phase = IF s.velocity = 0 THEN 0
                        ELSE IF SchedulerTickSteps(s)
                             THEN @ + Speed(s) - SchedFreq
                             ELSE @ + Speed(s)]

\* One counted step, wrapping at the ends of int64_t.
CommitSaturates(s) ==               \* mutant: sticks at the ends
    [s EXCEPT !.position =
        IF s.positive
        THEN IF @ = PositionMax THEN PositionMax ELSE @ + 1
        ELSE IF @ = PositionMin THEN PositionMin ELSE @ - 1]

CommitStep(s) ==
    [s EXCEPT !.position =
        IF s.positive
        THEN IF @ = PositionMax THEN PositionMin ELSE @ + 1
        ELSE IF @ = PositionMin THEN PositionMax ELSE @ - 1]
=============================================================================
