---------------------------- MODULE TiltReference ----------------------------
(***************************************************************************)
(* The homing, jog and direction-check state machine of the TILT axis      *)
(* (src/tilt_reference.c).  The C functions take the reference and the     *)
(* axis by pointer; here they take and return t = [ref, axis].             *)
(***************************************************************************)
EXTENDS AxisMotion

CONSTANTS
    FastVelocity,       \* TILT_HOME_FAST_VELOCITY_STEPS_S, 4000
    BackoffVelocity,    \* TILT_HOME_BACKOFF_VELOCITY_STEPS_S, 3000
    SlowVelocity,       \* TILT_HOME_SLOW_VELOCITY_STEPS_S, 400
    PostHomeVelocity,   \* TILT_HOME_POST_HOME_VELOCITY_STEPS_S, 2000
    MaxTravel,          \* TILT_HOME_MAX_TRAVEL_STEPS, 20000
    ReleaseMax,         \* TILT_HOME_RELEASE_SEARCH_MAX_STEPS, 500
    Clearance,          \* TILT_HOME_POST_RELEASE_CLEARANCE_STEPS, 100
    Park,               \* TILT_HOME_POST_HOME_PARK_STEPS, 800
    StableTicks,        \* TILT_ENDSTOP_STABLE_TICKS, 5
    CheckSteps,         \* TILT_DIRECTION_CHECK_STEPS, 10
    CheckVelocity,      \* TILT_DIRECTION_CHECK_VELOCITY_STEPS_S, 25
    JogMax,             \* TILT_JOG_MAX_STEPS, 50
    JogVelocity         \* TILT_JOG_VELOCITY_STEPS_S, 50

ASSUME TiltAssumption ==
    /\ FastVelocity \in 1..TiltMaxVelocity
    /\ BackoffVelocity \in 1..TiltMaxVelocity
    /\ SlowVelocity \in 1..TiltMaxVelocity
    /\ PostHomeVelocity \in 1..TiltMaxVelocity
    /\ CheckVelocity \in 1..TiltMaxVelocity
    /\ JogVelocity \in 1..TiltMaxVelocity
    /\ MaxTravel \in Nat \ {0}
    /\ ReleaseMax \in Nat \ {0}
    /\ Clearance \in Nat \ {0}
    /\ Park \in Nat \ {0} /\ Park < PositionMax
    /\ StableTicks \in Nat \ {0}
    /\ CheckSteps \in Nat \ {0}
    /\ JogMax \in Nat \ {0}

Operations == {"IDLE", "HOMING", "JOGGING", "DIRECTION_CHECKING"}
HomePhases == {"NONE", "INITIAL_RELEASE", "FAST_APPROACH", "RELEASE_SEARCH",
               "POST_RELEASE_CLEARANCE", "SLOW_APPROACH", "POST_HOME_PARK"}
HomeStatuses == {"IDLE", "RUNNING", "SUCCESS", "SWITCH_STUCK", "NOT_FOUND",
                 "DRIVER_FAULT", "ABORTED"}

\* How many steps each phase of a home may commit.
PhaseBound(p) ==
    CASE p = "INITIAL_RELEASE"        -> ReleaseMax
      [] p = "FAST_APPROACH"          -> MaxTravel
      [] p = "RELEASE_SEARCH"         -> ReleaseMax
      [] p = "POST_RELEASE_CLEARANCE" -> Clearance
      [] p = "SLOW_APPROACH"          -> ReleaseMax + Clearance
      [] p = "POST_HOME_PARK"         -> Park
      [] OTHER                        -> 0

\* operationStepsRemaining is unsigned and set from a request or CheckSteps.
TiltRef ==
    [operation     : Operations,
     homePhase     : HomePhases,
     homeStatus    : HomeStatuses,
     phaseSteps    : Nat,
     triggerTicks  : 0..StableTicks,
     releaseTicks  : 0..StableTicks,
     remaining     : Nat,
     homed         : BOOLEAN,
     minLimit      : BOOLEAN,
     forward       : BOOLEAN,
     checkHigh     : BOOLEAN,
     disableReq    : BOOLEAN,
     latched       : BOOLEAN]

InitialRef ==
    [operation |-> "IDLE", homePhase |-> "NONE", homeStatus |-> "IDLE",
     phaseSteps |-> 0, triggerTicks |-> 0, releaseTicks |-> 0,
     remaining |-> 0, homed |-> FALSE, minLimit |-> FALSE, forward |-> TRUE,
     checkHigh |-> FALSE, disableReq |-> FALSE, latched |-> FALSE]

-----------------------------------------------------------------------------
\* The sampled endstop: how many consecutive control ticks it has agreed.
UpdateStability(r, pressed) ==
    LET longer(n) == IF n < StableTicks THEN n + 1 ELSE n
    IN  [r EXCEPT !.triggerTicks = IF pressed THEN longer(@) ELSE 0,
                  !.releaseTicks = IF pressed THEN 0 ELSE longer(@)]

NeverStable(r) == r.triggerTicks > StableTicks   \* mutant: off by one
TriggerIsStable(r) == r.triggerTicks >= StableTicks
ReleaseIsStable(r) == r.releaseTicks >= StableTicks

FailHome(t, status) ==
    [ref  |-> [t.ref EXCEPT !.operation = "IDLE", !.homePhase = "NONE",
                            !.homeStatus = status, !.homed = FALSE,
                            !.minLimit = FALSE, !.disableReq = TRUE],
     axis |-> ForceStop(t.axis)]

StartHome(r, pressed) ==
    [r EXCEPT !.operation    = "HOMING",
              !.homePhase    = IF pressed THEN "INITIAL_RELEASE"
                                          ELSE "FAST_APPROACH",
              !.homeStatus   = "RUNNING",
              !.phaseSteps   = 0,
              !.triggerTicks = IF pressed THEN 1 ELSE 0,
              !.releaseTicks = IF pressed THEN 0 ELSE 1,
              !.remaining    = 0,
              !.homed        = FALSE,
              !.minLimit     = FALSE,
              !.disableReq   = FALSE,
              !.latched      = FALSE]

StartJog(r, steps) ==
    [r EXCEPT !.operation = "JOGGING", !.forward = steps > 0,
              !.remaining = IF steps > 0 THEN steps ELSE -steps,
              !.disableReq = FALSE]

StartDirectionCheck(r, high) ==
    [r EXCEPT !.operation = "DIRECTION_CHECKING", !.forward = TRUE,
              !.checkHigh = high, !.remaining = CheckSteps, !.homed = FALSE,
              !.minLimit = FALSE, !.disableReq = FALSE]

-----------------------------------------------------------------------------
\* A home's tick, by phase.  Entering a phase stops the axis and restarts its
\* step count.
EnterPhase(t, phase) ==
    [ref  |-> [t.ref EXCEPT !.homePhase = phase, !.phaseSteps = 0],
     axis |-> ForceStop(t.axis)]

Drive(t, v) == [t EXCEPT !.axis = SetInternalVelocity(@, v)]

Exhausted(r) == r.phaseSteps >= PhaseBound(r.homePhase)

ReleaseTick(t, pressed, next) ==
    IF ReleaseIsStable(t.ref) THEN EnterPhase(t, next)
    ELSE IF ~Exhausted(t.ref) THEN Drive(t, BackoffVelocity)
    ELSE IF pressed THEN FailHome(t, "SWITCH_STUCK")
    ELSE [t EXCEPT !.axis = ForceStop(@)]

ClearanceTick(t) ==
    IF Exhausted(t.ref) THEN EnterPhase(t, "SLOW_APPROACH")
                        ELSE Drive(t, BackoffVelocity)

FoundSwitch(t) ==
    IF t.ref.homePhase = "FAST_APPROACH" THEN EnterPhase(t, "RELEASE_SEARCH")
    ELSE LET p == EnterPhase(t, "POST_HOME_PARK")
         IN  [ref  |-> [p.ref EXCEPT !.minLimit = TRUE],
              axis |-> SetPosition(p.axis, 0)]

ApproachTick(t, pressed, v) ==
    IF pressed
    THEN IF TriggerIsStable(t.ref) THEN FoundSwitch(t)
                                   ELSE [t EXCEPT !.axis = ForceStop(@)]
    ELSE IF Exhausted(t.ref) THEN FailHome(t, "NOT_FOUND")
                             ELSE Drive(t, v)

ParkTick(t) ==
    IF Exhausted(t.ref)
    THEN [ref  |-> [t.ref EXCEPT !.operation = "IDLE", !.homePhase = "NONE",
                                 !.homeStatus = "SUCCESS", !.homed = TRUE,
                                 !.minLimit = FALSE],
          axis |-> ForceStop(t.axis)]
    ELSE Drive(t, PostHomeVelocity)

UpdateHome(t, pressed) ==
    LET p == t.ref.homePhase
    IN  CASE p = "INITIAL_RELEASE" -> ReleaseTick(t, pressed, "FAST_APPROACH")
          [] p = "RELEASE_SEARCH" ->
                 ReleaseTick(t, pressed, "POST_RELEASE_CLEARANCE")
          [] p = "POST_RELEASE_CLEARANCE" -> ClearanceTick(t)
          [] p = "FAST_APPROACH" -> ApproachTick(t, pressed, -FastVelocity)
          [] p = "SLOW_APPROACH" -> ApproachTick(t, pressed, -SlowVelocity)
          [] p = "POST_HOME_PARK" -> ParkTick(t)
          [] OTHER -> FailHome(t, "ABORTED")

DirectionCheckTick(t, pressed) ==
    IF pressed
    THEN [ref  |-> [t.ref EXCEPT !.operation = "IDLE", !.remaining = 0,
                                 !.disableReq = TRUE],
          axis |-> ForceStop(t.axis)]
    ELSE Drive(t, CheckVelocity)

\* No operation: the endstop and zero bound a velocity command.
Downward(s) == s.velocity < 0 \/ s.target < 0

IdleTick(t, pressed) ==
    LET hit     == t.ref.homed /\ pressed /\ Downward(t.axis)
        held    == t.ref.latched \/ hit
        settled == held /\ TriggerIsStable(t.ref)
        halted  == IF hit THEN ForceStop(t.axis) ELSE t.axis
        placed  == IF settled THEN SetPosition(halted, 0) ELSE halted
        atZero  == t.ref.homed /\ placed.position <= 0
    IN  [ref  |-> [t.ref EXCEPT
                     !.latched  = held /\ pressed /\ ~settled,
                     !.minLimit = \/ t.ref.homed /\ placed.position = 0
                                  \/ pressed /\ (@ \/ settled)],
         axis |-> IF atZero /\ Downward(placed) THEN ForceStop(placed)
                                                ELSE placed]

JogsForward(t) == Drive(t, JogVelocity)          \* mutant: ignores the sense
JogTick(t) == Drive(t, IF t.ref.forward THEN JogVelocity ELSE -JogVelocity)

BeforeTick(t0, pressed) ==
    LET t  == [t0 EXCEPT !.ref = UpdateStability(@, pressed)]
        op == t.ref.operation
    IN  CASE op = "HOMING" -> UpdateHome(t, pressed)
          [] op = "JOGGING" -> JogTick(t)
          [] op = "DIRECTION_CHECKING" -> DirectionCheckTick(t, pressed)
          [] OTHER -> IdleTick(t, pressed)

-----------------------------------------------------------------------------
\* Whether a due step may be emitted, at the 20 kHz rate.
AboveSwitch(t, pressed) == t.axis.positive \/ ~pressed
AboveZero(t) == t.axis.positive \/ ~t.ref.homed \/ t.axis.position > 0
WithinBounds(t) ==
    /\ t.ref.operation = "HOMING" =>
           t.ref.homePhase = "NONE" \/ ~Exhausted(t.ref)
    /\ t.ref.operation \in {"JOGGING", "DIRECTION_CHECKING"} =>
           t.ref.remaining > 0

AllowIntoSwitch(t, pressed) == AboveZero(t) /\ WithinBounds(t)      \* mutant
AllowBelowZero(t, pressed) ==                                       \* mutant
    AboveSwitch(t, pressed) /\ WithinBounds(t)

AllowStep(t, pressed) ==
    AboveSwitch(t, pressed) /\ AboveZero(t) /\ WithinBounds(t)

\* Called after CommitStep; the last counted step ends a bounded move.
StepCommitted(t) ==
    LET r       == t.ref
        bounded == r.operation \in {"JOGGING", "DIRECTION_CHECKING"}
        left    == IF r.remaining > 0 THEN r.remaining - 1 ELSE 0
        done    == bounded /\ left = 0
    IN  [ref  |-> [r EXCEPT
                     !.phaseSteps = IF r.operation = "HOMING" THEN @ + 1 ELSE @,
                     !.remaining  = IF bounded THEN left ELSE @,
                     !.operation  = IF done THEN "IDLE" ELSE @,
                     !.disableReq =
                         @ \/ (done /\ r.operation = "DIRECTION_CHECKING"),
                     !.minLimit   =
                         IF r.homed \/ r.homePhase = "POST_HOME_PARK"
                         THEN t.axis.position = 0 ELSE @],
         axis |-> IF done THEN ForceStop(t.axis) ELSE t.axis]

Abort(t) ==
    LET homing == t.ref.operation = "HOMING"
    IN  [ref  |-> [t.ref EXCEPT
                     !.operation = "IDLE", !.homePhase = "NONE",
                     !.remaining = 0,
                     !.homeStatus = IF homing THEN "ABORTED" ELSE @,
                     !.homed = @ /\ ~homing,
                     !.minLimit = @ /\ ~homing,
                     !.disableReq =
                         @ \/ t.ref.operation = "DIRECTION_CHECKING"],
         axis |-> Stop(t.axis)]

Unreference(t, status, request) ==
    [ref  |-> [t.ref EXCEPT
                 !.operation = "IDLE", !.homePhase = "NONE",
                 !.homeStatus = status, !.remaining = 0, !.homed = FALSE,
                 !.minLimit = FALSE, !.disableReq = request,
                 !.latched = FALSE],
     axis |-> Stop(t.axis)]

DisableOnlyAborts(t) == Abort(t)    \* mutant: the reference survives
OnDisable(t) ==
    Unreference(t, IF t.ref.operation = "HOMING" THEN "ABORTED" ELSE "IDLE",
                FALSE)

OnDriverFault(t) == Unreference(t, "DRIVER_FAULT", TRUE)

TakeDisableRequest(r) == [r EXCEPT !.disableReq = FALSE]
=============================================================================
