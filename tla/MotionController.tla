-------------------------- MODULE MotionController --------------------------
(***************************************************************************)
(* The two-axis motion controller of the firmware: the TIM4 interrupt that *)
(* moves the axes (tim4_isr) and the commands the main loop executes       *)
(* (src/motion_controller.c, and the two handlers of src/protocol.c that   *)
(* are not one critical section: DRIVER? and DRIVER CONFIGURE).            *)
(*                                                                         *)
(* Every motion_controller_* function masks the interrupt, so it is one    *)
(* action; between two steps of a main-loop handler the interrupt runs.    *)
(* A refused command that changes nothing is a stuttering step.            *)
(***************************************************************************)
EXTENDS TiltReference, DriverDevice

CONSTANTS
    PanFaults,            \* what may go wrong with the PAN driver
    TiltFaults,           \* what may go wrong with the TILT driver
    TicksPerControl,      \* MOTION_SCHEDULER_TICKS_PER_CONTROL_TICK, 20
    DirectionCalibrated,  \* BOARD_TILT_DIRECTION_CALIBRATED
    HostAxes,             \* the axes the host addresses
    HostVelocities,       \* the velocities the host asks for
    HostJogs,             \* the jogs the host asks for
    PanRange, TiltRange,  \* bound: the host moves an axis away from zero only
                          \* while its position is below this
    HostMayVanish         \* whether the host may fall silent for good

ASSUME ControllerAssumption ==
    /\ PanFaults \subseteq FaultKinds
    /\ TiltFaults \subseteq FaultKinds
    /\ TicksPerControl \in Nat \ {0, 1}
    /\ DirectionCalibrated \in BOOLEAN
    /\ HostAxes \subseteq Axes
    /\ HostVelocities \subseteq Int
    /\ HostJogs \subseteq Int
    /\ PanRange \in Nat /\ TiltRange \in Nat
    /\ HostMayVanish \in BOOLEAN

Faults(a) == IF a = "PAN" THEN PanFaults ELSE TiltFaults

VARIABLES
    axis,       \* pan_state and tilt_state
    ref,        \* tilt_reference
    sub,        \* scheduler_ticks_until_control
    pinEn,      \* the EN pin of each driver asserted (they are active low)
    pinDir,     \* the DIR pins; TRUE turns the shaft in the positive sense
    dev,        \* pan_driver and tilt_driver
    main,       \* where the main loop is in a DRIVER command
    endstop,    \* the TILT endstop, an input
    host,       \* whether the host still sends commands
    pulse       \* the STEP edges of the last step, signed by the DIR pin

vars == <<axis, ref, sub, pinEn, pinDir, dev, main, endstop, host, pulse>>

MainPcs == {"IDLE", "REFRESH", "SNAPSHOT", "FAULT", "CHECK_TILT", "CONFIGURE"}
NoPulse == [a \in Axes |-> 0]
Idle == [pc |-> "IDLE", axis |-> "PAN", ticked |-> FALSE]

Tilt == [ref |-> ref, axis |-> axis["TILT"]]

Init ==
    /\ axis = [a \in Axes |-> InitialAxis]
    /\ ref = InitialRef
    /\ sub = TicksPerControl
    /\ pinEn = [a \in Axes |-> FALSE]
    /\ pinDir = [a \in Axes |-> a = "PAN"]
    /\ dev \in [Axes -> DriverState]
    /\ \A a \in Axes : dev[a] \in BootOutcomes(Faults(a))
    /\ main = Idle
    /\ endstop \in BOOLEAN
    /\ host = TRUE
    /\ pulse = NoPulse

-----------------------------------------------------------------------------
\* The interrupt.  A frame is what its control stage hands to its step stage.
CurrentFrame == [axis |-> axis, ref |-> ref, pinEn |-> pinEn,
                 pinDir |-> pinDir]

\* Every TicksPerControl-th interrupt: reference, ramps, DIR and EN pins and
\* a disable the reference asked for.
ControlFrame ==
    LET before == BeforeTick(Tilt, endstop)
        pan    == ControlTick(axis["PAN"])
        tilt   == ControlTick(before.axis)
        asked  == before.ref.disableReq
        level  == IF before.ref.operation = "DIRECTION_CHECKING"
                  THEN before.ref.checkHigh ELSE tilt.positive
    IN  [axis   |-> [a \in Axes |->
                       IF a = "PAN" THEN pan
                       ELSE IF asked THEN RequestDisable(tilt) ELSE tilt],
         ref    |-> TakeDisableRequest(before.ref),
         pinEn  |-> [a \in Axes |->
                       /\ pinEn[a]
                       /\ IF a = "PAN" THEN ~DisableDriver(axis["PAN"])
                          ELSE /\ ~DisableDriver(before.axis)
                               /\ ~(asked /\ DisablesAtOnce(tilt))],
         pinDir |-> [a \in Axes |->
                       IF a = "PAN"
                       THEN IF DirectionChanged(axis["PAN"]) THEN pan.positive
                            ELSE pinDir[a]
                       ELSE IF DirectionChanged(before.axis) THEN level
                            ELSE pinDir[a]]]

\* Every interrupt: the phase accumulators and the steps they release.
PanSteps(f) == SchedulerTickSteps(f.axis["PAN"])
PanStage(f) ==
    LET s == SchedulerTick(f.axis["PAN"])
    IN  IF PanSteps(f) THEN CommitStep(s) ELSE s

TiltSteps(f) ==
    /\ SchedulerTickSteps(f.axis["TILT"])
    /\ AllowStep([ref |-> f.ref, axis |-> SchedulerTick(f.axis["TILT"])],
                 endstop)
TiltStage(f) ==
    LET s == SchedulerTick(f.axis["TILT"])
    IN  IF TiltSteps(f)
        THEN StepCommitted([ref |-> f.ref, axis |-> CommitStep(s)])
        ELSE [ref |-> f.ref, axis |-> s]

Edge(f, a, steps) == IF ~steps THEN 0 ELSE IF f.pinDir[a] THEN 1 ELSE -1

\* Bound: TILT never counts to an end of int64_t (2^63 steps at 5 kHz).
TiltHorizon == axis["TILT"].position \in (PositionMin + 1)..(PositionMax - 1)

Countdown == TiltHorizon /\ sub' = IF sub = 1 THEN TicksPerControl ELSE sub - 1

Tim4Isr ==
    LET f == IF sub = 1 THEN ControlFrame ELSE CurrentFrame
    IN  /\ Countdown
        /\ axis' = [a \in Axes |-> IF a = "PAN" THEN PanStage(f)
                                                ELSE TiltStage(f).axis]
        /\ ref' = TiltStage(f).ref
        /\ pinEn' = f.pinEn
        /\ pinDir' = f.pinDir
        /\ pulse' = [a \in Axes |-> Edge(f, a, IF a = "PAN" THEN PanSteps(f)
                                                            ELSE TiltSteps(f))]
        /\ main' = IF sub = 1 /\ main.pc # "IDLE"
                   THEN [main EXCEPT !.ticked = TRUE] ELSE main
        /\ UNCHANGED <<dev, endstop, host>>

EndstopChanges ==
    /\ endstop' = ~endstop
    /\ pulse' = NoPulse
    /\ UNCHANGED <<axis, ref, sub, pinEn, pinDir, dev, main, host>>

-----------------------------------------------------------------------------
\* The commands.
HostReady == host /\ main.pc = "IDLE"

Command(a) ==
    /\ HostReady /\ a \in HostAxes
    /\ pulse' = NoPulse
    /\ UNCHANGED <<sub, dev, main, endstop, host>>

\* The bounds PanRange and TiltRange, for a request to move a as v does.
InRange(a, v) ==
    LET range == IF a = "PAN" THEN PanRange ELSE TiltRange
    IN  /\ v > 0 => axis[a].position < range
        /\ v < 0 => axis[a].position > -range

Enable(a) ==
    /\ Command(a)
    /\ Ready(dev[a]) /\ ~axis[a].enabled
    /\ axis' = [axis EXCEPT ![a] = EnableAxis(@)]
    /\ pinDir' = [pinDir EXCEPT ![a] = TRUE]
    /\ pinEn' = [pinEn EXCEPT ![a] = TRUE]
    /\ UNCHANGED ref

\* ENABLE, HOME and DIR-CHECK find the driver not ready: the EN pin is
\* released and nothing else changes.
ReleasePin(a) ==
    /\ Command(a)
    /\ ~Ready(dev[a])
    /\ pinEn' = [pinEn EXCEPT ![a] = FALSE]
    /\ UNCHANGED <<axis, ref, pinDir>>

EnableRefused(a) == ReleasePin(a)

Disable(a) ==
    LET t == IF a = "TILT" THEN OnDisable(Tilt)
                           ELSE [ref |-> ref, axis |-> axis[a]]
    IN  /\ Command(a)
        /\ axis' = [axis EXCEPT ![a] = RequestDisable(t.axis)]
        /\ ref' = t.ref
        /\ pinEn' = [pinEn EXCEPT ![a] = @ /\ ~DisablesAtOnce(t.axis)]
        /\ UNCHANGED pinDir

ValidateTiltVelocity(v) ==
    LET s == axis["TILT"]
        r == ValidateVelocity(s, "TILT", v)
    IN  IF r # "OK" THEN r
        ELSE IF ref.operation # "IDLE" THEN "BUSY"
        ELSE IF ~DirectionCalibrated THEN "DIRECTION_UNCALIBRATED"
        ELSE IF ~ref.homed THEN "NOT_HOMED"
        ELSE IF v < 0 /\ s.position <= 0 THEN "MIN_LIMIT"
        ELSE "OK"

Validated(a, v) ==
    (IF a = "TILT" THEN ValidateTiltVelocity(v)
                   ELSE ValidateVelocity(axis[a], a, v)) = "OK"

SetVelocity(a, v) ==
    /\ Command(a) /\ InRange(a, v)
    /\ Validated(a, v)
    /\ axis' = [axis EXCEPT ![a] = ApplyVelocity(@, v)]
    /\ UNCHANGED <<ref, pinEn, pinDir>>

SetBothVelocities(v, w) ==
    /\ Command("PAN") /\ "TILT" \in HostAxes
    /\ InRange("PAN", v) /\ InRange("TILT", w)
    /\ Validated("PAN", v) /\ Validated("TILT", w)
    /\ axis' = [a \in Axes |-> ApplyVelocity(axis[a],
                                             IF a = "PAN" THEN v ELSE w)]
    /\ UNCHANGED <<ref, pinEn, pinDir>>

StopAll ==
    /\ HostReady
    /\ axis' = [a \in Axes |-> IF a = "PAN" THEN Stop(axis[a])
                                            ELSE Stop(Abort(Tilt).axis)]
    /\ ref' = Abort(Tilt).ref
    /\ pulse' = NoPulse
    /\ UNCHANGED <<sub, pinEn, pinDir, dev, main, endstop, host>>

\* Homing needs an axis at rest; it enables a disabled one.
AtRest == /\ ref.operation = "IDLE"
          /\ ~axis["TILT"].moving /\ ~axis["TILT"].disabling

HomeTilt ==
    LET off == ~axis["TILT"].enabled
    IN  /\ Command("TILT") /\ InRange("TILT", 1) /\ InRange("TILT", -1)
        /\ DirectionCalibrated /\ AtRest /\ Ready(dev["TILT"])
        /\ axis' = [axis EXCEPT !["TILT"] = EnableAxis(@)]
        /\ pinDir' = [pinDir EXCEPT !["TILT"] = @ \/ off]
        /\ pinEn' = [pinEn EXCEPT !["TILT"] = @ \/ off]
        /\ ref' = StartHome(ref, endstop)

HomeRefused == DirectionCalibrated /\ AtRest /\ ReleasePin("TILT")

JogTilt(steps) ==
    LET s == axis["TILT"]
    IN  /\ Command("TILT") /\ InRange("TILT", steps)
        /\ steps # 0 /\ steps \in -JogMax..JogMax
        /\ s.enabled /\ ~s.disabling
        /\ ref.homed /\ ref.operation = "IDLE" /\ ~s.moving
        /\ steps < 0 => -steps <= s.position
        /\ ref' = StartJog(ref, steps)
        /\ UNCHANGED <<axis, pinEn, pinDir>>

\* Only in a build whose TILT direction is not calibrated yet.
CheckAllowed == ~DirectionCalibrated /\ AtRest /\ ~axis["TILT"].enabled
                  /\ ~endstop

DirectionCheckTilt(high) ==
    /\ Command("TILT") /\ InRange("TILT", 1)
    /\ CheckAllowed /\ Ready(dev["TILT"])
    /\ axis' = [axis EXCEPT !["TILT"] = EnableAxis(@)]
    /\ pinDir' = [pinDir EXCEPT !["TILT"] = high]
    /\ pinEn' = [pinEn EXCEPT !["TILT"] = TRUE]
    /\ ref' = StartDirectionCheck(ref, high)

DirectionCheckRefused == CheckAllowed /\ ReleasePin("TILT")

HostVanishes ==
    /\ HostMayVanish /\ host
    /\ host' = FALSE
    /\ pulse' = NoPulse
    /\ UNCHANGED <<axis, ref, sub, pinEn, pinDir, dev, main, endstop>>

-----------------------------------------------------------------------------
\* DRIVER? a: refresh the driver, then shut the axis down on a fault.  A UART
\* access that succeeds outlasts a control tick (main.ticked).
InHandler(pc) ==
    /\ main.pc = pc
    /\ pulse' = NoPulse
    /\ UNCHANGED <<sub, endstop, host>>

Goto(pc, a) == main' = [pc |-> pc, axis |-> a, ticked |-> FALSE]

QueryDriver(a) ==
    /\ HostReady /\ a \in HostAxes
    /\ Goto("REFRESH", a)
    /\ pulse' = NoPulse
    /\ UNCHANGED <<axis, ref, sub, pinEn, pinDir, dev, endstop, host>>

FaultIsFatal(d) == d.fatal          \* mutant: a driver reset is overlooked
FaultFound(d) == d.fatal \/ d.error = "RESET"

RefreshDriver ==
    LET a == main.axis
    IN  /\ InHandler("REFRESH")
        /\ \E d \in RefreshOutcomes(dev[a], Faults(a)) :
              /\ d.error = "COMM" \/ main.ticked
              /\ dev' = [dev EXCEPT ![a] = d]
              /\ IF FaultFound(d) THEN Goto("SNAPSHOT", a) ELSE main' = Idle
        /\ UNCHANGED <<axis, ref, pinEn, pinDir>>

SnapshotAfterRefresh ==
    /\ InHandler("SNAPSHOT")
    /\ IF axis[main.axis].enabled THEN Goto("FAULT", main.axis)
                                  ELSE main' = Idle
    /\ UNCHANGED <<axis, ref, pinEn, pinDir, dev>>

DriverFault ==
    LET a == main.axis
        t == IF a = "TILT" THEN OnDriverFault(Tilt)
                           ELSE [ref |-> ref, axis |-> Stop(axis[a])]
    IN  /\ InHandler("FAULT")
        /\ axis' = [axis EXCEPT ![a] = RequestDisable(t.axis)]
        /\ ref' = t.ref
        /\ pinEn' = [pinEn EXCEPT ![a] = @ /\ ~DisablesAtOnce(t.axis)]
        /\ main' = Idle
        /\ UNCHANGED <<pinDir, dev>>

\* DRIVER CONFIGURE: both axes must be inactive; then PAN, then TILT.
AxisInactive(a) ==
    /\ ~axis[a].enabled /\ ~axis[a].moving /\ ~axis[a].disabling
    /\ a = "TILT" => ref.operation = "IDLE"

ConfigureDrivers ==
    /\ HostReady
    /\ AxisInactive("PAN")
    /\ Goto("CHECK_TILT", "TILT")
    /\ pulse' = NoPulse
    /\ UNCHANGED <<axis, ref, sub, pinEn, pinDir, dev, endstop, host>>

ChecksOnlyPan ==                    \* mutant: the second check is missing
    /\ InHandler("CHECK_TILT")
    /\ Goto("CONFIGURE", "PAN")
    /\ UNCHANGED <<axis, ref, pinEn, pinDir, dev>>

CheckTilt ==
    /\ InHandler("CHECK_TILT")
    /\ IF AxisInactive("TILT") THEN Goto("CONFIGURE", "PAN") ELSE main' = Idle
    /\ UNCHANGED <<axis, ref, pinEn, pinDir, dev>>

ConfigureDriver ==
    LET a == main.axis
    IN  /\ InHandler("CONFIGURE")
        /\ \E d \in ConfigureDriverOutcomes(dev[a], Faults(a)) :
              /\ Ready(dev[a]) \/ d.error = "COMM" \/ main.ticked
              /\ dev' = [dev EXCEPT ![a] = d]
        /\ IF a = "PAN" THEN Goto("CONFIGURE", "TILT") ELSE main' = Idle
        /\ UNCHANGED <<axis, ref, pinEn, pinDir>>

DriverHandler == \/ RefreshDriver \/ SnapshotAfterRefresh \/ DriverFault
                 \/ CheckTilt \/ ConfigureDriver

\* The handlers of protocol.c that answer one kind of line each.
HandleVelocity ==
    \/ \E a \in Axes, v \in HostVelocities : SetVelocity(a, v)
    \/ \E v, w \in HostVelocities : SetBothVelocities(v, w)

HandleEnable == \E a \in Axes : Enable(a) \/ EnableRefused(a)

HandleDisable == \E a \in Axes : Disable(a)

HostCommand ==
    \/ HandleVelocity \/ HandleEnable \/ HandleDisable
    \/ \E a \in Axes : QueryDriver(a)
    \/ \E n \in HostJogs : JogTilt(n)
    \/ \E high \in BOOLEAN : DirectionCheckTilt(high)
    \/ StopAll \/ HomeTilt \/ HomeRefused \/ DirectionCheckRefused
    \/ ConfigureDrivers

Next == Tim4Isr \/ EndstopChanges \/ HostVanishes \/ DriverHandler
          \/ HostCommand

Spec == Init /\ [][Next]_vars

\* The timer interrupt recurs for ever (nothing masks it for longer than a
\* bounded critical section) and the main loop finishes what it started.  The
\* interrupt is the only step that changes sub, and each one does, so fairness
\* of the countdown is fairness of Tim4Isr.
FairSpec == Spec /\ WF_sub(Countdown) /\ WF_vars(DriverHandler)
=============================================================================
