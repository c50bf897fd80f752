-------------------------- MODULE MotionProperties --------------------------
(***************************************************************************)
(* What the two-axis controller of MotionController promises.              *)
(***************************************************************************)
EXTENDS MotionController

\* Every variable has its type: the phase stays below one step, velocities
\* within the limit of their axis, leases within LeaseTicks.
TypeOK ==
    /\ axis \in [Axes -> AxisState("PAN") \cup AxisState("TILT")]
    /\ \A a \in Axes : axis[a] \in AxisState(a)
    /\ ref \in TiltRef
    /\ sub \in 1..TicksPerControl
    /\ pinEn \in [Axes -> BOOLEAN]
    /\ pinDir \in [Axes -> BOOLEAN]
    /\ dev \in [Axes -> DriverState]
    /\ main \in [pc : MainPcs, axis : Axes, ticked : BOOLEAN]
    /\ endstop \in BOOLEAN
    /\ host \in BOOLEAN
    /\ pulse \in [Axes -> {-1, 0, 1}]

Operating == ref.operation # "IDLE"
Parking == ref.homePhase = "POST_HOME_PARK"
Referenced == ref.homed \/ Parking

\* A TILT shaft turns the way the firmware believes in a calibrated build.
Oriented(a) == a = "PAN" \/ DirectionCalibrated

-----------------------------------------------------------------------------
(* Safety.                                                                 *)

\* A disabled axis is inert: no velocity, target, lease, pending disable or
\* tilt operation survives a disable, whichever way it came about (command,
\* ramp end in the interrupt, failed home, driver fault).
InertWhenDisabled(a) ==
    ~axis[a].enabled =>
        /\ axis[a].velocity = 0 /\ axis[a].target = 0 /\ axis[a].lease = 0
        /\ ~axis[a].moving /\ ~axis[a].disabling
        /\ a = "TILT" => ~Operating
DisabledAxisIsInert == \A a \in Axes : InertWhenDisabled(a)

\* A driver is energised only while its axis is enabled, and while it turns
\* the DIR pin shows the sign of the velocity the firmware integrates.
PinsFollowAxis ==
    \A a \in Axes :
        /\ pinEn[a] => axis[a].enabled
        /\ axis[a].moving <=> axis[a].velocity # 0
        /\ axis[a].moving => axis[a].positive = (axis[a].velocity > 0)
        /\ axis[a].moving /\ Oriented(a) => pinDir[a] = axis[a].positive

\* No command drives an axis without a running lease: a nonzero target that
\* no tilt operation set always has ticks left, and a disabling axis none.
LeaseCoversEveryCommand ==
    \A a \in Axes :
        /\ axis[a].target # 0 =>
              axis[a].lease > 0 \/ (a = "TILT" /\ Operating)
        /\ axis[a].disabling => axis[a].target = 0 /\ axis[a].lease = 0

\* The tilt reference exists only on a powered axis that is not going down:
\* every way to disable TILT loses the reference first.
ReferenceNeedsPower ==
    ref.homed \/ Operating => /\ axis["TILT"].enabled
                              /\ ~axis["TILT"].disabling
                              /\ ~ref.disableReq

\* Neither a disabled axis nor a reference outlives the power of its driver,
\* in whichever order a command, the ramp and a fault take it away.
NothingOutlivesPower == DisabledAxisIsInert /\ ReferenceNeedsPower

\* A referenced tilt axis is never counted below its switch, not by a ramp
\* that overshoots nor by a jog: the steps a negative jog still owes fit.
HomedNeverBelowZero ==
    /\ Referenced => axis["TILT"].position >= 0
    /\ ref.operation = "JOGGING" =>
          /\ ref.homed
          /\ ~ref.forward => axis["TILT"].position >= ref.remaining

\* Homing commits at most PhaseBound steps in a phase, and parking counts
\* from the switch, so that HOME SUCCESS leaves the axis at Park.
HomingIsBounded ==
    /\ (ref.operation = "HOMING") <=> (ref.homePhase # "NONE")
    /\ ref.operation = "HOMING" => ref.phaseSteps <= PhaseBound(ref.homePhase)
    /\ Parking => axis["TILT"].position = ref.phaseSteps

\* MIN_LIMIT in STATE? TILT says exactly "referenced and at zero".
MinLimitReportsZero ==
    ref.minLimit <=> Referenced /\ axis["TILT"].position = 0

\* What a referenced TILT axis reports and counts is true: it stays above its
\* switch, within the steps of every homing phase, and says when it is at zero.
ReferenceIsKept == HomedNeverBelowZero /\ HomingIsBounded /\ MinLimitReportsZero

\* No STEP edge is emitted into the pressed switch.
NoEdgeIntoSwitch ==
    DirectionCalibrated /\ endstop => pulse["TILT"] >= 0

\* The drivers are rewritten only while both axes are inactive, although the
\* two checks and the two configurations are separate critical sections.
ConfiguresOnlyInactiveAxes ==
    main.pc = "CONFIGURE" => AxisInactive("PAN") /\ AxisInactive("TILT")

\* Once the main loop has answered, an axis whose driver lost its settings or
\* is fatal is disabled or on its way there.
FaultedAxisIsStopping ==
    main.pc = "IDLE" =>
        \A a \in Axes : \/ ~axis[a].enabled
                        \/ dev[a].valid /\ ~dev[a].fatal
                        \/ axis[a].disabling

-----------------------------------------------------------------------------
(* Action properties.                                                      *)

\* A reversal passes through rest: no step flips the sign of a velocity, and
\* DIR changes only at rest and never together with a STEP edge.
ReversalPassesThroughRest ==
    [][\A a \in Axes :
          /\ ~Opposed(axis[a].velocity, axis'[a].velocity)
          /\ pinDir'[a] # pinDir[a] => axis[a].velocity = 0 /\ pulse'[a] = 0
      ]_vars

\* The position moves with the STEP edges and with nothing else, except that
\* the pressed switch may re-reference TILT to zero before the edge counts.
Counted(p, edge) ==
    IF edge = 1 /\ p = PositionMax THEN PositionMin
    ELSE IF edge = -1 /\ p = PositionMin THEN PositionMax ELSE p + edge

PositionCountsEdges ==
    [][\A a \in Axes :
          LET p == axis[a].position
          IN  Oriented(a) =>
                 \/ axis'[a].position = Counted(p, pulse'[a])
                 \/ a = "TILT" /\ endstop /\ axis'[a].position = pulse'[a]
      ]_vars

\* A jog moves by what it still owes: every step it commits is one step paid,
\* and only an abort forgets the rest.
JogAccountsEveryStep ==
    [][ref.operation = "JOGGING" =>
          LET moved == axis'["TILT"].position - axis["TILT"].position
              paid  == ref.remaining - ref'.remaining
          IN  \/ moved = (IF ref.forward THEN paid ELSE -paid)
              \/ moved = 0 /\ ref'.operation = "IDLE"
      ]_vars

-----------------------------------------------------------------------------
(* Liveness.                                                               *)

\* A lost host does not mean indefinite motion: the STEP edges cease, even if
\* the endstop chatters for ever in the middle of a home.
HostLossStopsMotion == <>(~host) => <>[](pulse = NoPulse)

\* An accepted disable ends with the axis disabled.
DisableCompletes == \A a \in Axes : axis[a].disabling ~> ~axis[a].enabled

\* A home ends once the switch stops chattering.
EndstopSettles == <>[]endstop \/ <>[](~endstop)
HomingEnds ==
    EndstopSettles => ((ref.operation = "HOMING") ~> (ref.operation # "HOMING"))

\* An enabled axis whose driver is found reset or fatal ends up disabled.
FaultedAxisPowersDown ==
    \A a \in Axes : (axis[a].enabled /\ (~dev[a].valid \/ dev[a].fatal))
                        ~> ~axis[a].enabled

\* Power goes once it has been asked to, or a fault has been found.
PowerDownCompletes == DisableCompletes /\ FaultedAxisPowersDown

-----------------------------------------------------------------------------
\* README.md:345: a transient UART error blocks ENABLE only temporarily.  An
\* enabled axis whose driver is CONFIGURED again would then be energised.
EnabledConfiguredAxisIsPowered ==
    main.pc = "IDLE" =>
        \A a \in Axes : axis[a].enabled /\ Ready(dev[a]) => pinEn[a]
=============================================================================
