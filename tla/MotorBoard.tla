------------------------------ MODULE MotorBoard ------------------------------
(***************************************************************************)
(* The board as its command line shows it: what a command does to an axis  *)
(* and what the firmware answers (protocol_dispatch of src/protocol.c and  *)
(* the motion_controller_* command it calls).  How an axis moves is the    *)
(* matter of MotionController; here a motion only has a kind and an end.   *)
(*   OFF      disabled                REST       enabled and standing      *)
(*   BUSY     moving, jogging or checking the direction                    *)
(*   HOMING   looking for the switch  RELEASING  ramping down to OFF       *)
(* and of a driver only its class counts, as DriverDevice tells it:        *)
(*   READY    driver_control_ready    LOST       its configuration is void *)
(*   UNSURE   configured, but the last access failed or found a fatal      *)
(*            status: a later status read may find it ready again          *)
(***************************************************************************)
EXTENDS HostScripts

Modes == {"OFF", "REST", "BUSY", "HOMING", "RELEASING"}
Drivers == {"READY", "UNSURE", "LOST"}
BoardState == [mode : [Axes -> Modes], driver : [Axes -> Drivers],
               homed : BOOLEAN, calibrated : BOOLEAN]

Engaged(b, a) == b.mode[a] # "OFF"
Standing(b, a) == b.mode[a] \in {"OFF", "REST"}
Ready(b, a) == b.driver[a] = "READY"

\* An axis that loses its power or its operation loses the reference.
WithMode(b, a, mode) ==
    [b EXCEPT !.mode[a] = mode,
              !.homed = @ /\ (a = "PAN" \/ mode \in {"REST", "BUSY"})]

Released(b, a) ==
    WithMode(b, a, IF Standing(b, a) THEN "OFF" ELSE "RELEASING")
Stopped(b) == IF b.mode["TILT"] = "HOMING" THEN WithMode(b, "TILT", "BUSY")
              ELSE b

-----------------------------------------------------------------------------
\* A reply: its kind, the axis it names and what it says.
Reply(kind, axis, says) == [kind |-> kind, axis |-> axis, says |-> says]
Ok == Reply("OK", "BOTH", "NOTHING")
Err == Reply("ERR", "BOTH", "NOTHING")
Cut == Reply("CUT", "BOTH", "NOTHING")      \* the head of a reply that said OK
Junk == Reply("JUNK", "BOTH", "NOTHING")    \* the rest of a reply

Snapshot(b, a) ==
    IF b.mode[a] = "HOMING" THEN "HOMING"
    ELSE IF ~Standing(b, a) THEN "BUSY"
    ELSE IF a = "TILT" /\ b.homed THEN "HOMED"
    ELSE "REST"

StateReply(b, a) == Reply("STATE", a, Snapshot(b, a))
DriverReply(b, a) ==
    Reply("DRIVER", a, IF Ready(b, a) THEN "READY" ELSE "NOT_READY")

Effect(b, r) == [board |-> b, reply |-> r]
Refusal(b) == Effect(b, Err)

Named(axis) == IF axis = "BOTH" THEN Axes ELSE {axis}
MayMove(b, a) == /\ b.mode[a] \in {"REST", "BUSY"}
                 /\ a = "TILT" => b.calibrated /\ b.homed

\* What a status read may find of a driver of class c, and whether that is a
\* fault: a fatal status or the first sight of a reset, not a failed access.
Finding(class, fault) == [class |-> class, fault |-> fault]
Findings(c) ==
    IF c = "LOST" THEN {Finding("LOST", fault) : fault \in BOOLEAN}
    ELSE {Finding("READY", FALSE), Finding("UNSURE", FALSE),
          Finding("UNSURE", TRUE), Finding("LOST", TRUE)}

\* The status is read; a fault shuts the axis down if it is enabled.
Refreshed(b, a) ==
    {LET c == [b EXCEPT !.driver[a] = f.class]
     IN  IF f.fault /\ b.mode[a] \notin {"OFF", "RELEASING"}
         THEN Released(c, a) ELSE c : f \in Findings(b.driver[a])}

\* A ready driver is left alone, any other is probed and written anew.
Configured(c) == IF c = "READY" THEN {c} ELSE Drivers

\* What the board may do with a request, and answer.
Effects(b, q) ==
    LET a == q.axis
    IN  CASE q.do \in {"PING", "INFO"} -> {Effect(b, Ok)}
          [] q.do = "DRIVER-DIAG?" -> {Effect(b, Reply("DIAG", a, "NOTHING"))}
          [] q.do = "STOP" -> {Effect(Stopped(b), Ok)}
          [] q.do = "DISABLE" -> {Effect(Released(b, a), Ok)}
          [] q.do = "STATE?" -> {Effect(b, StateReply(b, a))}
          [] q.do = "ENDSTOP?" ->
               {Effect(b, Reply("ENDSTOP", "TILT", says)) :
                  says \in {"TRIGGERED", "RELEASED"}}
          [] q.do = "DRIVER?" ->
               {Effect(c, DriverReply(c, a)) : c \in Refreshed(b, a)}
          [] q.do = "DRIVER CONFIGURE" ->
               IF \E x \in Axes : Engaged(b, x) THEN {Refusal(b)}
               ELSE {Effect([b EXCEPT !.driver = driver],
                            IF \A x \in Axes : driver[x] = "READY"
                            THEN Ok ELSE Err) :
                       driver \in {d \in [Axes -> Drivers] :
                                     \A x \in Axes : d[x] \in Configured(b.driver[x])}}
          [] q.do = "ENABLE" ->
               IF ~Ready(b, a) THEN {Refusal(b)}
               ELSE {Effect(IF Engaged(b, a) THEN b
                            ELSE WithMode(b, a, "REST"), Ok)}
          [] q.do = "VEL" ->
               {Refusal(b)} \cup
               (IF \E x \in Named(a) : ~MayMove(b, x) THEN {}
                ELSE {Effect([b EXCEPT !.mode = [x \in Axes |->
                                IF x \in Named(a) THEN "BUSY" ELSE @[x]]], Ok)})
          [] q.do = "HOME" ->
               IF b.calibrated /\ Ready(b, "TILT") /\ Standing(b, "TILT")
               THEN {Effect(WithMode(b, "TILT", "HOMING"), Ok)}
               ELSE {Refusal(b)}
          [] q.do = "JOG" ->
               {Refusal(b)} \cup
               (IF b.homed /\ b.mode["TILT"] = "REST"
                THEN {Effect(WithMode(b, "TILT", "BUSY"), Ok)} ELSE {})
          [] q.do = "DIR-CHECK" ->
               {Refusal(b)} \cup
               (IF ~b.calibrated /\ Ready(b, "TILT") /\ b.mode["TILT"] = "OFF"
                THEN {Effect(WithMode(b, "TILT", "BUSY"), Ok)} ELSE {})

\* A motion ends on its own: the lease runs out, a jog is done, a direction
\* check powers the axis down, a home succeeds or fails.
Ended(b, a) ==
    CASE b.mode[a] = "RELEASING" -> {WithMode(b, a, "OFF")}
      [] b.mode[a] = "BUSY" ->
           {WithMode(b, a, "REST")}
             \cup (IF b.calibrated \/ a = "PAN" THEN {}
                   ELSE {WithMode(b, a, "OFF")})
      [] b.mode[a] = "HOMING" ->
           {[WithMode(b, a, "REST") EXCEPT !.homed = TRUE],
            WithMode(b, a, "RELEASING")}
      [] OTHER -> {}
=============================================================================
