----------------------------- MODULE HostScripts -----------------------------
(***************************************************************************)
(* The actions of the host utility (main of host/sentry_mcu.py) as tables  *)
(* of steps.  Each step sends one request and waits for one line.          *)
(*   zone    the try / finally block the step stands in: an exception goes *)
(*           on with the first step of a later zone, if there is one       *)
(*   expect  what the line has to say for the script to go on              *)
(***************************************************************************)
EXTENDS Naturals, Sequences

Axes == {"PAN", "TILT"}
Other(a) == IF a = "PAN" THEN "TILT" ELSE "PAN"

Step(zone, do, axis, expect) ==
    [zone |-> zone, do |-> do, axis |-> axis, expect |-> expect]

Send(do, axis) == <<Step(0, do, axis, "ANY")>>          \* command
State(zone, a) == <<Step(zone, "STATE?", a, "PARSED")>> \* state
WaitForStop(zone, a) == <<Step(zone, "STATE?", a, "REST")>>
WaitForHome(zone) == <<Step(zone, "STATE?", "TILT", "HOMED")>>
Endstop(expect) == <<Step(0, "ENDSTOP?", "TILT", expect)>>

\* The second and third step are skipped when the first finds a ready driver.
PrepareAxisMotorTest(a) ==
    <<Step(0, "DRIVER?", a, "READY_OR_CONFIGURE"),
      Step(0, "DRIVER CONFIGURE", "BOTH", "ANY"),
      Step(0, "DRIVER?", a, "READY"),
      Step(0, "DRIVER?", Other(a), "PARSED")>>

CheckCalibration == <<Step(0, "STATE?", "TILT", "CALIBRATED")>>

QueryDriverReport(a) ==
    <<Step(0, "DRIVER?", a, "PARSED"), Step(0, "DRIVER-DIAG?", a, "PARSED")>>

RunSegment(a) ==
    <<Step(1, "VEL", a, "REFRESH"), Step(1, "STOP", "BOTH", "OK")>>
      \o State(1, a) \o WaitForStop(1, a)

RunDualSegment ==
    <<Step(1, "VEL", "BOTH", "REFRESH"), Step(1, "STOP", "BOTH", "OK")>>
      \o WaitForStop(1, "PAN") \o WaitForStop(1, "TILT")

Greeting == <<Step(0, "PING", "BOTH", "OK"), Step(0, "INFO", "BOTH", "OK")>>
HomeTilt(zone) == <<Step(zone, "HOME", "TILT", "OK")>>

DisablesAfterWait(a) ==             \* mutant: no finally around the DISABLE
    <<Step(0, "ENABLE", a, "OK")>> \o RunSegment(a)
      \o <<Step(2, "STOP", "BOTH", "OK")>> \o WaitForStop(2, a)
      \o <<Step(2, "DISABLE", a, "OK")>> \o State(2, a)
RunMotorTest(a) ==
    Greeting \o PrepareAxisMotorTest(a)
      \o (IF a = "TILT" THEN CheckCalibration ELSE << >>)
      \o <<Step(0, "ENABLE", a, "OK")>>
      \o (IF a = "TILT" THEN HomeTilt(1) \o WaitForHome(1) ELSE << >>)
      \o RunSegment(a) \o RunSegment(a)
      \o <<Step(2, "STOP", "BOTH", "OK")>> \o WaitForStop(2, a)
      \o <<Step(3, "DISABLE", a, "OK")>> \o State(3, a)

\* STOP and the two DISABLE stand in a try of their own each.
RunDualMotorTest ==
    Greeting \o PrepareAxisMotorTest("PAN") \o PrepareAxisMotorTest("TILT")
      \o CheckCalibration
      \o <<Step(0, "ENABLE", "PAN", "OK"), Step(0, "ENABLE", "TILT", "OK")>>
      \o HomeTilt(1) \o WaitForHome(1)
      \o RunDualSegment \o RunDualSegment
      \o <<Step(2, "STOP", "BOTH", "ANY"), Step(3, "DISABLE", "PAN", "ANY"),
           Step(4, "DISABLE", "TILT", "ANY")>>
      \o State(5, "PAN") \o State(5, "TILT")

Script(name, a) ==
    CASE name = "motor-test" -> RunMotorTest(a)
      [] name = "dual-motor-test" -> RunDualMotorTest
      [] name = "home-tilt" ->
           PrepareAxisMotorTest("TILT") \o CheckCalibration
             \o Endstop("PARSED") \o HomeTilt(0) \o WaitForHome(0)
      [] name = "tilt-dir-check" ->
           PrepareAxisMotorTest("TILT") \o Endstop("RELEASED")
             \o <<Step(0, "DIR-CHECK", "TILT", "OK")>> \o WaitForStop(0, "TILT")
      [] name = "jog-tilt" ->
           <<Step(0, "JOG", "TILT", "OK")>> \o WaitForStop(0, "TILT")
      [] name = "state" -> State(0, a)
      [] name = "driver" -> QueryDriverReport(a)
      [] name = "endstop" -> Endstop("PARSED")
      [] name = "configure-drivers" ->
           <<Step(0, "DRIVER CONFIGURE", "BOTH", "OK")>>
      [] name = "velocity" -> Send("VEL", a)
      [] name = "enable" -> Send("ENABLE", a)
      [] name = "disable" -> Send("DISABLE", a)
      [] name = "stop" -> Send("STOP", "BOTH")
      [] name = "ping" -> Send("PING", "BOTH")
      [] name = "info" -> Send("INFO", "BOTH")

Names == {"motor-test", "dual-motor-test", "home-tilt", "tilt-dir-check",
          "jog-tilt", "state", "driver", "endstop", "configure-drivers",
          "velocity", "enable", "disable", "stop", "ping", "info"}
=============================================================================
