---------------------------- MODULE DriverDevice ----------------------------
(***************************************************************************)
(* What the firmware knows of one TMC2209 driver (tmc2209_device_t) and    *)
(* the outcomes a status refresh, a probe and a configuration may have     *)
(* (src/tmc2209.c, src/driver_control.c), with the register traffic        *)
(* abstracted to its result.  Only the main loop touches these fields.     *)
(*   "COMM" stands for every transport, echo, CRC, IFCNT, readback and     *)
(*   version error: the code treats them all alike.                        *)
(***************************************************************************)

\* What may go wrong; the operators take the set of what may in one driver.
FaultKinds == {"COMM", "RESET", "FATAL"}

DriverState ==
    [state : {"UNKNOWN", "PRESENT", "CONFIGURED", "ERROR"},
     error : {"NONE", "COMM", "RESET", "FATAL"},
     valid : BOOLEAN,
     fatal : BOOLEAN]

InitialDevice ==
    [state |-> "UNKNOWN", error |-> "NONE", valid |-> FALSE, fatal |-> FALSE]

Ready(d) ==
    /\ d.state = "CONFIGURED"
    /\ d.valid
    /\ d.error = "NONE"
    /\ ~d.fatal

\* set_error with a communication error: everything else is kept.
CommFailures(d, faults) ==
    IF "COMM" \in faults
    THEN {[d EXCEPT !.state = "ERROR", !.error = "COMM"]} ELSE {}

\* A complete status read: GSTAT.reset invalidates a valid configuration and
\* is reported once; a fatal status wins over everything.
Observe(d, reset, fatal, healthy) ==
    LET lost == d.valid /\ reset
    IN  IF fatal
        THEN [state |-> "ERROR", error |-> "FATAL",
              valid |-> d.valid /\ ~lost, fatal |-> TRUE]
        ELSE [state |-> IF d.valid /\ ~lost THEN healthy ELSE "PRESENT",
              error |-> IF lost THEN "RESET" ELSE "NONE",
              valid |-> d.valid /\ ~lost, fatal |-> FALSE]

Observations(d, faults, healthy) ==
    {Observe(d, reset, fatal, healthy) :
        reset \in {r \in BOOLEAN : r => "RESET" \in faults},
        fatal \in {f \in BOOLEAN : f => "FATAL" \in faults}}

RefreshOutcomes(d, faults) ==
    CommFailures(d, faults) \cup Observations(d, faults, "CONFIGURED")

\* A probe forgets a fatal status before the first access and always ends in
\* PRESENT or ERROR, also when the configuration is still valid.
ProbeOutcomes(d, faults) ==
    LET cleared == [d EXCEPT !.fatal = FALSE]
    IN  CommFailures(cleared, faults)
              \cup Observations(cleared, faults, "PRESENT")

\* The configuration writes: one of them fails, or all are verified and the
\* status is read back.
ConfigureOutcomes(d, faults) ==
    CommFailures([d EXCEPT !.valid = FALSE], faults)
      \cup RefreshOutcomes([d EXCEPT !.valid = TRUE], faults)

\* configure_driver: untouched when ready, probed first when not known good.
ConfigureDriverOutcomes(d, faults) ==
    LET probed == ProbeOutcomes(d, faults)
    IN  IF Ready(d) THEN {d}
        ELSE IF d.state \in {"PRESENT", "CONFIGURED"}
        THEN ConfigureOutcomes(d, faults)
        ELSE {p \in probed : p.state = "ERROR"}
               \cup UNION {ConfigureOutcomes(p, faults) :
                             p \in {q \in probed : q.state = "PRESENT"}}

\* driver_control_init: both drivers are probed; a UART that did not start
\* leaves what a probe whose first access fails leaves.
BootOutcomes(faults) == ProbeOutcomes(InitialDevice, faults)
=============================================================================
