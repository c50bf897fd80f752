----------------------------- MODULE DriverCalls -----------------------------
(***************************************************************************)
(* What the callers of one TMC2209 driver see: each call of                *)
(* src/driver_control.c is one step with one of the outcomes DriverDevice  *)
(* lists.  MotionController uses the drivers at this level; Tmc2209, which *)
(* exchanges the datagrams, implements it.                                 *)
(***************************************************************************)
EXTENDS DriverDevice

VARIABLE dev            \* the tmc2209_device_t between two calls

CallsInit == dev = InitialDevice

\* The state is UNKNOWN only before the boot probe.
Booted == dev.state # "UNKNOWN"

Boot == ~Booted /\ dev' \in BootOutcomes(FaultKinds)
Refresh == Booted /\ dev' \in RefreshOutcomes(dev, FaultKinds)
Configure == Booted /\ dev' \in ConfigureDriverOutcomes(dev, FaultKinds)

CallsSpec == CallsInit /\ [][Boot \/ Refresh \/ Configure]_dev
=============================================================================
