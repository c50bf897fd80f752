------------------------------- MODULE Tmc2209 -------------------------------
(***************************************************************************)
(* The register traffic with one TMC2209 (src/tmc2209.c over               *)
(* src/tmc_uart.c).  A call is a script of register accesses; an access is *)
(* attempted up to Attempts times, and the chip may reset between any two  *)
(* exchanges.  A configuration write counts only if IFCNT advanced by one  *)
(* and, where the register can be read, the value reads back.              *)
(*   The chip is modelled from what the code expects of it: it counts the  *)
(* writes it accepts in IFCNT, latches GSTAT.reset, and forgets its        *)
(* settings when it resets.  Diagnostic records are left out: nothing is   *)
(* decided from them.                                                      *)
(***************************************************************************)
EXTENDS DriverDevice, Integers, Sequences

CONSTANTS
    Attempts,           \* TMC2209_TRANSACTION_ATTEMPTS, 3
    IfcntModulus        \* IFCNT is a byte, 256

ASSUME RegisterAssumption ==
    /\ Attempts \in Nat \ {0}
    /\ IfcntModulus \in Nat /\ IfcntModulus > Attempts

VARIABLES
    dev,        \* what the firmware knows (tmc2209_device_t)
    op,         \* the script that runs
    step,       \* its next access
    attempt,    \* how often that access has failed
    before,     \* the before_value of write_verified
    saved,      \* the gconf tmc2209_probe read: whether it is the configured one
    gstat,      \* the GSTAT.reset this status read has seen
    onward,     \* whether the probe belongs to DRIVER CONFIGURE
    chip,       \* the driver: IFCNT, latched GSTAT.reset, settings applied
    start,      \* history: dev when the call began
    resetSeen,  \* history: the chip reset since the script or its call began
    hidden      \* history: the last GSTAT clear hid such a reset

local == <<before, saved, gstat, onward>>
call == <<op, step, attempt, local>>
vars == <<dev, call, chip, start, resetSeen, hidden>>

Settings == {"GCONF", "CHOPCONF", "PWMCONF", "IHOLD_IRUN", "TPOWERDOWN",
             "TPWMTHRS"}

\* An access, and what its answer is for.
Read(reg) == << [kind |-> "READ", reg |-> reg, use |-> "VALUE"] >>
ReadBack(reg) == << [kind |-> "READ", reg |-> reg, use |-> "READBACK"] >>
Verified(reg) ==
    << [kind |-> "READ",  reg |-> "IFCNT", use |-> "BEFORE"],
       [kind |-> "WRITE", reg |-> reg,     use |-> "VALUE"],
       [kind |-> "READ",  reg |-> "IFCNT", use |-> "AFTER"] >>

StatusScript == Read("IOIN") \o Read("IFCNT") \o Read("GSTAT")
                  \o Read("DRV_STATUS")
ProbeScript ==
    Verified("NODECONF") \o Read("IOIN") \o Read("GCONF")
      \o Verified("GCONF") \o ReadBack("GCONF")
      \o Read("IFCNT") \o Read("GSTAT") \o Read("DRV_STATUS")
WriteScript ==
    Verified("GCONF") \o ReadBack("GCONF")
      \o Verified("CHOPCONF") \o ReadBack("CHOPCONF")
      \o Verified("PWMCONF") \o ReadBack("PWMCONF")
      \o Verified("IHOLD_IRUN") \o Verified("TPOWERDOWN")
      \o Verified("TPWMTHRS") \o Verified("GSTAT")

Script == [PROBE |-> ProbeScript, WRITE |-> WriteScript,
           STATUS |-> StatusScript]
Running == op \in DOMAIN Script
Current == Script[op][step]
Last == step = Len(Script[op])

\* A chip that has just been powered or has reset.
PowerOn == [ifcnt |-> 0, reset |-> TRUE, set |-> {}]

-----------------------------------------------------------------------------
\* The calls.
Begin(o) == op' = o /\ step' = 1 /\ attempt' = 0
Return == Begin("IDLE")

\* tmc2209_probe starts by forgetting what the last call found.
Probing(d) == [d EXCEPT !.state = "UNKNOWN", !.error = "NONE", !.fatal = FALSE]

\* A failed partial rewrite makes the applied settings unknown.
Rewriting(d) == [d EXCEPT !.valid = FALSE]

\* A transport error keeps what is known of the configuration.
Forgets ==                          \* mutant: it drops the configuration
    /\ dev' = [dev EXCEPT !.state = "ERROR", !.error = "COMM", !.valid = FALSE]
    /\ Return
SetError == dev' = [dev EXCEPT !.state = "ERROR", !.error = "COMM"] /\ Return

Init ==
    /\ op = "BOOT" /\ step = 1 /\ attempt = 0
    /\ before = 0 /\ saved = FALSE /\ gstat = FALSE /\ onward = FALSE
    /\ dev = InitialDevice /\ start = InitialDevice
    /\ chip = PowerOn /\ resetSeen = FALSE /\ hidden = FALSE

\* driver_control_init: the boot probe, or a UART that did not start.
Boot ==
    /\ op = "BOOT"
    /\ \/ Begin("PROBE") /\ dev' = Probing(dev)
       \/ SetError
    /\ UNCHANGED <<local, chip, start, resetSeen, hidden>>

Called ==
    /\ op = "IDLE"
    /\ start' = dev /\ resetSeen' = FALSE
    /\ UNCHANGED <<before, saved, gstat, chip, hidden>>

StartRefresh ==
    Called /\ Begin("STATUS") /\ onward' = FALSE /\ UNCHANGED dev

\* configure_driver leaves a ready driver alone and probes one not known good.
StartConfigure ==
    /\ ~Ready(dev)
    /\ Called
    /\ onward' = TRUE
    /\ IF dev.state \in {"PRESENT", "CONFIGURED"}
       THEN Begin("WRITE") /\ dev' = Rewriting(dev)
       ELSE Begin("PROBE") /\ dev' = Probing(dev)

-----------------------------------------------------------------------------
\* The chip takes a write.  The probe writes GCONF back as it was read.
WritesConfigured == TRUE            \* mutant: the probe configures GCONF
ProbeGconf == saved

NextIfcnt(n) == (n + 1) % IfcntModulus

Taken(c) ==
    [ifcnt |-> NextIfcnt(c.ifcnt),
     reset |-> c.reset /\ Current.reg # "GSTAT",
     set   |-> IF op = "PROBE" /\ Current.reg = "GCONF" /\ ~ProbeGconf
               THEN c.set \ {"GCONF"}
               ELSE c.set \cup ({Current.reg} \cap Settings)]

Accepted ==
    /\ chip' = Taken(chip)
    /\ hidden' = IF Current.reg = "GSTAT" THEN resetSeen ELSE hidden

Dropped == UNCHANGED <<chip, hidden>>

\* An attempt fails, on the wire or in the parser; a write may have reached
\* the chip all the same.
NeverGivesUp == UNCHANGED <<dev, op, step, attempt>>    \* mutant: for ever
RetryOrGiveUp ==
    \/ /\ attempt + 1 < Attempts
       /\ attempt' = attempt + 1
       /\ UNCHANGED <<dev, op, step>>
    \/ /\ attempt + 1 >= Attempts
       /\ SetError

\* The exchange ends early: a write may have left the UART whole or not.
ExchangeFails == Dropped \/ (Current.kind = "WRITE" /\ Accepted)

AttemptFails ==
    /\ Running
    /\ RetryOrGiveUp
    /\ ExchangeFails
    /\ UNCHANGED <<local, start, resetSeen>>

\* The access is done and not the last one.
Advance ==
    /\ ~Last
    /\ step' = step + 1 /\ attempt' = 0
    /\ UNCHANGED <<dev, op>>

\* Nobody answers a write: it may be lost without a trace.
WriteSent ==
    /\ Running /\ Current.kind = "WRITE"
    /\ Accepted \/ Dropped
    /\ Advance
    /\ UNCHANGED <<local, start, resetSeen>>

Answered(use) ==
    /\ Running /\ Current.kind = "READ" /\ Current.use = use
    /\ UNCHANGED <<onward, chip, start, hidden>>

ReadBefore ==
    /\ Answered("BEFORE")
    /\ before' = chip.ifcnt
    /\ Advance
    /\ UNCHANGED <<saved, gstat, resetSeen>>

\* All settings are written: they count as valid and the status is read back.
AllWritten ==
    /\ op = "WRITE" /\ Last
    /\ dev' = [dev EXCEPT !.valid = TRUE]
    /\ Begin("STATUS")

NoCheck(after) == TRUE              \* mutant: IFCNT is read and not compared
IfcntAdvanced(after) == after = (before + 1) % IfcntModulus

ReadAfter ==
    /\ Answered("AFTER")
    /\ \/ IfcntAdvanced(chip.ifcnt) /\ (Advance \/ AllWritten)
       \/ ~IfcntAdvanced(chip.ifcnt) /\ SetError
    /\ UNCHANGED <<before, saved, gstat, resetSeen>>

ReadsBack ==
    IF op = "PROBE" THEN (Current.reg \in chip.set) = ProbeGconf
    ELSE Current.reg \in chip.set

ReadBackCompare ==
    /\ Answered("READBACK")
    /\ (ReadsBack /\ Advance) \/ (~ReadsBack /\ SetError)
    /\ UNCHANGED <<before, saved, gstat, resetSeen>>

\* Registers read for their value; IOIN may show another version.
ReadValue ==
    /\ Answered("VALUE") /\ Current.reg # "DRV_STATUS"
    /\ Advance \/ (Current.reg = "IOIN" /\ SetError)
    /\ saved' = IF Current.reg = "GCONF" THEN "GCONF" \in chip.set ELSE saved
    /\ gstat' = IF Current.reg = "GSTAT" THEN chip.reset ELSE gstat
    /\ UNCHANGED <<before, resetSeen>>

\* DRV_STATUS completes a status read or a probe.
IgnoresReset(fatal) ==              \* mutant: GSTAT.reset is not looked at
    Observe(dev, FALSE, fatal, IF op = "PROBE" THEN "PRESENT" ELSE "CONFIGURED")
Observed(fatal) ==
    Observe(dev, gstat, fatal, IF op = "PROBE" THEN "PRESENT" ELSE "CONFIGURED")

ReadLast ==
    /\ op \in {"PROBE", "STATUS"}
    /\ Answered("VALUE") /\ Current.reg = "DRV_STATUS"
    /\ \E fatal \in BOOLEAN :
         IF op = "PROBE" /\ onward /\ ~fatal
         THEN /\ Begin("WRITE")
              /\ dev' = Rewriting(Observed(fatal))
              /\ resetSeen' = FALSE
         ELSE /\ Return
              /\ dev' = Observed(fatal)
              /\ UNCHANGED resetSeen
    /\ UNCHANGED <<before, saved, gstat>>

\* Power drops on the motor supply: between any two exchanges.
ChipResets ==
    /\ chip' = PowerOn /\ resetSeen' = TRUE
    /\ UNCHANGED <<dev, call, start, hidden>>

Access == \/ AttemptFails \/ WriteSent \/ ReadBefore \/ ReadAfter
          \/ ReadBackCompare \/ ReadValue \/ ReadLast

Next == Boot \/ StartRefresh \/ StartConfigure \/ Access \/ ChipResets

Spec == Init /\ [][Next]_vars /\ WF_vars(Access)

-----------------------------------------------------------------------------
(***************************************************************************)
(* A driver that is ready holds every setting, or its reset is latched for *)
(* the next status read to find, or it reset between the first write of    *)
(* the configuration and the GSTAT clear that ends it.  Lost, repeated and *)
(* half-done writes never count (write_verified, tmc2209_configure).       *)
(***************************************************************************)
Applied == chip.set = Settings

ConfiguredMeansWritten ==
    op = "IDLE" /\ Ready(dev) => Applied \/ chip.reset \/ hidden

(***************************************************************************)
(* Without the last exception: what README.md says DRIVER CONFIGURE does.  *)
(* The code does not ensure it: clearing GSTAT.reset after the writes also *)
(* clears a reset that undid some of them.                                 *)
(***************************************************************************)
ConfigureApplies == op = "IDLE" /\ Ready(dev) => Applied \/ chip.reset

(***************************************************************************)
(* A status read that ends with the driver ready has found every reset     *)
(* that happened before it began (tmc2209_refresh_status).                 *)
(***************************************************************************)
ResetIsFound ==
    [][op = "STATUS" /\ op' = "IDLE" /\ Ready(dev')
         => Applied \/ resetSeen \/ hidden]_vars

(***************************************************************************)
(* The boot probe and the probe of DRIVER CONFIGURE leave every setting as *)
(* it was, although they write GCONF (README.md: the non-behavior-changing *)
(* write path).                                                            *)
(***************************************************************************)
ProbeChangesNothing ==
    [][op = "PROBE" /\ ~resetSeen /\ ~resetSeen' => chip'.set = chip.set]_vars

(***************************************************************************)
(* Every call returns, however often the chip resets and accesses fail:    *)
(* the main loop polls USB again.                                          *)
(***************************************************************************)
CallEnds == Running ~> op = "IDLE"

(***************************************************************************)
(* Seen between two calls, the driver behaves as MotionController takes it *)
(* to: every call has one of the outcomes of DriverDevice.                 *)
(***************************************************************************)
Calls == INSTANCE DriverCalls WITH dev <- IF Running THEN start ELSE dev

CallsImplemented == Calls!CallsSpec
=============================================================================
