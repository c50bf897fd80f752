--------------------------- MODULE RegisterProofs ---------------------------
(***************************************************************************)
(* The register traffic of Tmc2209, for every number of attempts and every *)
(* range of IFCNT above it.                                                *)
(*   First, it implements the calls of DriverCalls.  The argument: at      *)
(* every access the firmware's knowledge dev is what the outcomes of       *)
(* DriverDevice start from (Progress), so that every return is one of them.*)
(*   Then, what the firmware believes is what the chip holds.  The         *)
(* argument: between the IFCNT read before a write and the one after it,   *)
(* the counter shows how many attempts the chip has taken (Written), a     *)
(* reset stays latched until a configuration hides it (Latched), and the   *)
(* probe puts back the GCONF it has read (Restores).                       *)
(***************************************************************************)
EXTENDS Tmc2209, TLAPS

\* What the firmware may know when DRIVER CONFIGURE starts to write.
Known(d) ==
    IF d.state \in {"PRESENT", "CONFIGURED"} THEN {d}
    ELSE {p \in ProbeOutcomes(d, FaultKinds) : p.state = "PRESENT"}

\* How far the running call has got from what was known when it began.
Progress ==
    /\ op = "BOOT" =>
         dev = InitialDevice /\ start = InitialDevice /\ onward = FALSE
    /\ op = "IDLE" => dev.state # "UNKNOWN"
    /\ op = "PROBE" =>
         /\ dev = Probing(start)
         /\ \/ onward = FALSE /\ start = InitialDevice
            \/ onward = TRUE /\ start.state = "ERROR"
    /\ op = "WRITE" =>
         /\ start.state # "UNKNOWN" /\ ~Ready(start)
         /\ \E p \in Known(start) : dev = Rewriting(p)
    /\ op = "STATUS" =>
         /\ start.state # "UNKNOWN"
         /\ \/ dev = start
            \/ /\ ~Ready(start)
               /\ \E p \in Known(start) : dev = [p EXCEPT !.valid = TRUE]

CallInv ==
    /\ dev \in DriverState /\ start \in DriverState
    /\ op \in {"BOOT", "IDLE", "PROBE", "WRITE", "STATUS"}
    /\ gstat \in BOOLEAN /\ chip.reset \in BOOLEAN
    /\ Progress

LEMMA Scripts == Running <=> op \in {"PROBE", "WRITE", "STATUS"}
  BY DEF Running, Script

LEMMA Initially == Init => CallInv
<1> SUFFICES ASSUME Init PROVE CallInv
  OBVIOUS
<1>1. InitialDevice \in DriverState
  BY DEF InitialDevice, DriverState
<1>2. Progress
  BY DEF Init, Progress
<1> QED
  BY <1>1, <1>2 DEF Init, CallInv, PowerOn

-----------------------------------------------------------------------------
\* The outcomes of DriverDevice, as the register traffic reaches them.
Failed(d) == [d EXCEPT !.state = "ERROR", !.error = "COMM"]

LEMMA FailedIsOutcome ==
  ASSUME NEW d \in DriverState
  PROVE  /\ Failed(d) \in DriverState /\ Failed(d).state = "ERROR"
         /\ Failed(d) \in CommFailures(d, FaultKinds)
         /\ Failed(Probing(d)) = Failed([d EXCEPT !.fatal = FALSE])
  BY DEF Failed, DriverState, CommFailures, FaultKinds, Probing

LEMMA EveryObservation ==
  ASSUME NEW d, NEW healthy
  PROVE  Observations(d, FaultKinds, healthy)
           = {Observe(d, reset, fatal, healthy) :
                reset \in BOOLEAN, fatal \in BOOLEAN}
<1> DEFINE R == {r \in BOOLEAN : r => "RESET" \in FaultKinds}
           F == {f \in BOOLEAN : f => "FATAL" \in FaultKinds}
<1>1. R = BOOLEAN /\ F = BOOLEAN
  BY DEF FaultKinds
<1>2. Observations(d, FaultKinds, healthy)
        = {Observe(d, reset, fatal, healthy) : reset \in R, fatal \in F}
  BY DEF Observations
<1> HIDE DEF R, F
<1> QED
  BY <1>1, <1>2

LEMMA ObserveIsOutcome ==
  ASSUME NEW d \in DriverState, NEW reset \in BOOLEAN, NEW fatal \in BOOLEAN,
         NEW healthy \in {"PRESENT", "CONFIGURED"}
  PROVE  /\ Observe(d, reset, fatal, healthy) \in DriverState
         /\ Observe(d, reset, fatal, healthy).state
              \in (IF fatal THEN {"ERROR"} ELSE {"PRESENT", healthy})
         /\ Observe(d, reset, fatal, healthy)
              \in Observations(d, FaultKinds, healthy)
<1>1. d.valid \in BOOLEAN
  BY DEF DriverState
<1>2. Observe(d, reset, fatal, healthy) \in DriverState
  BY <1>1 DEF Observe, DriverState
<1>3. Observe(d, reset, fatal, healthy).state
        \in (IF fatal THEN {"ERROR"} ELSE {"PRESENT", healthy})
  BY DEF Observe
<1>4. Observe(d, reset, fatal, healthy) \in Observations(d, FaultKinds, healthy)
  BY EveryObservation
<1> QED
  BY <1>2, <1>3, <1>4

LEMMA ProbedState ==
  ASSUME NEW d \in DriverState, NEW p \in ProbeOutcomes(d, FaultKinds)
  PROVE  p \in DriverState /\ p.state \in {"PRESENT", "ERROR"}
<1> DEFINE c == [d EXCEPT !.fatal = FALSE]
<1>1. c \in DriverState
  BY DEF DriverState
<1>2. CASE p \in CommFailures(c, FaultKinds)
  BY <1>1, <1>2 DEF CommFailures, DriverState
<1>3. CASE p \in Observations(c, FaultKinds, "PRESENT")
  <2> HIDE DEF c
  <2>1. PICK reset \in BOOLEAN, fatal \in BOOLEAN :
               p = Observe(c, reset, fatal, "PRESENT")
    BY <1>3, EveryObservation
  <2> QED
    BY <1>1, <2>1, ObserveIsOutcome
<1> QED
  BY <1>2, <1>3 DEF ProbeOutcomes

LEMMA KnownIsDevice ==
  ASSUME NEW d \in DriverState, NEW p \in Known(d)
  PROVE  p \in DriverState
  BY ProbedState DEF Known

\* What DRIVER CONFIGURE may end with.
LEMMA WriteIsOutcome ==
  ASSUME NEW d \in DriverState, d.state # "UNKNOWN", ~Ready(d),
         NEW p \in Known(d)
  PROVE  ConfigureOutcomes(p, FaultKinds)
           \subseteq ConfigureDriverOutcomes(d, FaultKinds)
  BY DEF Known, ConfigureDriverOutcomes

LEMMA FailedProbeIsOutcome ==
  ASSUME NEW d \in DriverState, d.state = "ERROR",
         NEW p \in ProbeOutcomes(d, FaultKinds), p.state = "ERROR"
  PROVE  p \in ConfigureDriverOutcomes(d, FaultKinds)
  BY DEF ConfigureDriverOutcomes, Ready

-----------------------------------------------------------------------------
\* What a call that began with d may return.
Outcome(d) ==
    IF d.state = "UNKNOWN" THEN BootOutcomes(FaultKinds)
    ELSE RefreshOutcomes(d, FaultKinds)
           \cup ConfigureDriverOutcomes(d, FaultKinds)

-----------------------------------------------------------------------------
\* What an access may do to the call: go on, give up, or complete a script.
LEMMA AccessCases ==
  ASSUME Access
  PROVE  /\ start' = start /\ onward' = onward /\ Running
         /\ \/ dev' = dev /\ op' = op
            \/ SetError
            \/ AllWritten
            \/ ReadLast
  BY DEF Access, AttemptFails, ExchangeFails, WriteSent, ReadBefore, ReadAfter,
         ReadBackCompare, ReadValue, ReadLast, Answered, Advance,
         RetryOrGiveUp, local

LEMMA BitsStayBoolean ==
  ASSUME CallInv, Next
  PROVE  gstat' \in BOOLEAN /\ chip'.reset \in BOOLEAN
<1>1. gstat' \in {gstat, chip.reset}
  BY DEF CallInv, Next, Boot, StartRefresh, StartConfigure, Called, Access,
         AttemptFails, ExchangeFails, WriteSent, ReadBefore, ReadAfter,
         ReadBackCompare, ReadValue, ReadLast, ChipResets, local, call
<1>2. chip' \in {chip, Taken(chip), PowerOn}
  BY DEF CallInv, Next, Boot, StartRefresh, StartConfigure, Called, Access,
         AttemptFails, ExchangeFails, WriteSent, ReadBefore, ReadAfter,
         ReadBackCompare, ReadValue, ReadLast, Answered, ChipResets, Accepted, Dropped
<1>3. Taken(chip).reset \in BOOLEAN /\ PowerOn.reset \in BOOLEAN
  BY DEF Taken, PowerOn
<1> QED
  BY <1>1, <1>2, <1>3 DEF CallInv

LEMMA FailureIsOutcome ==
  ASSUME CallInv, Running
  PROVE  Failed(dev) \in Outcome(start)
<1>0. dev \in DriverState /\ start \in DriverState
  BY DEF CallInv
<1>1. CASE op = "PROBE"
  <2>1. Failed(dev) \in ProbeOutcomes(start, FaultKinds)
    <3>1. [start EXCEPT !.fatal = FALSE] \in DriverState
      BY <1>0 DEF DriverState
    <3>2. Failed(dev) = Failed([start EXCEPT !.fatal = FALSE])
      BY <1>0, <1>1, FailedIsOutcome DEF CallInv, Progress
    <3> QED
      BY <3>1, <3>2, FailedIsOutcome DEF ProbeOutcomes
  <2>2. Failed(dev).state = "ERROR"
    BY <1>0, FailedIsOutcome
  <2>3. CASE start = InitialDevice
    BY <2>1, <2>3 DEF Outcome, InitialDevice, BootOutcomes
  <2>4. CASE start.state = "ERROR"
    BY <1>0, <2>1, <2>2, <2>4, FailedProbeIsOutcome DEF Outcome
  <2> QED
    BY <1>1, <2>3, <2>4 DEF CallInv, Progress
<1>2. CASE op = "WRITE"
  <2>1. PICK p \in Known(start) : dev = Rewriting(p)
    BY <1>2 DEF CallInv, Progress
  <2>2. Failed(dev) \in ConfigureOutcomes(p, FaultKinds)
    BY <1>0, <2>1, FailedIsOutcome DEF ConfigureOutcomes, Rewriting
  <2> QED
    BY <1>0, <1>2, <2>2, WriteIsOutcome DEF CallInv, Progress, Outcome
<1>3. CASE op = "STATUS" /\ dev = start
  BY <1>0, <1>3, FailedIsOutcome
     DEF CallInv, Progress, Outcome, RefreshOutcomes
<1>4. CASE op = "STATUS" /\ dev # start
  <2>1. PICK p \in Known(start) : dev = [p EXCEPT !.valid = TRUE]
    BY <1>4 DEF CallInv, Progress
  <2>2. Failed(dev) \in ConfigureOutcomes(p, FaultKinds)
    BY <1>0, <2>1, FailedIsOutcome DEF ConfigureOutcomes, RefreshOutcomes
  <2> QED
    BY <1>0, <1>4, <2>2, WriteIsOutcome DEF CallInv, Progress, Outcome
<1> QED
  BY <1>1, <1>2, <1>3, <1>4, Scripts

LEMMA ProbeEnd ==
  ASSUME CallInv, op = "PROBE", NEW fatal \in BOOLEAN
  PROVE  Observed(fatal) \in ProbeOutcomes(start, FaultKinds)
<1> DEFINE c == [start EXCEPT !.fatal = FALSE]
<1>1. c \in DriverState
  BY DEF CallInv, DriverState
<1>2. Observed(fatal) = Observe(c, gstat, fatal, "PRESENT")
  BY DEF CallInv, Progress, Observed, Observe, Probing, DriverState
<1>3. gstat \in BOOLEAN
  BY DEF CallInv
<1>4. Observe(c, gstat, fatal, "PRESENT") \in Observations(c, FaultKinds, "PRESENT")
  BY <1>1, <1>3, ObserveIsOutcome
<1> QED
  BY <1>2, <1>4 DEF ProbeOutcomes

LEMMA StatusEnd ==
  ASSUME CallInv, op = "STATUS", NEW fatal \in BOOLEAN
  PROVE  Observed(fatal) \in Outcome(start)
<1>0. /\ dev \in DriverState /\ start \in DriverState
      /\ start.state # "UNKNOWN" /\ gstat \in BOOLEAN
  BY DEF CallInv, Progress
<1>1. Observed(fatal) \in RefreshOutcomes(dev, FaultKinds)
  BY <1>0, ObserveIsOutcome DEF Observed, RefreshOutcomes
<1>2. CASE dev = start
  BY <1>0, <1>1, <1>2 DEF Outcome
<1>3. CASE dev # start
  <2>1. PICK p \in Known(start) : dev = [p EXCEPT !.valid = TRUE]
    BY <1>3 DEF CallInv, Progress
  <2>2. Observed(fatal) \in ConfigureOutcomes(p, FaultKinds)
    BY <1>1, <2>1 DEF ConfigureOutcomes
  <2> QED
    BY <1>0, <1>3, <2>2, WriteIsOutcome DEF CallInv, Progress, Outcome
<1> QED
  BY <1>2, <1>3

LEMMA ReturnIsKnown ==
  ASSUME CallInv, Running, NEW fatal \in BOOLEAN
  PROVE  /\ Failed(dev) \in DriverState /\ Failed(dev).state = "ERROR"
         /\ Observed(fatal) \in DriverState
         /\ Observed(fatal).state
              \in (IF fatal THEN {"ERROR"}
                  ELSE IF op = "PROBE" THEN {"PRESENT"}
                  ELSE {"PRESENT", "CONFIGURED"})
<1>1. dev \in DriverState /\ gstat \in BOOLEAN
  BY DEF CallInv
<1>2. CASE op = "PROBE"
  BY <1>1, <1>2, FailedIsOutcome, ObserveIsOutcome DEF Observed
<1>3. CASE op # "PROBE"
  BY <1>1, <1>3, FailedIsOutcome, ObserveIsOutcome DEF Observed
<1> QED
  BY <1>2, <1>3

-----------------------------------------------------------------------------
\* What the callers see of the driver.
Seen == IF Running THEN start ELSE dev

\* A step seen from the calls: nothing, or an outcome of a call.
SeenStep == Seen' = Seen \/ Seen' \in Outcome(Seen)

\* The state part of CallInv after a step; BitsStayBoolean adds the rest.
StepOK ==
    /\ dev' \in DriverState /\ start' \in DriverState
    /\ op' \in {"BOOT", "IDLE", "PROBE", "WRITE", "STATUS"}
    /\ Progress'
    /\ SeenStep

LEMMA ScriptsNext == Running' <=> op' \in {"PROBE", "WRITE", "STATUS"}
  BY DEF Running, Script

LEMMA ReturnOK ==
  ASSUME CallInv, Running, start' = start, op' = "IDLE",
         dev' \in DriverState, dev'.state # "UNKNOWN", dev' \in Outcome(start)
  PROVE  StepOK
  BY ScriptsNext DEF StepOK, CallInv, Progress, SeenStep, Seen

LEMMA GiveUpOK ==
  ASSUME CallInv, Running, start' = start, SetError
  PROVE  StepOK
<1>1. dev' = Failed(dev) /\ op' = "IDLE"
  BY DEF SetError, Failed, Return, Begin
<1> QED
  BY <1>1, FailureIsOutcome, ReturnIsKnown, ReturnOK

LEMMA SameOK ==
  ASSUME CallInv, dev' = dev, op' = op, start' = start, onward' = onward
  PROVE  StepOK
<1>1. Progress'
  BY DEF CallInv, Progress
<1>2. Seen' = Seen
  BY Scripts, ScriptsNext DEF Seen
<1> QED
  BY <1>1, <1>2 DEF StepOK, CallInv, SeenStep

LEMMA AllWrittenOK ==
  ASSUME CallInv, Running, start' = start, AllWritten
  PROVE  StepOK
<1>1. /\ op = "WRITE" /\ op' = "STATUS" /\ dev \in DriverState
      /\ dev' = [dev EXCEPT !.valid = TRUE] /\ start \in DriverState
      /\ start.state # "UNKNOWN" /\ ~Ready(start)
  BY DEF AllWritten, Begin, CallInv, Progress
<1>2. PICK p \in Known(start) : dev = Rewriting(p)
  BY <1>1 DEF CallInv, Progress
<1>3. p \in DriverState
  BY <1>1, KnownIsDevice
<1>4. dev' = [p EXCEPT !.valid = TRUE] /\ dev' \in DriverState
  BY <1>1, <1>2, <1>3 DEF Rewriting, DriverState
<1>5. Progress'
  BY <1>1, <1>2, <1>4 DEF Progress
<1>6. Seen' = Seen
  BY <1>1, ScriptsNext DEF Seen
<1> QED
  BY <1>1, <1>4, <1>5, <1>6 DEF StepOK, SeenStep

LEMMA ReadLastOK ==
  ASSUME CallInv, Running, start' = start, onward' = onward, ReadLast
  PROVE  StepOK
<1>0. dev \in DriverState /\ start \in DriverState /\ op \in {"PROBE", "STATUS"}
  BY DEF CallInv, ReadLast
<1>1. PICK fatal \in BOOLEAN :
         IF op = "PROBE" /\ onward /\ ~fatal
         THEN Begin("WRITE") /\ dev' = Rewriting(Observed(fatal))
         ELSE Return /\ dev' = Observed(fatal)
  BY DEF ReadLast
<1>2. /\ Observed(fatal) \in DriverState
      /\ Observed(fatal).state
           \in (IF fatal THEN {"ERROR"}
               ELSE IF op = "PROBE" THEN {"PRESENT"}
               ELSE {"PRESENT", "CONFIGURED"})
  BY ReturnIsKnown
<1>3. CASE op = "STATUS"
  <2>1. op' = "IDLE" /\ dev' = Observed(fatal)
    BY <1>1, <1>3 DEF Return, Begin
  <2> QED
    BY <1>2, <1>3, <2>1, StatusEnd, ReturnOK
<1>4. CASE op = "PROBE" /\ onward = FALSE
  <2>1. op' = "IDLE" /\ dev' = Observed(fatal) /\ start = InitialDevice
    BY <1>1, <1>4 DEF Return, Begin, CallInv, Progress
  <2>2. Observed(fatal) \in Outcome(start)
    BY <1>4, <2>1, ProbeEnd DEF Outcome, BootOutcomes, InitialDevice
  <2> QED
    BY <1>2, <1>4, <2>1, <2>2, ReturnOK
<1>5. CASE op = "PROBE" /\ onward = TRUE /\ fatal = TRUE
  <2>1. op' = "IDLE" /\ dev' = Observed(fatal) /\ start.state = "ERROR"
    BY <1>1, <1>5 DEF Return, Begin, CallInv, Progress
  <2>2. Observed(fatal) \in Outcome(start)
    BY <1>0, <1>2, <1>5, <2>1, ProbeEnd, FailedProbeIsOutcome DEF Outcome
  <2> QED
    BY <1>2, <1>5, <2>1, <2>2, ReturnOK
<1>6. CASE op = "PROBE" /\ onward = TRUE /\ fatal = FALSE
  <2>1. /\ op' = "WRITE" /\ dev' = Rewriting(Observed(fatal))
        /\ start.state = "ERROR"
    BY <1>1, <1>6 DEF Begin, CallInv, Progress
  <2>2. Observed(fatal) \in Known(start)
    BY <1>2, <1>6, <2>1, ProbeEnd DEF Known
  <2>3. dev' \in DriverState
    BY <1>2, <2>1 DEF Rewriting, DriverState
  <2>4. Progress'
    BY <2>1, <2>2 DEF Progress, Ready
  <2>5. Seen' = Seen
    BY <1>6, <2>1, ScriptsNext DEF Seen
  <2> QED
    BY <1>0, <2>1, <2>3, <2>4, <2>5 DEF StepOK, SeenStep
<1> QED
  BY <1>0, <1>3, <1>4, <1>5, <1>6 DEF CallInv, Progress

LEMMA BootOK ==
  ASSUME CallInv, Boot
  PROVE  StepOK
<1>1. /\ dev = InitialDevice /\ start = InitialDevice /\ start' = start
      /\ onward' = onward /\ dev \in DriverState /\ op = "BOOT"
  BY DEF Boot, CallInv, Progress, local
<1>2. CASE SetError
  <2>1. dev' = Failed(dev) /\ op' = "IDLE"
    BY <1>2 DEF SetError, Failed, Return, Begin
  <2>2. dev' = Failed([InitialDevice EXCEPT !.fatal = FALSE])
    <3>1. [InitialDevice EXCEPT !.fatal = FALSE] = InitialDevice
      <4>1. InitialDevice \in DriverState /\ InitialDevice.fatal = FALSE
        BY DEF InitialDevice, DriverState
      <4> QED
        BY <4>1 DEF DriverState
    <3> QED
      BY <1>1, <2>1, <3>1
  <2>3. [InitialDevice EXCEPT !.fatal = FALSE] \in DriverState
    BY DEF InitialDevice, DriverState
  <2>4. dev' \in Outcome(InitialDevice)
    BY <2>2, <2>3, FailedIsOutcome
       DEF Outcome, BootOutcomes, ProbeOutcomes, InitialDevice
  <2>5. dev' \in DriverState /\ dev'.state = "ERROR"
    BY <1>1, <2>1, FailedIsOutcome
  <2>6. Seen = InitialDevice /\ Seen' = dev'
    BY <1>1, <2>1, Scripts, ScriptsNext DEF Seen
  <2> QED
    BY <1>1, <2>1, <2>4, <2>5, <2>6 DEF StepOK, SeenStep, Progress
<1>3. CASE Begin("PROBE") /\ dev' = Probing(dev)
  <2>1. op' = "PROBE" /\ dev' \in DriverState
    BY <1>1, <1>3 DEF Begin, Probing, DriverState
  <2>2. Progress'
    BY <1>1, <1>3, <2>1 DEF Progress, CallInv
  <2>3. Seen' = Seen
    BY <1>1, <2>1, Scripts, ScriptsNext DEF Seen
  <2> QED
    BY <1>1, <2>1, <2>2, <2>3 DEF StepOK, SeenStep
<1> QED
  BY <1>2, <1>3 DEF Boot

LEMMA StartsOK ==
  ASSUME CallInv, StartRefresh \/ StartConfigure
  PROVE  StepOK
<1>0. /\ op = "IDLE" /\ start' = dev /\ dev \in DriverState
      /\ dev.state # "UNKNOWN"
  BY DEF StartRefresh, StartConfigure, Called, CallInv, Progress
<1>1. CASE StartRefresh
  <2>1. op' = "STATUS" /\ dev' = dev
    BY <1>1 DEF StartRefresh, Begin
  <2>2. Progress'
    BY <1>0, <2>1 DEF Progress
  <2>3. Seen' = Seen
    BY <1>0, <2>1, Scripts, ScriptsNext DEF Seen
  <2> QED
    BY <1>0, <2>1, <2>2, <2>3 DEF StepOK, SeenStep
<1>2. CASE StartConfigure /\ dev.state \in {"PRESENT", "CONFIGURED"}
  <2>1. op' = "WRITE" /\ dev' = Rewriting(dev) /\ ~Ready(dev)
    BY <1>2 DEF StartConfigure, Begin
  <2>2. dev \in Known(dev) /\ dev' \in DriverState
    BY <1>0, <1>2, <2>1 DEF Known, Rewriting, DriverState
  <2>3. Progress'
    BY <1>0, <2>1, <2>2 DEF Progress, Ready
  <2>4. Seen' = Seen
    BY <1>0, <2>1, Scripts, ScriptsNext DEF Seen
  <2> QED
    BY <1>0, <2>1, <2>2, <2>3, <2>4 DEF StepOK, SeenStep
<1>3. CASE StartConfigure /\ dev.state \notin {"PRESENT", "CONFIGURED"}
  <2>1. op' = "PROBE" /\ dev' = Probing(dev) /\ onward' = TRUE
    BY <1>3 DEF StartConfigure, Begin
  <2>2. dev.state = "ERROR" /\ dev' \in DriverState
    BY <1>0, <1>3, <2>1 DEF Probing, DriverState
  <2>3. Progress'
    BY <1>0, <2>1, <2>2 DEF Progress
  <2>4. Seen' = Seen
    BY <1>0, <2>1, Scripts, ScriptsNext DEF Seen
  <2> QED
    BY <1>0, <2>1, <2>2, <2>3, <2>4 DEF StepOK, SeenStep
<1> QED
  BY <1>1, <1>2, <1>3

LEMMA NextOK ==
  ASSUME CallInv, Next
  PROVE  StepOK
<1>1. CASE Boot
  BY <1>1, BootOK
<1>2. CASE StartRefresh \/ StartConfigure
  BY <1>2, StartsOK
<1>3. CASE Access
  BY <1>3, AccessCases, SameOK, GiveUpOK, AllWrittenOK, ReadLastOK
<1>4. CASE ChipResets
  BY <1>4, SameOK DEF ChipResets, call, local
<1> QED
  BY <1>1, <1>2, <1>3, <1>4 DEF Next

LEMMA CallStep ==
  ASSUME CallInv, [Next]_vars
  PROVE  CallInv' /\ SeenStep
<1>1. CASE Next
  BY <1>1, NextOK, BitsStayBoolean DEF StepOK, CallInv
<1>2. CASE UNCHANGED vars
  <2>1. StepOK
    BY <1>2, SameOK DEF vars, call, local
  <2> QED
    BY <1>2, <2>1 DEF StepOK, CallInv, vars, call, local
<1> QED
  BY <1>1, <1>2

-----------------------------------------------------------------------------
\* The outcomes DriverCalls instantiates are those of this module.
LEMMA SameOutcomes ==
  /\ Calls!InitialDevice = InitialDevice
  /\ Calls!BootOutcomes(Calls!FaultKinds) = BootOutcomes(FaultKinds)
  /\ \A d : Calls!RefreshOutcomes(d, Calls!FaultKinds)
                = RefreshOutcomes(d, FaultKinds)
  /\ \A d : Calls!ConfigureDriverOutcomes(d, Calls!FaultKinds)
                = ConfigureDriverOutcomes(d, FaultKinds)
<1>1. Calls!InitialDevice = InitialDevice /\ Calls!FaultKinds = FaultKinds
  BY DEF Calls!InitialDevice, InitialDevice, Calls!FaultKinds, FaultKinds
<1>2. ASSUME NEW d, NEW faults
      PROVE  Calls!CommFailures(d, faults) = CommFailures(d, faults)
  BY DEF Calls!CommFailures, CommFailures
<1>3. ASSUME NEW d, NEW reset, NEW fatal, NEW healthy
      PROVE  Calls!Observe(d, reset, fatal, healthy)
               = Observe(d, reset, fatal, healthy)
  BY DEF Calls!Observe, Observe
<1>4. ASSUME NEW d, NEW faults, NEW healthy
      PROVE  Calls!Observations(d, faults, healthy)
               = Observations(d, faults, healthy)
  BY <1>3 DEF Calls!Observations, Observations
<1>5. ASSUME NEW d, NEW faults
      PROVE  Calls!RefreshOutcomes(d, faults) = RefreshOutcomes(d, faults)
  BY <1>2, <1>4 DEF Calls!RefreshOutcomes, RefreshOutcomes
<1>6. ASSUME NEW d, NEW faults
      PROVE  Calls!ProbeOutcomes(d, faults) = ProbeOutcomes(d, faults)
  BY <1>2, <1>4 DEF Calls!ProbeOutcomes, ProbeOutcomes
<1>7. ASSUME NEW d, NEW faults
      PROVE  Calls!ConfigureOutcomes(d, faults) = ConfigureOutcomes(d, faults)
  BY <1>2, <1>5 DEF Calls!ConfigureOutcomes, ConfigureOutcomes
<1>8. ASSUME NEW d
      PROVE  Calls!Ready(d) <=> Ready(d)
  BY DEF Calls!Ready, Ready
<1>9. ASSUME NEW d, NEW faults
      PROVE  Calls!ConfigureDriverOutcomes(d, faults)
               = ConfigureDriverOutcomes(d, faults)
  BY <1>6, <1>7, <1>8
     DEF Calls!ConfigureDriverOutcomes, ConfigureDriverOutcomes
<1> QED
  BY <1>1, <1>5, <1>6, <1>9 DEF Calls!BootOutcomes, BootOutcomes

(***************************************************************************)
(* What the register traffic of src/tmc2209.c does to a driver between two *)
(* calls is always one of the outcomes MotionController takes from         *)
(* DriverDevice, for any number of attempts per access.                    *)
(***************************************************************************)
THEOREM RegistersImplementCalls == Spec => CallsImplemented
<1>1. Init => Calls!CallsInit
  <2> SUFFICES ASSUME Init PROVE Calls!CallsInit
    OBVIOUS
  <2>1. ~Running /\ dev = InitialDevice
    BY Scripts DEF Init
  <2> QED
    BY <2>1, SameOutcomes DEF Calls!CallsInit
<1>2. CallInv /\ [Next]_vars
        => [Calls!Boot \/ Calls!Refresh \/ Calls!Configure]_(Seen)
  <2> SUFFICES ASSUME CallInv, [Next]_vars, Seen' # Seen
               PROVE  Calls!Boot \/ Calls!Refresh \/ Calls!Configure
    OBVIOUS
  <2>1. Seen' \in Outcome(Seen)
    BY CallStep DEF SeenStep
  <2> QED
    BY <2>1, SameOutcomes
       DEF Outcome, Seen, Calls!Boot, Calls!Refresh, Calls!Configure, Calls!Booted
<1> QED
  BY <1>1, <1>2, Initially, CallStep, PTL DEF Spec, CallsImplemented, Calls!CallsSpec, Seen

-----------------------------------------------------------------------------
(***************************************************************************)
(* The second part: what the registers hold.  A script is put together     *)
(* from pieces in which an IFCNT read stands before each write and another *)
(* after it; Traffic says what the counter shows between the two.          *)
(***************************************************************************)
Registers == Settings \cup {"NODECONF", "IOIN", "IFCNT", "GSTAT", "DRV_STATUS"}
Uses == {"VALUE", "BEFORE", "AFTER", "READBACK"}
Accesses == [kind : {"READ", "WRITE"}, reg : Registers, use : Uses]

\* A piece of a script.
Piece(s) ==
    /\ s \in Seq(Accesses) /\ Len(s) > 0
    /\ \A i \in 1..Len(s) :
         /\ s[i].kind = "WRITE" =>
              /\ i > 1 /\ s[i - 1].use = "BEFORE"
              /\ i < Len(s) /\ s[i + 1].use = "AFTER"
              /\ s[i].use = "VALUE"
         /\ s[i].use = "AFTER" =>
              i > 1 /\ s[i - 1].kind = "WRITE" /\ s[i].kind = "READ"
         /\ s[i].use = "BEFORE" => s[i].kind = "READ"

\* The registers it writes.
Writes(s) == {s[i].reg : i \in {j \in 1..Len(s) : s[j].kind = "WRITE"}}

LEMMA Pieces ==
  \A reg \in Registers :
    /\ Piece(Read(reg)) /\ Writes(Read(reg)) = {} /\ Len(Read(reg)) = 1
    /\ Piece(ReadBack(reg)) /\ Writes(ReadBack(reg)) = {}
    /\ Piece(Verified(reg)) /\ Writes(Verified(reg)) = {reg}
    /\ Len(Verified(reg)) = 3
<1> TAKE reg \in Registers
<1>1. ASSUME NEW a \in Accesses, a.kind = "READ",
             a.use \notin {"BEFORE", "AFTER"}
      PROVE  Piece(<<a>>) /\ Writes(<<a>>) = {} /\ Len(<<a>>) = 1
  <2>1. /\ <<a>> \in Seq(Accesses) /\ Len(<<a>>) = 1
        /\ \A i \in 1..Len(<<a>>) : <<a>>[i] = a
    OBVIOUS
  <2> QED
    BY <1>1, <2>1 DEF Piece, Writes
<1>2. /\ Piece(Read(reg)) /\ Writes(Read(reg)) = {} /\ Len(Read(reg)) = 1
      /\ Piece(ReadBack(reg)) /\ Writes(ReadBack(reg)) = {}
  <2>1. /\ [kind |-> "READ", reg |-> reg, use |-> "VALUE"] \in Accesses
        /\ [kind |-> "READ", reg |-> reg, use |-> "READBACK"] \in Accesses
    BY DEF Accesses, Uses
  <2> QED
    BY <1>1, <2>1 DEF Read, ReadBack
<1> DEFINE v == Verified(reg)
<1>3. /\ v \in Seq(Accesses) /\ Len(v) = 3
      /\ v[1].kind = "READ" /\ v[1].use = "BEFORE"
      /\ v[2].kind = "WRITE" /\ v[2].use = "VALUE" /\ v[2].reg = reg
      /\ v[3].kind = "READ" /\ v[3].use = "AFTER"
  <2>1. /\ [kind |-> "READ", reg |-> "IFCNT", use |-> "BEFORE"] \in Accesses
        /\ [kind |-> "WRITE", reg |-> reg, use |-> "VALUE"] \in Accesses
        /\ [kind |-> "READ", reg |-> "IFCNT", use |-> "AFTER"] \in Accesses
    BY DEF Accesses, Uses, Registers
  <2> QED
    BY <2>1 DEF Verified
<1> HIDE DEF v
<1>4. \A i \in 1..3 : i = 1 \/ i = 2 \/ i = 3
  OBVIOUS
<1>5. Piece(v)
  BY <1>3, <1>4 DEF Piece
<1>6. Writes(v) = {reg}
  BY <1>3, <1>4 DEF Writes
<1> QED
  BY <1>2, <1>3, <1>5, <1>6 DEF v

LEMMA Joined ==
  ASSUME NEW s, NEW t, Piece(s), Piece(t)
  PROVE  /\ Piece(s \o t)
         /\ Writes(s \o t) = Writes(s) \cup Writes(t)
         /\ Len(s \o t) = Len(s) + Len(t)
         /\ \A i \in 1..Len(s) : (s \o t)[i] = s[i]
         /\ \A i \in 1..Len(t) : (s \o t)[Len(s) + i] = t[i]
<1> DEFINE u == s \o t
<1>0. /\ s \in Seq(Accesses) /\ Len(s) \in Nat /\ Len(s) > 0
      /\ t \in Seq(Accesses) /\ Len(t) \in Nat /\ Len(t) > 0
  BY DEF Piece
<1>1. /\ u \in Seq(Accesses) /\ Len(u) = Len(s) + Len(t)
      /\ \A i \in 1..Len(s) : u[i] = s[i]
      /\ \A i \in 1..Len(t) : u[Len(s) + i] = t[i]
  BY <1>0
<1> HIDE DEF u
<1>2. ASSUME NEW i \in 1..Len(u) PROVE
        \/ i \in 1..Len(s)
        \/ i - Len(s) \in 1..Len(t) /\ u[i] = t[i - Len(s)]
  BY <1>0, <1>1, <1>2
<1>3. Piece(u)
  <2>1. ASSUME NEW i \in 1..Len(s)
        PROVE  /\ u[i] = s[i]
               /\ i > 1 => u[i - 1] = s[i - 1]
               /\ i < Len(s) => u[i + 1] = s[i + 1]
               /\ i < Len(s) => i < Len(u)
    <3>1. /\ i > 1 => i - 1 \in 1..Len(s)
          /\ i < Len(s) => i + 1 \in 1..Len(s)
      BY <1>0
    <3> QED
      BY <1>0, <1>1, <3>1
  <2>2. ASSUME NEW i \in 1..Len(t)
        PROVE  /\ u[Len(s) + i] = t[i]
               /\ i > 1 => u[Len(s) + i - 1] = t[i - 1]
               /\ i < Len(t) => u[Len(s) + i + 1] = t[i + 1]
               /\ i < Len(t) => Len(s) + i < Len(u)
    <3>1. /\ i > 1 => /\ i - 1 \in 1..Len(t)
                      /\ Len(s) + i - 1 = Len(s) + (i - 1)
          /\ i < Len(t) => /\ i + 1 \in 1..Len(t)
                           /\ Len(s) + i + 1 = Len(s) + (i + 1)
          /\ i < Len(t) => Len(s) + i < Len(s) + Len(t)
      BY <1>0
    <3> HIDE <1>0
    <3> QED
      BY <1>1, <3>1
  <2> SUFFICES ASSUME NEW i \in 1..Len(u)
               PROVE
         /\ u[i].kind = "WRITE" =>
              /\ i > 1 /\ u[i - 1].use = "BEFORE"
              /\ i < Len(u) /\ u[i + 1].use = "AFTER"
              /\ u[i].use = "VALUE"
         /\ u[i].use = "AFTER" =>
              i > 1 /\ u[i - 1].kind = "WRITE" /\ u[i].kind = "READ"
         /\ u[i].use = "BEFORE" => u[i].kind = "READ"
    BY <1>0, <1>1 DEF Piece
  <2>3. CASE i \in 1..Len(s)
    BY <1>0, <2>1, <2>3 DEF Piece
  <2>4. CASE i - Len(s) \in 1..Len(t)
    <3> DEFINE j == i - Len(s)
    <3>1. /\ u[i] = t[j]
          /\ j > 1 => u[i - 1] = t[j - 1]
          /\ j < Len(t) => u[i + 1] = t[j + 1]
          /\ j < Len(t) => i < Len(u)
          /\ j > 1 => i > 1
          /\ j \in 1..Len(t)
      BY <1>0, <2>2, <2>4
    <3> HIDE DEF j
    <3> QED BY <1>0, <3>1 DEF Piece
  <2> QED BY <1>2, <2>3, <2>4
<1>4. Writes(u) = Writes(s) \cup Writes(t)
  <2>1. ASSUME NEW r \in Writes(u) PROVE r \in Writes(s) \cup Writes(t)
    BY <1>1, <1>2 DEF Writes
  <2>2. ASSUME NEW r \in Writes(s) PROVE r \in Writes(u)
    <3>1. PICK i \in 1..Len(s) : s[i].kind = "WRITE" /\ r = s[i].reg
      BY <2>2 DEF Writes
    <3>2. i \in 1..Len(u) /\ u[i] = s[i]
      BY <1>0, <1>1
    <3> QED BY <3>1, <3>2 DEF Writes
  <2>3. ASSUME NEW r \in Writes(t) PROVE r \in Writes(u)
    <3>1. PICK i \in 1..Len(t) : t[i].kind = "WRITE" /\ r = t[i].reg
      BY <2>3 DEF Writes
    <3>2. Len(s) + i \in 1..Len(u) /\ u[Len(s) + i] = t[i]
      BY <1>0, <1>1
    <3> QED BY <3>1, <3>2 DEF Writes
  <2> QED BY <2>1, <2>2, <2>3
<1> QED BY <1>1, <1>3, <1>4 DEF u

LEMMA JoinedWrites ==
  \A s, t : Piece(s) /\ Piece(t)
              => Piece(s \o t) /\ Writes(s \o t) = Writes(s) \cup Writes(t)
  BY Joined

\* Every script is made of pieces; only the configuration clears GSTAT.
LEMMA ScriptPieces ==
  /\ Piece(StatusScript) /\ Writes(StatusScript) = {}
  /\ Piece(ProbeScript) /\ Writes(ProbeScript) = {"NODECONF", "GCONF"}
  /\ Piece(WriteScript) /\ Writes(WriteScript) = Settings \cup {"GSTAT"}
<1>1. Piece(StatusScript) /\ Piece(ProbeScript) /\ Piece(WriteScript)
  BY Pieces, Joined
     DEF StatusScript, ProbeScript, WriteScript, Registers, Settings
<1>2. Writes(StatusScript) = {}
  BY Pieces, JoinedWrites DEF StatusScript, Registers, Settings
<1>3. Writes(ProbeScript) = {"NODECONF", "GCONF"}
  BY Pieces, JoinedWrites DEF ProbeScript, Registers, Settings
<1>4. Writes(WriteScript) = Settings \cup {"GSTAT"}
  BY Pieces, JoinedWrites DEF WriteScript, Registers, Settings
<1> QED
  BY <1>1, <1>2, <1>3, <1>4

\* Hiding the concatenation keeps the provers from unfolding it.
Then(s, t) == s \o t

LEMMA Extended ==
  \A s, t :
    Piece(s) /\ Piece(t) =>
      /\ Piece(Then(s, t)) /\ Writes(Then(s, t)) = Writes(s) \cup Writes(t)
      /\ Len(s) \in Nat /\ Len(t) \in Nat /\ Len(t) > 0
      /\ Len(Then(s, t)) = Len(s) + Len(t)
      /\ \A i \in 1..Len(s) : Then(s, t)[i] = s[i]
      /\ Then(s, t)[Len(s) + 1] = t[1]
<1> TAKE s, t
<1> SUFFICES ASSUME Piece(s), Piece(t)
    PROVE /\ Piece(s \o t) /\ Writes(s \o t) = Writes(s) \cup Writes(t)
          /\ Len(s) \in Nat /\ Len(t) \in Nat /\ Len(t) > 0
          /\ Len(s \o t) = Len(s) + Len(t)
          /\ \A i \in 1..Len(s) : (s \o t)[i] = s[i]
          /\ (s \o t)[Len(s) + 1] = t[1]
  BY DEF Then
<1>1. Len(t) \in Nat /\ Len(t) > 0 /\ Len(s) \in Nat
  BY DEF Piece
<1> QED
  BY <1>1, Joined

LEMMA ReadPieces ==
  \A reg \in Registers :
    /\ Piece(Read(reg)) /\ Writes(Read(reg)) = {} /\ Len(Read(reg)) = 1
    /\ Read(reg)[1] = [kind |-> "READ", reg |-> reg, use |-> "VALUE"]
<1> TAKE reg \in Registers
<1>1. Read(reg)[1] = [kind |-> "READ", reg |-> reg, use |-> "VALUE"]
  BY DEF Read
<1> QED
  BY <1>1, Pieces

\* A status read sees GSTAT before DRV_STATUS.
LEMMA StatusOrder ==
  /\ Len(StatusScript) = 4
  /\ StatusScript[3] = [kind |-> "READ", reg |-> "GSTAT", use |-> "VALUE"]
  /\ \A i \in 1..3 : StatusScript[i].reg # "DRV_STATUS"
<1>1. /\ "IOIN" \in Registers /\ "IFCNT" \in Registers
      /\ "GSTAT" \in Registers /\ "DRV_STATUS" \in Registers
  BY DEF Registers
<1>2. PICK p, q, r, t :
         /\ p = Read("IOIN") /\ q = Read("IFCNT")
         /\ r = Read("GSTAT") /\ t = Read("DRV_STATUS")
  OBVIOUS
<1>3. /\ Piece(p) /\ Piece(q) /\ Piece(r) /\ Piece(t)
      /\ Len(p) = 1 /\ Len(q) = 1 /\ Len(r) = 1 /\ Len(t) = 1
      /\ p[1].reg = "IOIN" /\ q[1].reg = "IFCNT"
      /\ r[1] = [kind |-> "READ", reg |-> "GSTAT", use |-> "VALUE"]
  <2>1. /\ p[1] = [kind |-> "READ", reg |-> "IOIN", use |-> "VALUE"]
        /\ q[1] = [kind |-> "READ", reg |-> "IFCNT", use |-> "VALUE"]
        /\ r[1] = [kind |-> "READ", reg |-> "GSTAT", use |-> "VALUE"]
    BY <1>1, <1>2, ReadPieces, Zenon
  <2>2. /\ Piece(p) /\ Piece(q) /\ Piece(r) /\ Piece(t)
        /\ Len(p) = 1 /\ Len(q) = 1 /\ Len(r) = 1 /\ Len(t) = 1
    BY <1>1, <1>2, ReadPieces, Zenon
  <2> QED
    BY <2>1, <2>2
<1>4. PICK a : a = Then(p, q)
  OBVIOUS
<1>5. Piece(a) /\ Len(a) = 2 /\ a[1] = p[1] /\ a[2] = q[1]
  <2>1. /\ Piece(a) /\ Writes(a) = Writes(p) \cup Writes(q)
        /\ Len(a) = Len(p) + Len(q)
        /\ \A i \in 1..Len(p) : a[i] = p[i]
        /\ a[Len(p) + 1] = q[1]
    BY <1>3, <1>4, Extended, Zenon
  <2> QED
    BY <1>3, <1>4, <2>1
<1>6. PICK b : b = Then(a, r)
  OBVIOUS
<1>7. Piece(b) /\ Len(b) = 3 /\ b[1] = p[1] /\ b[2] = q[1] /\ b[3] = r[1]
  <2>0. Piece(a) /\ Piece(r)
    BY <1>3, <1>5
  <2>1. /\ Piece(b) /\ Writes(b) = Writes(a) \cup Writes(r)
        /\ Len(b) = Len(a) + Len(r)
        /\ \A i \in 1..Len(a) : b[i] = a[i]
        /\ b[Len(a) + 1] = r[1]
    BY <2>0, <1>6, Extended, Zenon
  <2> QED
    BY <1>3, <1>5, <1>6, <2>1
<1>8. PICK c : c = Then(b, t)
  OBVIOUS
<1>9. Len(c) = 4 /\ c[1] = p[1] /\ c[2] = q[1] /\ c[3] = r[1]
  <2>0. Piece(b) /\ Piece(t)
    BY <1>3, <1>7
  <2>1. /\ Piece(c) /\ Writes(c) = Writes(b) \cup Writes(t)
        /\ Len(c) = Len(b) + Len(t)
        /\ \A i \in 1..Len(b) : c[i] = b[i]
        /\ c[Len(b) + 1] = t[1]
    BY <2>0, <1>8, Extended, Zenon
  <2> QED
    BY <1>3, <1>7, <1>8, <2>1
<1>10. StatusScript = c
  BY <1>2, <1>4, <1>6, <1>8 DEF StatusScript, Then
<1>11. \A i \in 1..3 : i = 1 \/ i = 2 \/ i = 3
  OBVIOUS
<1> QED
  BY <1>3, <1>9, <1>10, <1>11

\* The probe reads GCONF before it writes it.
LEMMA ProbeOrder ==
  /\ Len(ProbeScript) > 5
  /\ ProbeScript[5] = [kind |-> "READ", reg |-> "GCONF", use |-> "VALUE"]
  /\ \A i \in 1..5 :
       ProbeScript[i].kind = "WRITE" => ProbeScript[i].reg = "NODECONF"
<1>1. /\ "NODECONF" \in Registers /\ "GCONF" \in Registers
      /\ "IOIN" \in Registers /\ "IFCNT" \in Registers
      /\ "GSTAT" \in Registers /\ "DRV_STATUS" \in Registers
  BY DEF Registers, Settings
<1>2. PICK v, p, q :
         v = Verified("NODECONF") /\ p = Read("IOIN") /\ q = Read("GCONF")
  OBVIOUS
<1>3. /\ Piece(v) /\ Len(v) = 3 /\ Writes(v) = {"NODECONF"}
      /\ Piece(p) /\ Len(p) = 1 /\ Writes(p) = {}
      /\ Piece(q) /\ Len(q) = 1 /\ Writes(q) = {}
      /\ q[1] = [kind |-> "READ", reg |-> "GCONF", use |-> "VALUE"]
  BY <1>1, <1>2, Pieces, ReadPieces
<1>4. PICK a : a = Then(v, p)
  OBVIOUS
<1>5. Piece(a) /\ Len(a) = 4 /\ Writes(a) = {"NODECONF"}
  <2>1. /\ Piece(a) /\ Writes(a) = Writes(v) \cup Writes(p)
        /\ Len(a) = Len(v) + Len(p)
        /\ \A i \in 1..Len(v) : a[i] = v[i]
        /\ a[Len(v) + 1] = p[1]
    BY <1>3, <1>4, Extended, Zenon
  <2> QED
    BY <1>3, <1>4, <2>1
<1>6. PICK b : b = Then(a, q)
  OBVIOUS
<1>7. /\ Piece(b) /\ Len(b) = 5 /\ Writes(b) = {"NODECONF"}
      /\ b[5] = [kind |-> "READ", reg |-> "GCONF", use |-> "VALUE"]
  <2>1. /\ Piece(b) /\ Writes(b) = Writes(a) \cup Writes(q)
        /\ Len(b) = Len(a) + Len(q)
        /\ \A i \in 1..Len(a) : b[i] = a[i]
        /\ b[Len(a) + 1] = q[1]
    BY <1>3, <1>5, <1>6, Extended, Zenon
  <2> QED
    BY <1>3, <1>5, <1>6, <2>1
<1> DEFINE Begins(s) == /\ Piece(s) /\ Len(s) \in Nat /\ Len(s) > 5
                        /\ \A i \in 1..5 : s[i] = b[i]
<1>8. \A s, t :
        Piece(s) /\ (s = b \/ Begins(s)) /\ Piece(t) => Begins(Then(s, t))
  <2> SUFFICES ASSUME NEW s, NEW t, Piece(s), s = b \/ Begins(s), Piece(t)
               PROVE  Begins(Then(s, t))
    OBVIOUS
  <2>1. Len(t) \in Nat /\ Len(t) > 0
    BY DEF Piece
  <2> QED
    <3>1. /\ Piece(Then(s, t)) /\ Len(Then(s, t)) = Len(s) + Len(t)
          /\ \A i \in 1..Len(s) : Then(s, t)[i] = s[i]
      BY Extended, Zenon
    <3>2. Len(s) \in Nat /\ Len(s) >= 5 /\ \A i \in 1..5 : s[i] = b[i]
      BY <1>7
    <3> QED
      BY <2>1, <3>1, <3>2
<1>9. /\ Piece(Verified("GCONF")) /\ Piece(ReadBack("GCONF"))
      /\ Piece(Read("IFCNT")) /\ Piece(Read("GSTAT"))
      /\ Piece(Read("DRV_STATUS"))
  BY <1>1, Pieces
<1>10. \A s : Begins(s) => Piece(s)
  OBVIOUS
<1> HIDE DEF Begins
<1>11. Begins(Then(Then(Then(Then(Then(b, Verified("GCONF")),
                ReadBack("GCONF")), Read("IFCNT")), Read("GSTAT")),
                Read("DRV_STATUS")))
  BY <1>7, <1>8, <1>9, <1>10
<1>12. Begins(ProbeScript)
  BY <1>2, <1>4, <1>6, <1>11 DEF ProbeScript, Then
<1>13. \A i \in 1..5 : b[i].kind = "WRITE" => b[i].reg = "NODECONF"
  BY <1>7 DEF Writes
<1> QED
  BY <1>7, <1>12, <1>13 DEF Begins

\* All settings have been written before the last access but two.
LEMMA WriteOrder ==
  \A reg \in Settings :
    \E i \in 1..Len(WriteScript) :
      /\ i + 1 < Len(WriteScript)
      /\ WriteScript[i].kind = "WRITE" /\ WriteScript[i].reg = reg
<1> DEFINE A == Verified("GCONF") \o ReadBack("GCONF")
                \o Verified("CHOPCONF") \o ReadBack("CHOPCONF")
                \o Verified("PWMCONF") \o ReadBack("PWMCONF")
                \o Verified("IHOLD_IRUN") \o Verified("TPOWERDOWN")
                \o Verified("TPWMTHRS")
<1>1. Piece(A)
  BY Pieces, Joined DEF Registers, Settings
<1>2. Writes(A) = Settings
  BY Pieces, JoinedWrites DEF Registers, Settings
<1>3. WriteScript = A \o Verified("GSTAT")
  BY DEF WriteScript
<1> HIDE DEF A
<1>4. PICK a, v, w : a = A /\ v = Verified("GSTAT") /\ w = WriteScript
  OBVIOUS
<1>5. Piece(v) /\ Len(v) = 3
  BY <1>4, Pieces DEF Registers
<1>6. Piece(a) /\ Writes(a) = Settings /\ w = Then(a, v) /\ Len(a) \in Nat
  BY <1>1, <1>2, <1>3, <1>4 DEF Piece, Then
<1>7. Len(w) = Len(a) + 3 /\ \A i \in 1..Len(a) : w[i] = a[i]
  <2>1. /\ Piece(w) /\ Writes(w) = Writes(a) \cup Writes(v)
        /\ Len(w) = Len(a) + Len(v)
        /\ \A i \in 1..Len(a) : w[i] = a[i]
        /\ w[Len(a) + 1] = v[1]
    BY <1>5, <1>6, Extended, Zenon
  <2> QED
    BY <1>5, <1>6, <2>1
<1>8. \A reg \in Settings :
        \E i \in 1..Len(a) : a[i].kind = "WRITE" /\ a[i].reg = reg
  BY <1>6 DEF Writes
<1>9. \A i \in 1..Len(a) : i \in 1..Len(w) /\ i + 1 < Len(w)
  BY <1>6, <1>7
<1> QED
  BY <1>4, <1>7, <1>8, <1>9

-----------------------------------------------------------------------------
\* The registers whose write has been verified before access s of the
\* configuration.
Checked(s) ==
    {WriteScript[i].reg :
        i \in {j \in 1..Len(WriteScript) :
                 j + 1 < s /\ WriteScript[j].kind = "WRITE"}}

Holds(reg) == reg \in Settings => reg \in chip.set

\* n writes to reg were accepted since IFCNT was read.
Counted(n, reg) ==
    /\ chip.ifcnt \in {before + n, before + n - IfcntModulus}
    /\ n > 0 => Holds(reg)

\* Unless the chip has reset, what is verified is in the chip, and IFCNT has
\* counted the attempts of the write under way that were accepted.
Written ==
    op = "WRITE" /\ ~resetSeen =>
      /\ Checked(step) \cap Settings \subseteq chip.set
      /\ Current.kind = "WRITE" =>
           \E n \in 0..attempt : Counted(n, Current.reg)
      /\ Current.use = "AFTER" =>
           \E n \in 0..Attempts : Counted(n, WriteScript[step - 1].reg)

\* A reset is latched until the configuration hides it.
Latched == resetSeen => chip.reset \/ hidden

\* What the firmware holds valid is in the chip.
ValidHolds == dev.valid => op # "WRITE" /\ (Applied \/ chip.reset \/ hidden)

\* The probe puts GCONF back.
Restores ==
    op = "PROBE" /\ step > 5 =>
      IF saved THEN "GCONF" \in chip.set \/ resetSeen
      ELSE "GCONF" \notin chip.set

\* A status read has seen a reset that it did not overlap.
Reported == op = "STATUS" /\ step > 3 => gstat \/ ~chip.reset \/ resetSeen

ChipState ==
    [ifcnt : 0..(IfcntModulus - 1), reset : BOOLEAN, set : SUBSET Settings]

TrafficType ==
    /\ Running => step \in 1..Len(Script[op])
    /\ attempt \in 0..(Attempts - 1)
    /\ before \in 0..(IfcntModulus - 1)
    /\ saved \in BOOLEAN /\ resetSeen \in BOOLEAN /\ hidden \in BOOLEAN
    /\ chip \in ChipState

Traffic ==
    /\ TrafficType
    /\ Written /\ Latched /\ ValidHolds /\ Restores /\ Reported

\* The access at place s of a script.
LEMMA Places ==
  ASSUME NEW o \in {"PROBE", "WRITE", "STATUS"}, NEW s \in 1..Len(Script[o])
  PROVE  /\ Len(Script[o]) \in Nat /\ Script[o][s] \in Accesses
         /\ Script[o][s].kind = "WRITE" =>
              /\ Script[o][s].use = "VALUE" /\ s > 1 /\ s < Len(Script[o])
              /\ Script[o][s - 1].use = "BEFORE"
              /\ Script[o][s + 1].use = "AFTER"
         /\ Script[o][s].use = "AFTER" =>
              /\ Script[o][s].kind = "READ" /\ s > 1
              /\ Script[o][s - 1].kind = "WRITE"
         /\ Script[o][s].use = "BEFORE" => Script[o][s].kind = "READ"
<1>1. Piece(Script[o])
  BY ScriptPieces DEF Script
<1> DEFINE t == Script[o]
<1> HIDE DEF t
<1>2. Piece(t) /\ s \in 1..Len(t)
  BY <1>1 DEF t
<1>3. Len(t) \in Nat /\ t[s] \in Accesses
  BY <1>2 DEF Piece
<1> QED
  BY <1>2, <1>3 DEF t, Piece

\* What a script writes, and where.
LEMMA WritePlaces ==
  ASSUME NEW o \in {"PROBE", "WRITE", "STATUS"}, NEW s \in 1..Len(Script[o]),
         Script[o][s].kind = "WRITE"
  PROVE  /\ o # "STATUS"
         /\ o = "PROBE" => Script[o][s].reg \in {"NODECONF", "GCONF"}
         /\ o = "PROBE" /\ Script[o][s].reg = "GCONF" => s > 5
<1>1. Script[o][s].reg \in Writes(Script[o])
  BY DEF Writes
<1>2. CASE o = "PROBE"
  <2>1. Script[o] = ProbeScript
    BY <1>2 DEF Script
  <2> QED
    BY <1>1, <1>2, <2>1, ScriptPieces, ProbeOrder
<1>3. CASE o = "STATUS"
  BY <1>1, <1>3, ScriptPieces DEF Script
<1>4. CASE o = "WRITE"
  BY <1>4
<1> QED
  BY <1>2, <1>3, <1>4

LEMMA TrafficInit == Init => Traffic
<1> SUFFICES ASSUME Init PROVE Traffic
  OBVIOUS
<1>1. ~Running /\ op = "BOOT"
  BY Scripts DEF Init
<1>2. TrafficType
  <2>1. PowerOn \in ChipState
    BY RegisterAssumption DEF PowerOn, ChipState
  <2>2. 0 \in 0..(Attempts - 1) /\ 0 \in 0..(IfcntModulus - 1)
    BY RegisterAssumption
  <2> QED
    BY <1>1, <2>1, <2>2 DEF Init, TrafficType
<1> QED
  BY <1>1, <1>2
     DEF Init, Traffic, Written, Latched, ValidHolds, Restores, Reported,
         PowerOn, InitialDevice

\* IFCNT after one more write.
LEMMA NextCount ==
  ASSUME NEW b \in 0..(IfcntModulus - 1), NEW c \in 0..(IfcntModulus - 1),
         NEW n \in 0..(Attempts - 1),
         c \in {b + n, b + n - IfcntModulus}
  PROVE  /\ NextIfcnt(c) \in 0..(IfcntModulus - 1)
         /\ NextIfcnt(c) \in {b + (n + 1), b + (n + 1) - IfcntModulus}
<1>1. /\ IfcntModulus \in Nat /\ IfcntModulus > 0
      /\ Attempts \in Nat /\ Attempts < IfcntModulus
  BY RegisterAssumption
<1>2. (c + 1) % IfcntModulus = IF c = IfcntModulus - 1 THEN 0 ELSE c + 1
  BY <1>1
<1> QED
  BY <1>1, <1>2 DEF NextIfcnt

\* A counter that advanced by one counted at least one write.
LEMMA AdvancedCount ==
  ASSUME NEW b \in 0..(IfcntModulus - 1), NEW c \in 0..(IfcntModulus - 1),
         NEW n \in 0..Attempts,
         c \in {b + n, b + n - IfcntModulus}, c = (b + 1) % IfcntModulus
  PROVE  n > 0
<1>1. /\ IfcntModulus \in Nat /\ IfcntModulus > 1
      /\ Attempts \in Nat /\ Attempts < IfcntModulus
  BY RegisterAssumption
<1>2. (b + 1) % IfcntModulus = IF b = IfcntModulus - 1 THEN 0 ELSE b + 1
  BY <1>1
<1> QED
  BY <1>1, <1>2

-----------------------------------------------------------------------------
\* What a step may do to the chip: nothing, take a write, or reset it.
Unmoved == chip' = chip /\ hidden' = hidden
Takes ==
    /\ Running /\ Current.kind = "WRITE" /\ Accepted
    /\ AttemptFails \/ WriteSent

LEMMA ChipCases ==
  ASSUME Next
  PROVE  \/ Unmoved /\ resetSeen' \in {resetSeen, FALSE}
         \/ Takes /\ resetSeen' = resetSeen
         \/ ChipResets
  BY DEF Next, Boot, StartRefresh, StartConfigure, Called, Access, AttemptFails,
         ExchangeFails, WriteSent, ReadBefore, ReadAfter, ReadBackCompare,
         ReadValue, ReadLast, Answered, Dropped, Unmoved, Takes

\* What it may do to the call: nothing, go on, or begin another or return.
LEMMA CallCases ==
  ASSUME Next
  PROVE  \/ /\ op' = op /\ step' = step /\ dev' = dev /\ saved' = saved
            /\ gstat' = gstat /\ before' = before
            /\ \/ ChipResets /\ attempt' = attempt
               \/ /\ AttemptFails /\ attempt + 1 < Attempts
                  /\ attempt' = attempt + 1
         \/ Advance /\ Access /\ resetSeen' = resetSeen
         \/ \E o \in {"IDLE", "PROBE", "WRITE", "STATUS"} : Begin(o)
  BY DEF Next, Boot, StartRefresh, StartConfigure, Called, Access, AttemptFails,
         RetryOrGiveUp, SetError, Return, AllWritten, ChipResets, call, local,
         WriteSent, ReadBefore, ReadAfter, ReadBackCompare, ReadValue, ReadLast

LEMMA PlaceOK ==
  ASSUME TrafficType, Running
  PROVE  /\ op \in {"PROBE", "WRITE", "STATUS"}
         /\ step \in 1..Len(Script[op]) /\ Len(Script[op]) \in Nat
         /\ Current \in Accesses
  BY Scripts, Places DEF TrafficType, Current

\* The chip keeps its type, and a write only adds settings, except that the
\* probe writes GCONF back as it was.
LEMMA TakesOK ==
  ASSUME Traffic, Takes
  PROVE  /\ chip' \in ChipState /\ hidden' \in BOOLEAN
         /\ chip'.ifcnt = NextIfcnt(chip.ifcnt)
         /\ op = "WRITE" \/ op = "PROBE"
         /\ op = "WRITE" =>
              /\ chip.set \subseteq chip'.set
              /\ Current.reg \in Settings => Current.reg \in chip'.set
         /\ op = "PROBE" =>
              /\ chip'.reset = chip.reset /\ hidden' = hidden
              /\ Current.reg = "GCONF" => step > 5
              /\ chip'.set = IF Current.reg = "GCONF" /\ saved
                             THEN chip.set \cup {"GCONF"} ELSE chip.set
         /\ (chip'.reset = chip.reset /\ hidden' = hidden) \/ hidden' = resetSeen
<1>1. /\ op \in {"PROBE", "WRITE", "STATUS"} /\ Current.kind = "WRITE"
      /\ step \in 1..Len(Script[op]) /\ Current \in Accesses
      /\ chip' = Taken(chip)
      /\ hidden' = IF Current.reg = "GSTAT" THEN resetSeen ELSE hidden
  BY PlaceOK DEF Traffic, Takes, Accepted
<1>2. /\ op # "STATUS"
      /\ op = "PROBE" => /\ Current.reg \in {"NODECONF", "GCONF"}
                         /\ Current.reg = "GCONF" => step > 5
  BY <1>1, WritePlaces DEF Current
<1>3. /\ chip \in ChipState /\ saved \in BOOLEAN /\ resetSeen \in BOOLEAN
      /\ hidden \in BOOLEAN
  BY DEF Traffic, TrafficType
<1>4. NextIfcnt(chip.ifcnt) \in 0..(IfcntModulus - 1)
  <2>1. chip.ifcnt \in 0..(IfcntModulus - 1)
    BY <1>3 DEF ChipState
  <2> QED
    BY <2>1, RegisterAssumption DEF NextIfcnt
<1>5. /\ chip'.ifcnt = NextIfcnt(chip.ifcnt)
      /\ chip'.reset = (chip.reset /\ Current.reg # "GSTAT")
      /\ chip'.set = IF op = "PROBE" /\ Current.reg = "GCONF" /\ ~saved
                     THEN chip.set \ {"GCONF"}
                     ELSE chip.set \cup ({Current.reg} \cap Settings)
      /\ chip' = [ifcnt |-> chip'.ifcnt, reset |-> chip'.reset,
                  set |-> chip'.set]
  BY <1>1 DEF Taken, ProbeGconf
<1>6. /\ chip'.reset \in BOOLEAN
      /\ Current.reg # "GSTAT" => chip'.reset = chip.reset
  <2>1. chip.reset \in BOOLEAN
    BY <1>3 DEF ChipState
  <2> QED
    BY <1>5, <2>1
<1>7. chip.set \subseteq Settings /\ chip'.set \subseteq Settings
  BY <1>3, <1>5 DEF ChipState
<1>8. chip' \in ChipState
  BY <1>4, <1>5, <1>6, <1>7 DEF ChipState
<1>9. ASSUME op = "PROBE"
      PROVE  chip'.set = IF Current.reg = "GCONF" /\ saved
                         THEN chip.set \cup {"GCONF"} ELSE chip.set
  <2>1. CASE Current.reg = "NODECONF"
    BY <1>5, <2>1 DEF Settings
  <2>2. CASE Current.reg = "GCONF" /\ saved
    BY <1>5, <2>2 DEF Settings
  <2>3. CASE Current.reg = "GCONF" /\ ~saved
    <3>1. "GCONF" \notin chip.set
      BY <1>2, <1>9, <2>3 DEF Traffic, Restores
    <3> QED
      BY <1>5, <1>9, <2>3, <3>1
  <2> QED
    BY <1>2, <1>9, <2>1, <2>2, <2>3
<1>10. ASSUME op = "WRITE"
       PROVE  /\ chip.set \subseteq chip'.set
              /\ Current.reg \in Settings => Current.reg \in chip'.set
  BY <1>5, <1>10
<1> QED
  BY <1>1, <1>2, <1>3, <1>5, <1>6, <1>8, <1>9, <1>10

LEMMA ChipKept ==
  ASSUME Traffic, Next
  PROVE  chip' \in ChipState /\ hidden' \in BOOLEAN /\ resetSeen' \in BOOLEAN
<1>1. PowerOn \in ChipState
  BY RegisterAssumption DEF PowerOn, ChipState
<1> QED
  BY <1>1, ChipCases, TakesOK DEF Traffic, TrafficType, ChipResets, Unmoved

LEMMA TypeKept ==
  ASSUME Traffic, Next
  PROVE  TrafficType'
<1>1. /\ attempt \in 0..(Attempts - 1) /\ before \in 0..(IfcntModulus - 1)
      /\ saved \in BOOLEAN /\ chip \in ChipState /\ Attempts \in Nat \ {0}
      /\ chip.ifcnt \in 0..(IfcntModulus - 1)
      /\ Running => step \in 1..Len(Script[op])
  BY RegisterAssumption DEF Traffic, TrafficType, ChipState
<1>2. before' \in {before, chip.ifcnt}
  BY DEF Next, Boot, StartRefresh, StartConfigure, Called, Access,
         AttemptFails, WriteSent, ReadBefore, ReadAfter, ReadBackCompare,
         ReadValue, ReadLast, ChipResets, call, local
<1>5. saved' \in BOOLEAN
  <2>1. saved' = saved \/ ReadValue
    BY DEF Next, Boot, StartRefresh, StartConfigure, Called, Access,
           AttemptFails, WriteSent, ReadBefore, ReadAfter, ReadBackCompare,
           ReadLast, ChipResets, call, local
  <2>2. ReadValue => saved' = saved \/ saved' = ("GCONF" \in chip.set)
    BY DEF ReadValue
  <2>3. CASE saved' = saved
    BY <1>1, <2>3
  <2>4. CASE saved' = ("GCONF" \in chip.set)
    BY <2>4
  <2> QED
    BY <2>1, <2>2, <2>3, <2>4
<1>3. attempt' \in 0..(Attempts - 1)
  BY <1>1, CallCases DEF Advance, Begin
<1>4. ASSUME Running' PROVE step' \in 1..Len(Script[op'])
  <2>1. CASE op' = op /\ step' = step
    <3>1. Running
      BY <1>4, <2>1, Scripts, ScriptsNext
    <3> QED
      BY <1>1, <2>1, <3>1
  <2>2. CASE Advance /\ Access
    <3>1. Running /\ op' = op /\ step' = step + 1 /\ step # Len(Script[op])
      BY <2>2, AccessCases DEF Advance, Last
    <3>2. Len(Script[op]) \in Nat
      BY <3>1, PlaceOK DEF Traffic
    <3> QED
      BY <1>1, <3>1, <3>2
  <2>3. CASE \E o \in {"IDLE", "PROBE", "WRITE", "STATUS"} : Begin(o)
    <3>1. step' = 1 /\ op' \in {"PROBE", "WRITE", "STATUS"}
      BY <1>4, <2>3, ScriptsNext DEF Begin
    <3>2. Piece(Script[op'])
      BY <3>1, ScriptPieces DEF Script
    <3>3. Len(Script[op']) \in Nat /\ Len(Script[op']) > 0
      BY <3>2 DEF Piece
    <3> QED
      BY <3>1, <3>3
  <2> QED
    BY <2>1, <2>2, <2>3, CallCases
<1> QED
  BY <1>1, <1>2, <1>3, <1>4, <1>5, ChipKept DEF TrafficType

LEMMA LatchedKept ==
  ASSUME Traffic, Next
  PROVE  Latched'
<1>1. CASE Unmoved /\ resetSeen' \in {resetSeen, FALSE}
  BY <1>1 DEF Unmoved, Traffic, Latched
<1>2. CASE Takes /\ resetSeen' = resetSeen
  BY <1>2, TakesOK DEF Traffic, Latched
<1>3. CASE ChipResets
  BY <1>3 DEF ChipResets, PowerOn, Latched
<1> QED
  BY <1>1, <1>2, <1>3, ChipCases

\* The step to the next place of a script.
LEMMA NextPlace ==
  ASSUME TrafficType, Running, Advance
  PROVE  /\ op' = op /\ step' = step + 1 /\ dev' = dev /\ attempt' = 0
         /\ step' \in 1..Len(Script[op]) /\ Current' = Script[op][step + 1]
         /\ Current'.kind = "WRITE" => Current.use = "BEFORE"
         /\ Current'.use = "AFTER" => Current.kind = "WRITE"
<1>1. /\ op \in {"PROBE", "WRITE", "STATUS"} /\ step \in 1..Len(Script[op])
      /\ Len(Script[op]) \in Nat
  BY PlaceOK
<1>2. /\ op' = op /\ step' = step + 1 /\ dev' = dev /\ attempt' = 0
      /\ step # Len(Script[op])
  BY DEF Advance, Last
<1>3. step + 1 \in 1..Len(Script[op]) /\ (step + 1) - 1 = step
  BY <1>1, <1>2
<1>4. Current' = Script[op][step + 1]
  BY <1>2 DEF Current
<1> QED
  BY <1>1, <1>2, <1>3, <1>4, Places DEF Current

LEMMA AllChecked ==
  ASSUME chip \in ChipState,
         Checked(Len(WriteScript)) \cap Settings \subseteq chip.set
  PROVE  Applied
<1>1. Settings \subseteq Checked(Len(WriteScript))
  BY WriteOrder DEF Checked
<1>2. chip.set \subseteq Settings
  BY DEF ChipState
<1> QED
  BY <1>1, <1>2 DEF Applied

\* What the firmware newly holds valid is what the configuration has written.
LEMMA ValidCases ==
  ASSUME CallInv, Traffic, Next, dev'.valid
  PROVE  \/ dev.valid /\ op' # "WRITE"
         \/ /\ op = "WRITE" /\ Last /\ Current.use = "AFTER" /\ op' = "STATUS"
            /\ Unmoved
<1>0. dev \in DriverState
  BY DEF CallInv
<1>1. CASE dev' = dev /\ op' = op
  BY <1>1 DEF Traffic, ValidHolds
<1>2. CASE SetError
  BY <1>0, <1>2 DEF SetError, Return, Begin, DriverState
<1>3. CASE Boot \/ StartRefresh \/ StartConfigure
  BY <1>0, <1>2, <1>3
     DEF Boot, StartRefresh, StartConfigure, Called, Begin, Probing, Rewriting,
         DriverState
<1>4. CASE ReadAfter /\ AllWritten
  BY <1>4 DEF ReadAfter, Answered, AllWritten, Begin, Unmoved
<1>5. CASE ReadLast
  <2>1. ASSUME NEW fatal \in BOOLEAN
        PROVE  /\ Observed(fatal) \in DriverState
               /\ Observed(fatal).valid => dev.valid
    <3>1. Running
      BY <1>5, Scripts DEF ReadLast
    <3>2. Observed(fatal) \in DriverState
      BY <2>1, <3>1, ReturnIsKnown
    <3>3. Observed(fatal).valid => dev.valid
      BY DEF Observed, Observe
    <3> QED
      BY <3>2, <3>3
  <2> QED
    BY <1>5, <2>1 DEF ReadLast, Begin, Return, Rewriting, DriverState
<1>6. CASE ChipResets
  BY <1>1, <1>6 DEF ChipResets, call
<1>7. CASE Access /\ ~ReadLast /\ ~(ReadAfter /\ AllWritten)
  <2>1. SetError \/ (dev' = dev /\ op' = op)
    BY <1>7 DEF Access, AttemptFails, RetryOrGiveUp, WriteSent, ReadBefore,
       ReadAfter, ReadBackCompare, ReadValue, Advance
  <2> QED
    BY <1>1, <1>2, <2>1
<1> QED
  BY <1>3, <1>4, <1>5, <1>6, <1>7 DEF Next

LEMMA ValidKept ==
  ASSUME CallInv, Traffic, Next
  PROVE  ValidHolds'
<1> SUFFICES ASSUME dev'.valid
             PROVE  op' # "WRITE" /\ (Applied \/ chip.reset \/ hidden)'
  BY DEF ValidHolds
<1>1. CASE op = "WRITE" /\ Last /\ Current.use = "AFTER" /\ op' = "STATUS" /\ Unmoved
  <2>1. Script[op] = WriteScript /\ step = Len(WriteScript)
    BY <1>1 DEF Script, Last
  <2>2. ~resetSeen => Applied
    BY <1>1, <2>1, AllChecked DEF Traffic, TrafficType, Written
  <2>3. resetSeen => chip.reset \/ hidden
    BY DEF Traffic, Latched
  <2> QED
    BY <1>1, <2>2, <2>3 DEF Unmoved, Applied
<1>2. CASE dev.valid /\ op' # "WRITE"
  <2>1. op # "WRITE" /\ (Applied \/ chip.reset \/ hidden)
    BY <1>2 DEF Traffic, ValidHolds
  <2>2. CASE Unmoved
    BY <1>2, <2>1, <2>2 DEF Unmoved, Applied
  <2>3. CASE Takes
    <3>1. /\ chip'.reset = chip.reset /\ hidden' = hidden /\ op = "PROBE"
          /\ Current.reg = "GCONF" => step > 5
          /\ chip'.set = IF Current.reg = "GCONF" /\ saved
                         THEN chip.set \cup {"GCONF"} ELSE chip.set
      BY <2>1, <2>3, TakesOK
    <3>2. Applied => chip'.set = Settings
      BY <3>1 DEF Applied, Settings
    <3> QED
      BY <1>2, <2>1, <3>1, <3>2 DEF Applied
  <2>4. CASE ChipResets
    BY <1>2, <2>4 DEF ChipResets, PowerOn
  <2> QED
    BY <2>2, <2>3, <2>4, ChipCases
<1> QED
  BY <1>1, <1>2, ValidCases

LEMMA RestoresKept ==
  ASSUME Traffic, Next
  PROVE  Restores'
<1> SUFFICES ASSUME op' = "PROBE", step' > 5
             PROVE  IF saved' THEN "GCONF" \in chip'.set \/ resetSeen'
                    ELSE "GCONF" \notin chip'.set
  BY DEF Restores
<1>0. TrafficType /\ saved \in BOOLEAN
  BY DEF Traffic, TrafficType
<1>1. CASE ~\E o \in {"IDLE", "PROBE", "WRITE", "STATUS"} : Begin(o)
  <2>1. op = "PROBE" /\ Running /\ step \in Nat
    <3>1. op = "PROBE"
      BY <1>1, CallCases DEF Advance
    <3> QED
      BY <1>0, <3>1, Scripts, PlaceOK
  <2>2. CASE step > 5 /\ ~ReadValue
    <3>1. IF saved THEN "GCONF" \in chip.set \/ resetSeen
          ELSE "GCONF" \notin chip.set
      BY <2>1, <2>2 DEF Traffic, Restores
    <3>2. saved' = saved
      BY <2>1, <2>2 DEF Next, Boot, StartRefresh, StartConfigure, Called, Access,
           AttemptFails, WriteSent, ReadBefore, ReadAfter, ReadBackCompare,
           ReadLast, ChipResets, call, local
    <3>3. CASE Unmoved /\ resetSeen' \in {resetSeen, FALSE}
      <4>1. ChipResets \/ resetSeen' = resetSeen
        BY <1>1, CallCases DEF AttemptFails
      <4>2. resetSeen => resetSeen'
        BY <4>1 DEF ChipResets
      <4> QED
        BY <3>1, <3>2, <3>3, <4>2 DEF Unmoved
    <3>4. CASE Takes /\ resetSeen' = resetSeen
      BY <2>1, <3>1, <3>2, <3>4, TakesOK
    <3>5. CASE ChipResets
      BY <3>1, <3>2, <3>5 DEF ChipResets, PowerOn
    <3> QED
      BY <3>3, <3>4, <3>5, ChipCases
  <2>3. CASE step > 5 /\ ReadValue
    <3>1. chip' = chip /\ resetSeen' = resetSeen
      BY <2>3 DEF ReadValue, Answered
    <3>2. saved' = saved \/ (saved' <=> "GCONF" \in chip.set)
      BY <2>3, Zenon DEF ReadValue
    <3>3. IF saved THEN "GCONF" \in chip.set \/ resetSeen
          ELSE "GCONF" \notin chip.set
      BY <2>1, <2>3 DEF Traffic, Restores
    <3> QED
      BY <3>1, <3>2, <3>3
  <2>4. CASE ~(step > 5)
    <3>1. Advance /\ Access /\ step = 5
      BY <1>1, <2>1, <2>4, CallCases DEF Advance
    <3>2. Current = [kind |-> "READ", reg |-> "GCONF", use |-> "VALUE"]
      BY <2>1, <3>1, ProbeOrder DEF Current, Script
    <3>3. ReadValue
      BY <1>1, <3>1, <3>2 DEF Access, AttemptFails, WriteSent, ReadBefore, ReadAfter,
           ReadBackCompare, ReadLast, Answered, RetryOrGiveUp, SetError, Return, Advance
    <3>4. chip' = chip /\ saved' = ("GCONF" \in chip.set)
      BY <3>2, <3>3 DEF ReadValue, Answered
    <3> QED
      BY <3>4
  <2> QED
    BY <2>2, <2>3, <2>4
<1>2. CASE \E o \in {"IDLE", "PROBE", "WRITE", "STATUS"} : Begin(o)
  BY <1>2 DEF Begin
<1> QED
  BY <1>1, <1>2

LEMMA ReportedKept ==
  ASSUME Traffic, Next
  PROVE  Reported'
<1> SUFFICES ASSUME op' = "STATUS", step' > 3
             PROVE  gstat' \/ ~chip'.reset \/ resetSeen'
  BY DEF Reported
<1>0. TrafficType
  BY DEF Traffic
<1>1. CASE \E o \in {"IDLE", "PROBE", "WRITE", "STATUS"} : Begin(o)
  BY <1>1 DEF Begin
<1>2. CASE ChipResets
  BY <1>2 DEF ChipResets
<1>3. CASE ~ChipResets /\ ~\E o \in {"IDLE", "PROBE", "WRITE", "STATUS"} : Begin(o)
  <2>1. op = "STATUS" /\ Running /\ step \in 1..4 /\ resetSeen' = resetSeen
    <3>1. op = "STATUS" /\ resetSeen' = resetSeen
      BY <1>3, CallCases DEF Advance, AttemptFails
    <3>2. step \in 1..Len(Script[op]) /\ Script[op] = StatusScript
      BY <1>0, <3>1, Scripts, PlaceOK DEF Script
    <3> QED
      BY <3>1, <3>2, Scripts, StatusOrder
  <2>2. chip' = chip
    BY <1>3, <2>1, ChipCases, TakesOK DEF Unmoved
  <2>3. CASE step > 3
    <3>1. ~Advance
      BY <2>1, <2>3, StatusOrder DEF Advance, Last, Script
    <3>2. gstat' = gstat
      BY <1>3, <3>1, CallCases
    <3> QED
      BY <2>1, <2>2, <2>3, <3>2 DEF Traffic, Reported
  <2>4. CASE ~(step > 3)
    <3>1. Advance /\ Access /\ step = 3
      BY <1>3, <2>1, <2>4, CallCases DEF Advance
    <3>2. Current = [kind |-> "READ", reg |-> "GSTAT", use |-> "VALUE"]
      BY <2>1, <3>1, StatusOrder DEF Current, Script
    <3>3. ReadValue
      BY <1>3, <3>1, <3>2 DEF Access, AttemptFails, WriteSent, ReadBefore, ReadAfter,
           ReadBackCompare, ReadLast, Answered, RetryOrGiveUp, SetError, Return, Advance
    <3>4. gstat' = chip.reset
      BY <3>2, <3>3 DEF ReadValue
    <3> QED
      BY <2>2, <3>4
  <2> QED
    BY <2>3, <2>4
<1> QED
  BY <1>1, <1>2, <1>3

\* What has been verified before the next place.
LEMMA CheckedNext ==
  ASSUME NEW s \in 1..Len(WriteScript), NEW r \in Checked(s + 1)
  PROVE  \/ r \in Checked(s)
         \/ /\ s > 1 /\ WriteScript[s - 1].kind = "WRITE"
            /\ WriteScript[s].use = "AFTER" /\ r = WriteScript[s - 1].reg
<1>1. PICK j \in 1..Len(WriteScript) :
         /\ j + 1 < s + 1 /\ WriteScript[j].kind = "WRITE"
         /\ r = WriteScript[j].reg
  BY DEF Checked
<1>2. Script["WRITE"] = WriteScript /\ Len(WriteScript) \in Nat
  BY Places DEF Script
<1>3. CASE j + 1 < s
  BY <1>1, <1>3 DEF Checked
<1>4. CASE j + 1 = s
  <2>1. WriteScript[j + 1].use = "AFTER"
    BY <1>1, <1>2, Places
  <2> QED
    BY <1>1, <1>2, <1>4, <2>1
<1> QED
  BY <1>1, <1>2, <1>3, <1>4

\* The first place neither writes nor verifies.
LEMMA WriteBegins ==
  Checked(1) = {} /\ WriteScript[1].kind # "WRITE" /\ WriteScript[1].use # "AFTER"
<1>1. Script["WRITE"] = WriteScript
  BY DEF Script
<1>2. Len(WriteScript) \in Nat /\ Len(WriteScript) > 0
  BY ScriptPieces DEF Piece
<1>3. Checked(1) = {}
  BY <1>2 DEF Checked
<1> QED
  BY <1>1, <1>2, <1>3, Places

\* A write that the chip takes is counted once more.
LEMMA CountedOnce ==
  ASSUME Traffic, op = "WRITE", Takes, before' = before,
         NEW n \in 0..attempt, Counted(n, Current.reg)
  PROVE  /\ chip'.ifcnt \in {before' + (n + 1), before' + (n + 1) - IfcntModulus}
         /\ Current.reg \in Settings => Current.reg \in chip'.set
<1>1. /\ before \in 0..(IfcntModulus - 1) /\ attempt \in 0..(Attempts - 1)
      /\ chip.ifcnt \in 0..(IfcntModulus - 1)
  BY DEF Traffic, TrafficType, ChipState
<1>2. n \in 0..(Attempts - 1) /\ Attempts \in Nat
  BY <1>1, RegisterAssumption
<1> QED
  BY <1>1, <1>2, TakesOK, NextCount DEF Counted

LEMMA WrittenKept ==
  ASSUME Traffic, Next
  PROVE  Written'
<1> SUFFICES ASSUME op' = "WRITE", ~resetSeen'
    PROVE /\ Checked(step') \cap Settings \subseteq chip'.set
          /\ Current'.kind = "WRITE" =>
               \E n \in 0..attempt' : Counted(n, Current.reg)'
          /\ Current'.use = "AFTER" =>
               \E n \in 0..Attempts : Counted(n, WriteScript[step - 1].reg)'
  BY DEF Written, Checked
<1>0. TrafficType /\ Script["WRITE"] = WriteScript /\ Attempts \in Nat
  BY RegisterAssumption DEF Traffic, Script
<1>1. CASE \E o \in {"IDLE", "PROBE", "WRITE", "STATUS"} : Begin(o)
  <2>1. step' = 1 /\ Current' = WriteScript[1]
    BY <1>0, <1>1 DEF Begin, Current
  <2> QED
    BY <2>1, WriteBegins
<1>2. ~ChipResets
  BY DEF ChipResets
<1>3. CASE AttemptFails /\ attempt + 1 < Attempts /\ step' = step /\ op' = op
           /\ attempt' = attempt + 1 /\ before' = before
  <2>1. /\ op = "WRITE" /\ resetSeen' = resetSeen /\ Current' = Current /\ Running
        /\ attempt \in Nat
    BY <1>0, <1>3 DEF AttemptFails, Current, TrafficType
  <2>2. /\ Checked(step) \cap Settings \subseteq chip.set
        /\ Current.kind = "WRITE" =>
             \E n \in 0..attempt : Counted(n, Current.reg)
        /\ Current.use = "AFTER" =>
             \E n \in 0..Attempts : Counted(n, WriteScript[step - 1].reg)
    BY <2>1 DEF Traffic, Written
  <2>3. CASE Unmoved
    <3>1. \A n, r : Counted(n, r) => Counted(n, r)'
      BY <1>3, <2>3 DEF Unmoved, Counted, Holds
    <3> QED
      BY <1>3, <2>1, <2>2, <2>3, <3>1 DEF Unmoved
  <2>4. CASE Takes
    <3>1. Current.kind = "WRITE" /\ Current.use # "AFTER"
      BY <1>0, <2>1, <2>4, PlaceOK, Places DEF Takes, Current
    <3>2. PICK n \in 0..attempt : Counted(n, Current.reg)
      BY <2>2, <3>1
    <3>3. /\ chip'.ifcnt \in {before' + (n + 1), before' + (n + 1) - IfcntModulus}
          /\ Current.reg \in Settings => Current.reg \in chip'.set
      BY <1>3, <2>1, <2>4, <3>2, CountedOnce
    <3>4. Counted(n + 1, Current.reg)'
      BY <2>1, <3>3 DEF Counted, Holds
    <3>5. n + 1 \in 0..attempt'
      BY <1>3, <2>1
    <3>6. Checked(step') \cap Settings \subseteq chip'.set
      BY <1>3, <2>1, <2>2, <2>4, TakesOK
    <3> QED
      BY <2>1, <3>1, <3>4, <3>5, <3>6
  <2> QED
    BY <1>2, <2>3, <2>4, ChipCases
<1>4. CASE Advance /\ Access /\ resetSeen' = resetSeen
  <2>1. /\ op = "WRITE" /\ Running /\ step' = step + 1
        /\ step \in 1..Len(WriteScript) /\ Current = WriteScript[step]
        /\ Current' = WriteScript[step + 1]
        /\ Current'.kind = "WRITE" => Current.use = "BEFORE"
        /\ Current'.use = "AFTER" => Current.kind = "WRITE"
        /\ Current.kind = "WRITE" => Current.use = "VALUE"
        /\ Current.use = "BEFORE" => Current.kind = "READ"
    BY <1>0, <1>4, AccessCases, NextPlace, PlaceOK, Places DEF Current
  <2>2. /\ Checked(step) \cap Settings \subseteq chip.set
        /\ Current.kind = "WRITE" =>
             \E n \in 0..attempt : Counted(n, Current.reg)
        /\ Current.use = "AFTER" =>
             \E n \in 0..Attempts : Counted(n, WriteScript[step - 1].reg)
    BY <1>4, <2>1 DEF Traffic, Written
  <2>3. CASE Current.kind = "WRITE"
    <3>1. /\ WriteSent \/ AttemptFails
          /\ before' = before /\ step + 1 - 1 = step
      BY <1>4, <2>1, <2>3 DEF Access, AttemptFails, WriteSent, ReadBefore, ReadAfter,
         ReadBackCompare, ReadValue, ReadLast, Answered, local
    <3>2. Unmoved \/ Takes
      BY <1>2, ChipCases
    <3>3. chip.set \subseteq chip'.set
      BY <2>1, <3>2, TakesOK DEF Unmoved
    <3>4. Checked(step') \cap Settings \subseteq chip'.set
      BY <2>1, <2>2, <2>3, <3>3, CheckedNext
    <3>5. PICK n \in 0..attempt : Counted(n, Current.reg)
      BY <2>2, <2>3
    <3>6. attempt \in 0..(Attempts - 1)
      BY <1>0 DEF TrafficType
    <3>7. \E m \in 0..Attempts : Counted(m, WriteScript[step - 1].reg)'
      <4>1. CASE Unmoved
        <5>1. Counted(n, WriteScript[step - 1].reg)'
          BY <2>1, <3>1, <3>5, <4>1 DEF Counted, Holds, Unmoved
        <5> QED
          BY <1>0, <3>6, <5>1
      <4>2. CASE Takes
        <5>1. /\ chip'.ifcnt \in {before' + (n + 1), before' + (n + 1) - IfcntModulus}
              /\ Current.reg \in Settings => Current.reg \in chip'.set
          BY <2>1, <3>1, <3>5, <4>2, CountedOnce
        <5>2. Counted(n + 1, WriteScript[step - 1].reg)'
          BY <2>1, <3>1, <5>1 DEF Counted, Holds
        <5> QED
          BY <1>0, <3>6, <5>2
      <4> QED
        BY <3>2, <4>1, <4>2
    <3> QED
      BY <2>1, <2>3, <3>4, <3>7
  <2>4. CASE Current.kind # "WRITE"
    <3>1. chip' = chip
      BY <1>2, <2>4, ChipCases DEF Unmoved, Takes
    <3>2. Checked(step') \cap Settings \subseteq chip'.set
      <4>1. CASE Current.use = "AFTER"
        <5>1. ReadAfter
          BY <1>4, <2>1, <2>4, <4>1 DEF Access, AttemptFails, RetryOrGiveUp,
             SetError, Return, Begin, Advance, WriteSent, ReadBefore,
             ReadBackCompare, ReadValue, ReadLast, Answered
        <5>2. chip.ifcnt = (before + 1) % IfcntModulus
          BY <1>4, <2>1, <5>1 DEF ReadAfter, IfcntAdvanced, SetError, Return,
             Begin, Advance
        <5>3. PICK n \in 0..Attempts : Counted(n, WriteScript[step - 1].reg)
          BY <2>2, <4>1
        <5>4. /\ before \in 0..(IfcntModulus - 1)
              /\ chip.ifcnt \in 0..(IfcntModulus - 1)
          BY <1>0 DEF TrafficType, ChipState
        <5>5. n > 0
          BY <5>2, <5>3, <5>4, AdvancedCount DEF Counted
        <5>6. Holds(WriteScript[step - 1].reg)
          BY <5>3, <5>5 DEF Counted
        <5> QED
          BY <2>1, <2>2, <3>1, <5>6, CheckedNext DEF Holds
      <4>2. CASE Current.use # "AFTER"
        BY <2>1, <2>2, <3>1, <4>2, CheckedNext
      <4> QED
        BY <4>1, <4>2
    <3>3. ASSUME Current'.kind = "WRITE"
          PROVE  \E n \in 0..attempt' : Counted(n, Current.reg)'
      <4>1. Current.use = "BEFORE"
        BY <2>1, <3>3
      <4>2. before' = chip.ifcnt /\ attempt' = 0
        BY <1>4, <2>1, <2>4, <4>1 DEF Access, AttemptFails, RetryOrGiveUp,
           SetError, Return, Begin, Advance, WriteSent, ReadBefore, ReadAfter,
           ReadBackCompare, ReadValue, ReadLast, Answered
      <4>3. chip.ifcnt \in Int
        BY <1>0 DEF TrafficType, ChipState
      <4>4. Counted(0, Current.reg)'
        BY <3>1, <4>2, <4>3 DEF Counted
      <4> QED
        BY <4>2, <4>4
    <3> QED
      BY <2>1, <2>4, <3>2, <3>3
  <2> QED
    BY <2>3, <2>4
<1> QED
  BY <1>1, <1>2, <1>3, <1>4, CallCases

LEMMA TrafficStep ==
  ASSUME CallInv, Traffic, [Next]_vars
  PROVE  Traffic'
<1>1. CASE Next
  BY <1>1, TypeKept, WrittenKept, LatchedKept, ValidKept, RestoresKept,
     ReportedKept DEF Traffic
<1>2. CASE UNCHANGED vars
  <2>1. /\ UNCHANGED <<dev, op, step, attempt, before, saved, gstat>>
        /\ UNCHANGED <<chip, resetSeen, hidden>>
    BY <1>2 DEF vars, call, local
  <2> QED
    BY <2>1 DEF Traffic, TrafficType, Running, Written, Checked, Counted, Holds,
       Current, Latched, ValidHolds, Applied, Restores, Reported
<1> QED
  BY <1>1, <1>2

THEOREM TrafficAlways == Spec => [](CallInv /\ Traffic)
<1>1. Init => CallInv /\ Traffic
  BY Initially, TrafficInit
<1>2. CallInv /\ Traffic /\ [Next]_vars => CallInv' /\ Traffic'
  BY CallStep, TrafficStep
<1> QED
  BY <1>1, <1>2, PTL DEF Spec

(***************************************************************************)
(* A ready driver holds every setting, unless a reset is latched or was    *)
(* hidden by the clearing of GSTAT: lost, repeated and half-done writes of *)
(* tmc2209_configure never count, for any number of attempts and any range *)
(* of IFCNT above it.                                                      *)
(***************************************************************************)
THEOREM ReadyIsWritten == Spec => []ConfiguredMeansWritten
<1>1. Traffic => ConfiguredMeansWritten
  BY DEF Traffic, ValidHolds, ConfiguredMeansWritten, Ready
<1> QED
  BY <1>1, TrafficAlways, PTL

(***************************************************************************)
(* A status read that leaves the driver ready has found every reset that   *)
(* happened before it began (tmc2209_refresh_status).                      *)
(***************************************************************************)
THEOREM ResetsAreFound == Spec => ResetIsFound
<1>1. CallInv /\ Traffic /\ [Next]_vars =>
        [op = "STATUS" /\ op' = "IDLE" /\ Ready(dev')
           => Applied \/ resetSeen \/ hidden]_vars
  <2> SUFFICES ASSUME CallInv, Traffic, Next,
                      op = "STATUS", op' = "IDLE", Ready(dev')
               PROVE  Applied \/ resetSeen \/ hidden
    OBVIOUS
  <2>0. dev \in DriverState /\ gstat \in BOOLEAN
    BY DEF CallInv
  <2>1. ~SetError
    BY <2>0 DEF SetError, Ready, DriverState
  <2>2. ReadLast
    BY <2>1, AccessCases
       DEF Next, Boot, StartRefresh, StartConfigure, Called, ChipResets, call,
           AllWritten
  <2>3. PICK fatal \in BOOLEAN : dev' = Observed(fatal)
    BY <2>2 DEF ReadLast, Begin
  <2>4. dev.valid /\ ~gstat
    BY <2>0, <2>3 DEF Ready, Observed, Observe, DriverState
  <2>5. Running /\ Current.reg = "DRV_STATUS" /\ Script[op] = StatusScript
    BY <2>2, Scripts DEF ReadLast, Script
  <2>6. step > 3
    BY <2>5, PlaceOK, StatusOrder DEF Traffic, Current
  <2> QED
    BY <2>4, <2>6 DEF Traffic, Reported, ValidHolds
<1> QED
  BY <1>1, TrafficAlways, PTL DEF Spec, ResetIsFound

(***************************************************************************)
(* The probe of tmc2209_probe writes NODECONF and GCONF and leaves every   *)
(* setting as it was.                                                      *)
(***************************************************************************)
THEOREM ProbesAreHarmless == Spec => ProbeChangesNothing
<1>1. CallInv /\ Traffic /\ [Next]_vars =>
        [op = "PROBE" /\ ~resetSeen /\ ~resetSeen' => chip'.set = chip.set]_vars
  <2> SUFFICES ASSUME Traffic, Next, op = "PROBE", ~resetSeen, ~resetSeen'
               PROVE  chip'.set = chip.set
    OBVIOUS
  <2>1. CASE Unmoved
    BY <2>1 DEF Unmoved
  <2>2. CASE Takes
    BY <2>2, TakesOK DEF Traffic, Restores
  <2>3. CASE ChipResets
    BY <2>3 DEF ChipResets
  <2> QED
    BY <2>1, <2>2, <2>3, ChipCases
<1> QED
  BY <1>1, TrafficAlways, PTL DEF Spec, ProbeChangesNothing
=============================================================================
