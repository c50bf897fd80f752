----------------------------- MODULE HostClient -----------------------------
(***************************************************************************)
(* The host utility on the Raspberry Pi talking to the board               *)
(* (host/sentry_mcu.py): it runs a script in a session, one request at a   *)
(* time, with a write and a read that give up after a while and a flush    *)
(* between them that does not.  A reply that comes late stays in the       *)
(* stream and answers the next request.                                    *)
(***************************************************************************)
EXTENDS MotorBoard

CONSTANTS
    Scripts,            \* the actions a session may run, <<name, axis>>
    MaxSessions,        \* bound: how often the utility is started
    MaxPolls,           \* bound: polls until a deadline, refreshes of a segment
    MaxInterrupts,      \* bound: Ctrl-C keys of a session
    LinkMayFail         \* whether the cable may come loose

ASSUME HostAssumption ==
    /\ Scripts \subseteq Names \X Axes
    /\ MaxSessions \in Nat \ {0} /\ MaxPolls \in Nat \ {0}
    /\ MaxInterrupts \in Nat /\ LinkMayFail \in BOOLEAN

VARIABLES
    script,     \* what this session runs
    at,         \* the step it is at; 0 when no session is open
    reading,    \* whether it has written the request: it flushes, then waits
                \* for the line
    polls,      \* how often it has polled or refreshed at this step
    sessions,   \* how often the utility was started
    interrupts, \* how many Ctrl-C came in this session
    link,       \* whether the cable is in
    sent,       \* requests the board has not served
    untaken,    \* how many of the last ones the port still holds
    inbox,      \* lines the host has not read
    board,      \* the board
    tested,     \* history: the axes a motor test has taken charge of
    abandoned,  \* history: the axes whose cleanup a Ctrl-C hit, or whose
                \* DISABLE the port did not get out
    late        \* history: the replies that were still due at the start

session == <<script, sessions, late>>
wire == <<link, sent, untaken, inbox>>
vars == <<script, at, reading, polls, sessions, interrupts, link, sent, untaken,
          inbox, board, tested, abandoned, late>>

Programs == [s \in Scripts |-> Script(s[1], s[2])]
Program == Programs[script]
Current == Program[at]
Open == at # 0
Cleanup == 2

Init ==
    /\ script \in Scripts /\ at = 0 /\ reading = FALSE /\ polls = 0
    /\ sessions = 0 /\ interrupts = 0
    /\ link = TRUE /\ sent = << >> /\ untaken = 0 /\ inbox = << >>
    /\ board \in [mode : [Axes -> {"OFF"}], driver : [Axes -> Drivers],
                  homed : {FALSE}, calibrated : BOOLEAN]
    /\ tested = {} /\ abandoned = {} /\ late = 0

\* SentryMcu.__init__: what has arrived by now is thrown away.  The close of
\* the last session has waited until the port was empty.
Start ==
    /\ ~Open /\ sessions < MaxSessions /\ link /\ untaken = 0
    /\ sessions' = sessions + 1
    /\ script' \in Scripts
    /\ at' = 1 /\ reading' = FALSE /\ polls' = 0 /\ interrupts' = 0
    /\ inbox' = << >>
    /\ tested' = {} /\ abandoned' = {} /\ late' = Len(sent)
    /\ UNCHANGED <<link, sent, untaken, board>>

-----------------------------------------------------------------------------
\* Where the script goes.
First(S) == CHOOSE i \in S : \A j \in S : i <= j
NextZones == {i \in DOMAIN Program : Program[i].zone > Current.zone}
InDualCleanup == script[1] = "dual-motor-test" /\ Current.zone \in 2 .. 4

Goto(i) ==
    /\ at' = IF i \in DOMAIN Program THEN i ELSE 0
    /\ reading' = FALSE /\ polls' = 0
    /\ tested' = IF at' # 0 /\ Program[at].zone = 0 /\ Program[i].zone > 0
                 THEN Named(IF script[1] = "dual-motor-test" THEN "BOTH"
                            ELSE script[2])
                 ELSE tested

NextStep == Goto(at + 1)
SkipsConfigure == Goto(at + 3)
\* An exception: the finally blocks run, then the session ends.
Raise == IF Current.zone = 0 THEN Goto(0)
         ELSE Goto(IF NextZones = {} THEN 0 ELSE First(NextZones))
Again == /\ polls < MaxPolls
         /\ polls' = polls + 1 /\ reading' = FALSE /\ UNCHANGED <<at, tested>>

\* command(): the line goes into the port.
Request(s) == [do |-> s.do, axis |-> s.axis]
Flushed == reading /\ untaken = 0
\* The axis whose DISABLE is lost when this step fails.
Undone == IF Current.do = "DISABLE" /\ ~Flushed THEN {Current.axis} ELSE {}

Write ==
    /\ Open /\ ~reading /\ link
    /\ sent' = Append(sent, Request(Current))
    /\ untaken' = untaken + 1
    /\ reading' = TRUE
    /\ UNCHANGED <<session, at, polls, interrupts, link, inbox, board, tested,
                   abandoned>>

\* write_timeout: the request is shorter than a buffer of the port, so that
\* all of it has gone into the port, or nothing.
WriteTimesOut ==
    /\ Open /\ ~reading /\ link
    /\ \/ UNCHANGED <<sent, untaken>>
       \/ sent' = Append(sent, Request(Current)) /\ untaken' = untaken + 1
    /\ Raise
    /\ abandoned' = abandoned \cup Undone
    /\ UNCHANGED <<session, interrupts, link, inbox, board>>

PortFails ==
    /\ Open /\ ~link
    /\ Raise
    /\ UNCHANGED <<session, interrupts, wire, board, abandoned>>

-----------------------------------------------------------------------------
\* What a step makes of the line it reads.
StartsWithOk(r) == r.kind \notin {"ERR", "JUNK"}
\* driver() does not compare the axis of the answer with the one it asked for.
AnyOkParses(s, r) == StartsWithOk(r)    \* mutant: no pattern is matched
Parses(s, r) ==
    CASE s.do = "STATE?" -> r.kind = "STATE" /\ r.axis = s.axis
      [] s.do = "DRIVER?" -> r.kind = "DRIVER"
      [] s.do = "ENDSTOP?" -> r.kind = "ENDSTOP"
      [] s.do = "DRIVER-DIAG?" -> r.kind = "DIAG"
      [] OTHER -> StartsWithOk(r)

Satisfies(s, r) ==
    \/ s.expect = "ANY"
    \/ /\ Parses(s, r)
       /\ CASE s.expect = "READY" -> r.says = "READY"
            [] s.expect = "CALIBRATED" -> board.calibrated
            [] s.expect = "RELEASED" -> r.says = "RELEASED"
            [] s.expect = "REST" -> r.says \in {"REST", "HOMED"}
            [] s.expect = "HOMED" -> r.says = "HOMED"
            [] s.expect = "READY_OR_CONFIGURE" -> r.says = "READY"
            [] OTHER -> TRUE

\* A line that is not the end of the step: poll, or send the refresh, again.
Pending(s, r) ==
    /\ Parses(s, r)
    /\ \/ s.expect = "REST" /\ r.says \in {"BUSY", "HOMING"}
       \/ s.expect = "HOMED" /\ r.says = "HOMING"
       \/ s.expect = "REFRESH"

Takes(r) ==
    LET s == Current
    IN  \/ /\ Satisfies(s, r)
           /\ IF s.expect = "READY_OR_CONFIGURE" THEN SkipsConfigure ELSE NextStep
        \/ /\ s.expect = "READY_OR_CONFIGURE" /\ Parses(s, r) /\ ~Satisfies(s, r)
           /\ NextStep
        \/ Pending(s, r) /\ Again
        \/ /\ ~Satisfies(s, r)
           /\ s.expect = "READY_OR_CONFIGURE" => ~Parses(s, r)
           /\ Raise

ReadLine ==
    /\ Open /\ Flushed /\ link /\ inbox # << >>
    /\ Takes(Head(inbox))
    /\ inbox' = Tail(inbox)
    /\ UNCHANGED <<session, interrupts, link, sent, untaken, board, abandoned>>

\* The read gives up in the middle of a line: the rest is the next line.
ReadCut ==
    /\ Open /\ Flushed /\ link /\ inbox # << >> /\ Head(inbox) # Junk
    /\ \E r \in {Head(inbox), IF StartsWithOk(Head(inbox)) THEN Cut ELSE Err} :
         Takes(r)
    /\ inbox' = <<Junk>> \o Tail(inbox)
    /\ UNCHANGED <<session, interrupts, link, sent, untaken, board, abandoned>>

ReadBlocks == FALSE                 \* mutant: the port is opened without timeout
GoesOnUnanswered ==                 \* mutant: to wait for an OK is not to need it
    /\ Open /\ Flushed /\ link /\ inbox = << >>
    /\ IF Current.expect \in {"OK", "CALIBRATED"} THEN NextStep ELSE Raise
    /\ UNCHANGED <<session, interrupts, wire, board, abandoned>>

\* The read gives up with nothing read.
ReadTimesOut ==
    /\ Open /\ Flushed /\ link /\ inbox = << >>
    /\ Raise
    /\ UNCHANGED <<session, interrupts, wire, board, abandoned>>

\* KeyboardInterrupt is no Exception: the loop over the three cleanup commands
\* of the dual test does not catch it.
Interrupt ==
    /\ Open /\ interrupts < MaxInterrupts
    /\ interrupts' = interrupts + 1
    /\ IF InDualCleanup THEN Goto(0) ELSE Raise
    /\ abandoned' = abandoned \cup (IF InDualCleanup THEN Axes ELSE Undone)
    /\ UNCHANGED <<session, wire, board>>

-----------------------------------------------------------------------------
\* The port, the board and the cable.  flush() returns when untaken is 0.
BoardTakes ==
    /\ link /\ untaken > 0
    /\ untaken' = untaken - 1
    /\ UNCHANGED <<session, at, reading, polls, interrupts, link, sent, inbox,
                   board, tested, abandoned>>

\* The close waits for the board to take the rest, but not for good.
PortDropsRest ==
    /\ ~Open /\ untaken > 0
    /\ sent' = SubSeq(sent, 1, Len(sent) - untaken) /\ untaken' = 0
    /\ UNCHANGED <<session, at, reading, polls, interrupts, link, inbox, board,
                   tested, abandoned>>

BoardServes ==
    /\ link /\ Len(sent) > untaken
    /\ \E e \in Effects(board, Head(sent)) :
         board' = e.board /\ inbox' = Append(inbox, e.reply)
    /\ sent' = Tail(sent)
    /\ UNCHANGED <<session, at, reading, polls, interrupts, link, untaken,
                   tested, abandoned>>

MotionEnds ==
    /\ \E a \in Axes : board' \in Ended(board, a)
    /\ UNCHANGED <<session, at, reading, polls, interrupts, wire, tested,
                   abandoned>>

CableComesLoose ==
    /\ LinkMayFail /\ link
    /\ link' = FALSE /\ sent' = << >> /\ untaken' = 0 /\ inbox' = << >>
    /\ UNCHANGED <<session, at, reading, polls, interrupts, board, tested,
                   abandoned>>

Client ==
    Start \/ Write \/ WriteTimesOut \/ PortFails \/ ReadLine \/ ReadCut
      \/ ReadTimesOut

Next ==
    Client \/ Interrupt \/ BoardTakes \/ PortDropsRest \/ BoardServes
      \/ MotionEnds \/ CableComesLoose

\* The utility is scheduled; the board may stay silent for good, and take no
\* more requests.
Spec == Init /\ [][Next]_vars /\ WF_vars(Client)

-----------------------------------------------------------------------------
IsMotorTest == script[1] \in {"motor-test", "dual-motor-test"}

(***************************************************************************)
(* A motor test asks for the enable only once it is in step with the       *)
(* board: every earlier request is served and its line read, also if three *)
(* replies of earlier sessions were still to come (prepare_axis_motor_     *)
(* test, run_motor_test).                                                  *)
(***************************************************************************)
EnableInSync ==
    [][IsMotorTest /\ late <= 3 /\ Open /\ Current.do = "ENABLE"
         /\ Len(sent') > Len(sent)
       => sent = << >> /\ \A i \in DOMAIN inbox : inbox[i] = Junk]_vars

(***************************************************************************)
(* When wait_for_stop is about to believe that an axis stands, it stands:  *)
(* the line is no old one that came late (wait_for_stop, state).           *)
(***************************************************************************)
RestIsReal ==
    /\ Open /\ reading /\ inbox # << >>
    /\ late = 0 \/ (IsMotorTest /\ late <= 3)
    /\ Current.expect = "REST" /\ Satisfies(Current, Head(inbox))
    => Standing(board, Current.axis)

(***************************************************************************)
(* A motor test that has come to its try block leaves no axis under power, *)
(* whatever fails in it and however late the replies are: the axis is off, *)
(* ramping down to off, or the request to disable it is on its way and     *)
(* nothing after it enables the axis again.  Beyond it are only a lost     *)
(* cable, a DISABLE that the board did not take in time, and a Ctrl-C that *)
(* hits the DISABLE before it is out or the cleanup of the dual test (the  *)
(* finally blocks of run_motor_test and run_dual_motor_test).              *)
(***************************************************************************)
Enables(q, a) == q.do \in {"ENABLE", "HOME", "DIR-CHECK"} /\ q.axis = a
LeftToRelease(a) ==
    \/ /\ board.mode[a] \in {"OFF", "RELEASING"}
       /\ \A i \in DOMAIN sent : ~Enables(sent[i], a)
    \/ \E i \in DOMAIN sent :
         /\ sent[i] = [do |-> "DISABLE", axis |-> a]
         /\ \A j \in DOMAIN sent : j > i => ~Enables(sent[j], a)
ReleasedAtExit ==
    ~Open /\ link => \A a \in tested \ abandoned : LeftToRelease(a)

(***************************************************************************)
(* Every session ends: time and again none is open, whatever the board     *)
(* answers, the cable and the keyboard do, if only the board goes on       *)
(* taking what it is sent; flush() is the one call without a limit         *)
(* (command, wait_for_stop, wait_for_home, run_segment).                   *)
(***************************************************************************)
SessionEnds == []<>(untaken = 0) => []<>~Open
=============================================================================
