---------------------------- MODULE LineProtocol ----------------------------
(***************************************************************************)
(* How the firmware cuts the byte stream into command lines                *)
(* (protocol_receive and protocol_finish_line of src/protocol.c).  A line  *)
(* is known by its length and by whether it holds anything but blanks.     *)
(***************************************************************************)
EXTENDS Naturals

CONSTANT LineCapacity       \* PROTOCOL_LINE_CAPACITY, 64

ASSUME LineAssumption == LineCapacity \in Nat \ {0}

Bytes == {"CHAR", "BLANK", "CR", "LF"}
Verdicts == {"COMMAND", "EMPTY", "TOO_LONG"}

LineState == [length : 0 .. (LineCapacity - 1), blank : BOOLEAN,
              discarding : BOOLEAN, previousCr : BOOLEAN]

EmptyLine == [length |-> 0, blank |-> TRUE, discarding |-> FALSE,
              previousCr |-> FALSE]

\* CR, LF and CR LF each end one line.
Terminates(p, byte) == byte = "CR" \/ (byte = "LF" /\ ~p.previousCr)

\* What the reply to a finished line is about.
Verdict(p) == IF p.discarding THEN "TOO_LONG"
              ELSE IF p.blank THEN "EMPTY" ELSE "COMMAND"

FinishLine(p) == [p EXCEPT !.length = 0, !.blank = TRUE, !.discarding = FALSE]

Append1(p, byte) ==
    IF p.discarding THEN p
    ELSE IF p.length >= LineCapacity - 1 THEN [p EXCEPT !.discarding = TRUE]
    ELSE [p EXCEPT !.length = @ + 1, !.blank = @ /\ byte = "BLANK"]

Receive(p, byte) ==
    LET kept == IF Terminates(p, byte) THEN FinishLine(p)
                ELSE IF byte = "LF" THEN p
                ELSE Append1(p, byte)
    IN  [kept EXCEPT !.previousCr = byte = "CR"]
=============================================================================
