----------------------------- MODULE SerialLink -----------------------------
(***************************************************************************)
(* The USB serial port of the firmware and the main loop that serves it    *)
(* (src/usb_serial.c, src/main.c, protocol_receive of src/protocol.c).     *)
(* Everything runs polled in the main loop; the host and the USB hardware  *)
(* move packets at any time.                                               *)
(*   The two ring buffers are queues; a command is known by the length of  *)
(* its reply.  endpoint and inFlight are the one-packet buffers of the USB *)
(* hardware (libopencm3, external): a packet stays in endpoint until it is *)
(* read, and a write while inFlight holds a packet writes nothing.         *)
(***************************************************************************)
EXTENDS LineProtocol, Sequences

CONSTANTS
    RxCapacity, TxCapacity,     \* USB_RX_QUEUE_CAPACITY 256, USB_TX_... 512
    PacketSize,                 \* USB_BULK_PACKET_SIZE, 64
    MaxResponse,                \* PROTOCOL_MAX_RESPONSE_SIZE, 400
    ReplyLengths,               \* the lengths a command's reply may have
    SentBytes                   \* the bytes the host sends

ASSUME SerialAssumption ==
    /\ PacketSize \in Nat \ {0} /\ RxCapacity \in Nat /\ TxCapacity \in Nat
    /\ PacketSize <= RxCapacity /\ MaxResponse <= TxCapacity
    /\ MaxResponse \in Nat \ {0} /\ ReplyLengths \subseteq 1 .. MaxResponse
    /\ SentBytes \subseteq Bytes

VARIABLES
    rx, tx,             \* rx_queue and tx_queue
    naked,              \* rx_endpoint_naked
    configured,         \* usb_configured
    line,               \* protocol_t
    pc,                 \* the main loop: in usb_serial_poll or draining rx
    armed,              \* hardware: the OUT endpoint accepts a packet
    endpoint,           \* hardware: the OUT packet that waits to be read
    inFlight,           \* hardware: the IN packet that waits for the host
    owedRx,             \* history: bytes sent and not yet consumed
    owedTx,             \* history: reply bytes due and not yet received
    typed               \* history: the line the host is typing, capped

port == <<rx, naked, configured, armed, endpoint>>
vars == <<rx, tx, naked, configured, line, pc, armed, endpoint, inFlight,
          owedRx, owedTx, typed>>

Packets == UNION {[1 .. n -> SentBytes] : n \in 1 .. PacketSize}
Nothing == [length |-> 0, blank |-> TRUE]

Init ==
    /\ rx = << >> /\ tx = << >>
    /\ naked = FALSE /\ configured = FALSE
    /\ line = EmptyLine
    /\ pc = "POLL"
    /\ armed = FALSE /\ endpoint = << >> /\ inFlight = << >>
    /\ owedRx = << >> /\ owedTx = << >> /\ typed = Nothing

-----------------------------------------------------------------------------
\* The host.
HostSends ==
    /\ armed /\ endpoint = << >>
    /\ \E packet \in Packets :
         endpoint' = packet /\ owedRx' = owedRx \o packet
    /\ UNCHANGED <<rx, tx, naked, configured, line, pc, armed, inFlight,
                   owedTx, typed>>

HostReads ==
    /\ inFlight # << >>
    /\ inFlight' = << >>
    /\ owedTx' = SubSeq(owedTx, Len(inFlight) + 1, Len(owedTx))
    /\ UNCHANGED <<port, tx, line, pc, owedRx, typed>>

-----------------------------------------------------------------------------
\* usb_serial_poll, first usbd_poll: at most one event is served.
NoEvent == pc = "POLL" /\ endpoint = << >> /\ pc' = "KICK"
             /\ UNCHANGED <<port, tx, line, inFlight, owedRx, owedTx, typed>>

Room(q) == RxCapacity - Len(q) >= PacketSize
PacketFits == Room(rx)

\* Reading arms the endpoint again: without room for another packet it is
\* NAKed, but one may have come before.
ReadPacket ==
    LET filled == rx \o endpoint
    IN  /\ PacketFits
        /\ rx' = filled
        /\ \/ Room(filled) /\ endpoint' = << >> /\ UNCHANGED <<armed, naked, owedRx>>
           \/ /\ ~Room(filled) /\ naked' = TRUE /\ armed' = FALSE
              /\ \/ endpoint' = << >> /\ owedRx' = owedRx
                 \/ /\ armed
                    /\ \E packet \in Packets :
                         endpoint' = packet /\ owedRx' = owedRx \o packet

RefusePacket ==
    /\ ~PacketFits
    /\ naked' = TRUE /\ armed' = FALSE
    /\ UNCHANGED <<rx, endpoint, owedRx>>

DataRxCallback ==
    /\ pc = "POLL" /\ endpoint # << >> /\ pc' = "KICK"
    /\ ReadPacket \/ RefusePacket
    /\ UNCHANGED <<configured, tx, line, inFlight, owedTx, typed>>

\* tx_kick: up to one packet of q goes out if the hardware takes it.
Kick(up, q, flying) ==
    LET n == IF Len(q) > PacketSize THEN PacketSize ELSE Len(q)
    IN  IF up /\ flying = << >>
        THEN inFlight' = SubSeq(q, 1, n) /\ tx' = SubSeq(q, n + 1, Len(q))
        ELSE inFlight' = flying /\ tx' = q

\* The host enumerates the device, again after the cable was pulled: what the
\* hardware held is gone, the queues are kept.
SetConfiguration ==
    /\ pc = "POLL" /\ pc' = "KICK"
    /\ configured' = TRUE /\ armed' = TRUE
    /\ endpoint' = << >> /\ owedRx' = rx
    /\ Kick(TRUE, tx, << >>) /\ owedTx' = tx
    /\ UNCHANGED <<rx, naked, line, typed>>

StaysNaked == UNCHANGED <<naked, armed>>    \* mutant: never armed again
Unnak ==
    IF naked /\ Room(rx) THEN naked' = FALSE /\ armed' = TRUE
    ELSE UNCHANGED <<naked, armed>>

PollTail ==
    /\ pc = "KICK" /\ pc' = "DRAIN"
    /\ Kick(configured, tx, inFlight)
    /\ Unnak
    /\ UNCHANGED <<rx, configured, endpoint, line, owedRx, owedTx, typed>>

-----------------------------------------------------------------------------
\* A reply: its last byte tells the verdict.
Reply(verdict, length) ==
    [i \in 1 .. length |-> IF i = length THEN verdict ELSE "MORE"]
Lengths(verdict) == IF verdict = "COMMAND" THEN ReplyLengths ELSE {1}

\* usb_serial_write: the whole reply or nothing; the caller ignores which.
TxFree == TxCapacity - Len(tx)
Write(reply) ==
    IF Len(reply) > TxFree THEN UNCHANGED <<tx, inFlight>>
    ELSE Kick(configured, tx \o reply, inFlight)

AnyRoom == TxFree > 0               \* mutant: no reserve for a long reply
MayConsume == TxFree >= MaxResponse

\* The verdict the host may expect of the line it has typed.
DueVerdict ==
    IF typed.length >= LineCapacity THEN "TOO_LONG"
    ELSE IF typed.blank THEN "EMPTY" ELSE "COMMAND"
Typing(byte) ==
    [length |-> IF typed.length < LineCapacity THEN typed.length + 1
                ELSE LineCapacity,
     blank |-> typed.blank /\ byte = "BLANK"]

\* The main loop: one byte that ends a line, one that does not, and leaving
\* the loop for want of bytes or of room for a reply.
ConsumesByte ==
    /\ pc = "DRAIN" /\ MayConsume /\ rx # << >>
    /\ rx' = Tail(rx) /\ owedRx' = Tail(owedRx)
    /\ line' = Receive(line, Head(rx))
    /\ UNCHANGED <<pc, naked, configured, armed, endpoint>>

FinishesLine ==
    /\ ConsumesByte
    /\ Terminates(line, Head(rx))
    /\ \E length \in Lengths(Verdict(line)) :
         /\ Write(Reply(Verdict(line), length))
         /\ owedTx' = owedTx \o Reply(DueVerdict, length)
    /\ typed' = Nothing

ExtendsLine ==
    /\ ConsumesByte
    /\ ~Terminates(line, Head(rx))
    /\ typed' = IF Head(rx) = "LF" THEN typed ELSE Typing(Head(rx))
    /\ UNCHANGED <<tx, inFlight, owedTx>>

Drained ==
    /\ pc = "DRAIN" /\ ~(MayConsume /\ rx # << >>)
    /\ pc' = "POLL"
    /\ UNCHANGED <<port, tx, line, inFlight, owedRx, owedTx, typed>>

MainLoop == NoEvent \/ DataRxCallback \/ PollTail \/ FinishesLine \/ ExtendsLine
              \/ Drained

Next == HostSends \/ HostReads \/ SetConfiguration \/ MainLoop

\* The main loop runs for ever, and the host keeps reading.
Spec == Init /\ [][Next]_vars /\ WF_vars(MainLoop) /\ WF_vars(HostReads)

-----------------------------------------------------------------------------
(***************************************************************************)
(* No byte the host sent is lost, repeated or overtaken on its way to the  *)
(* parser, also when packets race the NAK (data_rx_callback).              *)
(***************************************************************************)
BytesInOrder == owedRx = rx \o endpoint

(***************************************************************************)
(* Every line the host ends gets exactly one reply, with the verdict       *)
(* README.md promises for its length and content, whole and in order: no   *)
(* reply is cut short or dropped for want of room (main, usb_serial_write).*)
(***************************************************************************)
RepliesInOrder == owedTx = inFlight \o tx

\* The link is a pair of queues: what goes in comes out, once and in order.
InOrder == BytesInOrder /\ RepliesInOrder

(***************************************************************************)
(* The endpoint is armed again and again, whatever the host sends, as long *)
(* as it reads its replies (usb_serial_poll, main).                        *)
(***************************************************************************)
HostIsHeard == configured ~> (armed /\ endpoint = << >>)
=============================================================================
