---------------------------- MODULE SerialProofs ----------------------------
(***************************************************************************)
(* The byte stream in and the replies out keep their order for every size  *)
(* of the queues, the packets, the lines and the replies.  BytesInOrder    *)
(* needs the types of the queues; RepliesInOrder also needs that the       *)
(* parser and the host agree on the line being typed (LineAgrees), and     *)
(* that a byte is only consumed with room for the longest reply.           *)
(***************************************************************************)
EXTENDS SerialLink, SequenceTheorems, TLAPS

TxBytes == Verdicts \cup {"MORE"}

QueuesTyped ==
    /\ rx \in Seq(SentBytes) /\ endpoint \in Seq(SentBytes)
    /\ tx \in Seq(TxBytes) /\ inFlight \in Seq(TxBytes)

LineAgrees ==
    /\ line \in LineState /\ typed \in [length : Nat, blank : BOOLEAN]
    /\ line.discarding => typed.length = LineCapacity
    /\ ~line.discarding =>
         /\ typed.length = line.length
         /\ typed.blank = line.blank

LinkInv == QueuesTyped /\ LineAgrees /\ BytesInOrder /\ RepliesInOrder

LEMMA LinkInitially == Init => LinkInv
  BY LineAssumption
     DEF Init, LinkInv, QueuesTyped, LineAgrees, LineState, BytesInOrder,
         RepliesInOrder,         EmptyLine, Nothing

-----------------------------------------------------------------------------
LEMMA PacketIsSeq ==
  ASSUME NEW packet \in Packets
  PROVE  packet \in Seq(SentBytes)
  BY SerialAssumption DEF Packets

LEMMA ReplyIsSeq ==
  ASSUME NEW verdict \in Verdicts, NEW n \in Lengths(verdict)
  PROVE  /\ Reply(verdict, n) \in Seq(TxBytes)
         /\ Len(Reply(verdict, n)) = n /\ n <= MaxResponse
<1>1. n \in Nat /\ n <= MaxResponse
  BY SerialAssumption DEF Lengths
<1> QED
  BY <1>1 DEF Reply, TxBytes

\* tx_kick moves bytes from the queue to the hardware and changes none.
LEMMA KickKeepsBytes ==
  ASSUME NEW up, NEW q \in Seq(TxBytes), NEW flying \in Seq(TxBytes),
         Kick(up, q, flying)
  PROVE  /\ tx' \in Seq(TxBytes) /\ inFlight' \in Seq(TxBytes)
         /\ inFlight' \o tx' = flying \o q
<1> DEFINE n == IF Len(q) > PacketSize THEN PacketSize ELSE Len(q)
<1>0. n \in 0 .. Len(q) /\ Len(q) \in Nat
  BY SerialAssumption, LenProperties
<1>1. CASE up /\ flying = << >>
  <2>1. inFlight' = SubSeq(q, 1, n) /\ tx' = SubSeq(q, n + 1, Len(q))
    BY <1>1 DEF Kick
  <2> HIDE DEF n
  <2>2. inFlight' \o tx' = SubSeq(q, 1, Len(q))
    <3>1. /\ 1 \in 1 .. Len(q) + 1 /\ n \in 1 - 1 .. Len(q)
          /\ Len(q) \in n .. Len(q)
      BY <1>0
    <3> QED
      BY <2>1, <3>1, ConcatAdjacentSubSeq
  <2>3. inFlight' \o tx' = q /\ flying \o q = q
    BY <1>1, <2>2, SubSeqFull, ConcatEmptySeq
  <2>4. inFlight' \in Seq(TxBytes) /\ tx' \in Seq(TxBytes)
    <3>1. \A i \in 1 .. Len(q) : q[i] \in TxBytes
      BY ElementOfSeq
    <3>2. SubSeq(q, 1, n) \in Seq(TxBytes)
      BY <1>0, <3>1, SubSeqProperties
    <3>3. SubSeq(q, n + 1, Len(q)) \in Seq(TxBytes)
      BY <1>0, <3>1, SubSeqProperties
    <3> QED
      BY <2>1, <3>2, <3>3
  <2> QED
    BY <2>3, <2>4
<1>2. CASE ~(up /\ flying = << >>)
  BY <1>2 DEF Kick
<1> QED
  BY <1>1, <1>2

\* The parser and the host agree on the verdict of a finished line.
LEMMA VerdictIsDue ==
  ASSUME LineAgrees
  PROVE  Verdict(line) = DueVerdict /\ DueVerdict \in Verdicts
  BY LineAssumption DEF LineAgrees, LineState, Verdict, DueVerdict, Verdicts

-----------------------------------------------------------------------------
\* One lemma per action.
LEMMA HostSendsOK == ASSUME LinkInv, HostSends PROVE LinkInv'
<1>1. PICK packet \in Packets : endpoint' = packet /\ owedRx' = owedRx \o packet
  BY DEF HostSends
<1>2. endpoint = << >> /\ UNCHANGED <<rx, tx, inFlight, owedTx, line, typed>>
  BY DEF HostSends
<1>3. owedRx = rx
  BY <1>2, ConcatEmptySeq DEF LinkInv, QueuesTyped, BytesInOrder
<1> QED
  BY <1>1, <1>2, <1>3, PacketIsSeq
     DEF LinkInv, QueuesTyped, LineAgrees, BytesInOrder, RepliesInOrder

LEMMA HostReadsOK == ASSUME LinkInv, HostReads PROVE LinkInv'
<1>0. /\ tx \in Seq(TxBytes) /\ inFlight \in Seq(TxBytes)
      /\ owedTx = inFlight \o tx
  BY DEF LinkInv, QueuesTyped, RepliesInOrder
<1>1. /\ inFlight' = << >> /\ tx' = tx
      /\ owedTx' = SubSeq(owedTx, Len(inFlight) + 1, Len(owedTx))
      /\ UNCHANGED <<rx, endpoint, owedRx, line, typed>>
  BY DEF HostReads, port
<1>2. Len(owedTx) = Len(inFlight) + Len(tx) /\ Len(tx) \in Nat /\ Len(inFlight) \in Nat
  BY <1>0, ConcatProperties, LenProperties
<1>3. owedTx' = tx
  <2>1. CASE tx = << >>
    BY <1>1, <1>2, <2>1, SubSeqEmpty
  <2>2. CASE tx # << >>
    <3>1. Len(tx) > 0
      BY <1>0, <1>2, <2>2, EmptySeq
    <3>2. owedTx' = SubSeq(tx, 1, Len(tx))
      BY <1>0, <1>1, <1>2, <3>1, SubSeqOfConcat2
    <3> QED
      BY <1>0, <3>2, SubSeqFull
  <2> QED
    BY <2>1, <2>2
<1>4. RepliesInOrder'
  BY <1>0, <1>1, <1>3, ConcatEmptySeq DEF RepliesInOrder
<1> QED
  BY <1>1, <1>4 DEF LinkInv, QueuesTyped, LineAgrees, BytesInOrder

LEMMA DataRxCallbackOK == ASSUME LinkInv, DataRxCallback PROVE LinkInv'
<1>0. /\ rx \in Seq(SentBytes) /\ endpoint \in Seq(SentBytes)
      /\ owedRx = rx \o endpoint
      /\ UNCHANGED <<tx, inFlight, owedTx, line, typed>>
  BY DEF LinkInv, QueuesTyped, BytesInOrder, DataRxCallback
<1>1. CASE ReadPacket
  <2>1. rx' = owedRx /\ rx' \in Seq(SentBytes)
    BY <1>0, <1>1, ConcatProperties DEF ReadPacket
  <2>2. CASE endpoint' = << >> /\ owedRx' = owedRx
    BY <1>0, <2>1, <2>2, ConcatEmptySeq
       DEF LinkInv, QueuesTyped, LineAgrees, BytesInOrder, RepliesInOrder
  <2>3. CASE \E packet \in Packets :
               endpoint' = packet /\ owedRx' = owedRx \o packet
    BY <1>0, <2>1, <2>3, PacketIsSeq
       DEF LinkInv, QueuesTyped, LineAgrees, BytesInOrder, RepliesInOrder
  <2> QED
    BY <1>1, <2>2, <2>3 DEF ReadPacket
<1>2. CASE RefusePacket
  BY <1>0, <1>2 DEF RefusePacket, LinkInv, QueuesTyped, LineAgrees,
                    BytesInOrder, RepliesInOrder
<1> QED
  BY <1>1, <1>2 DEF DataRxCallback

LEMMA SetConfigurationOK == ASSUME LinkInv, SetConfiguration PROVE LinkInv'
<1>0. /\ rx \in Seq(SentBytes) /\ tx \in Seq(TxBytes) /\ LineAgrees
      /\ endpoint' = << >> /\ owedRx' = rx /\ rx' = rx /\ owedTx' = tx
      /\ Kick(TRUE, tx, << >>) /\ line' = line /\ typed' = typed
  BY DEF LinkInv, QueuesTyped, SetConfiguration
<1>1. /\ tx' \in Seq(TxBytes) /\ inFlight' \in Seq(TxBytes)
      /\ inFlight' \o tx' = << >> \o tx
  BY <1>0, KickKeepsBytes, EmptySeq
<1>2. BytesInOrder' /\ RepliesInOrder'
  BY <1>0, <1>1, ConcatEmptySeq DEF BytesInOrder, RepliesInOrder
<1> QED
  BY <1>0, <1>1, <1>2 DEF LinkInv, QueuesTyped, LineAgrees

LEMMA PollTailOK == ASSUME LinkInv, PollTail PROVE LinkInv'
<1>0. /\ tx \in Seq(TxBytes) /\ inFlight \in Seq(TxBytes)
      /\ Kick(configured, tx, inFlight)
      /\ UNCHANGED <<rx, endpoint, line, owedRx, owedTx, typed>>
  BY DEF LinkInv, QueuesTyped, PollTail
<1>1. /\ tx' \in Seq(TxBytes) /\ inFlight' \in Seq(TxBytes)
      /\ inFlight' \o tx' = inFlight \o tx
  BY <1>0, KickKeepsBytes
<1> QED
  BY <1>0, <1>1
     DEF LinkInv, QueuesTyped, LineAgrees, BytesInOrder, RepliesInOrder

LEMMA ConsumesByteOK ==
  ASSUME LinkInv, ConsumesByte
  PROVE  /\ BytesInOrder' /\ Head(rx) \in Bytes
         /\ rx' \in Seq(SentBytes) /\ endpoint' = endpoint
<1>0. /\ rx \in Seq(SentBytes) /\ rx # << >> /\ endpoint \in Seq(SentBytes)
      /\ owedRx = rx \o endpoint /\ endpoint' = endpoint
      /\ rx' = Tail(rx) /\ owedRx' = Tail(owedRx)
  BY DEF LinkInv, QueuesTyped, BytesInOrder, ConsumesByte
<1>1. /\ Head(rx) \in SentBytes /\ Tail(rx) \in Seq(SentBytes)
  BY <1>0, HeadTailProperties
<1>2. Tail(rx \o endpoint) = Tail(rx) \o endpoint
  BY <1>0
<1> QED
  BY <1>0, <1>1, <1>2, SerialAssumption DEF BytesInOrder

\* previous_was_carriage_return says nothing of the line itself.
LEMMA OnlyCr ==
  ASSUME NEW p \in LineState, NEW cr \in BOOLEAN
  PROVE  LET r == [p EXCEPT !.previousCr = cr]
         IN  /\ r \in LineState /\ r.length = p.length
             /\ r.discarding = p.discarding /\ r.blank = p.blank
  BY DEF LineState

LEMMA TypingAgrees ==
  ASSUME LineAgrees, NEW byte
  PROVE  LET kept == Append1(line, byte)
             now == Typing(byte)
         IN  /\ kept \in LineState /\ now \in [length : Nat, blank : BOOLEAN]
             /\ kept.discarding => now.length = LineCapacity
             /\ ~kept.discarding => /\ now.length = kept.length
                                    /\ now.blank = kept.blank
<1> DEFINE kept == Append1(line, byte)
           now == Typing(byte)
<1>0. /\ line \in LineState /\ typed \in [length : Nat, blank : BOOLEAN]
      /\ line.length \in 0 .. (LineCapacity - 1) /\ LineCapacity \in Nat \ {0}
  BY LineAssumption DEF LineAgrees, LineState
<1>1. /\ now \in [length : Nat, blank : BOOLEAN]
      /\ now.length = (IF typed.length < LineCapacity THEN typed.length + 1
                       ELSE LineCapacity)
      /\ now.blank = (typed.blank /\ byte = "BLANK")
  BY <1>0 DEF Typing
<1>2. CASE line.discarding
  BY <1>0, <1>1, <1>2 DEF LineAgrees, Append1
<1>3. CASE ~line.discarding /\ line.length >= LineCapacity - 1
  <2>1. kept = [line EXCEPT !.discarding = TRUE]
    BY <1>3 DEF Append1
  <2>2. kept \in LineState /\ kept.discarding = TRUE
    BY <1>0, <2>1 DEF LineState
  <2>3. now.length = LineCapacity
    BY <1>0, <1>1, <1>3 DEF LineAgrees
  <2> QED
    BY <1>1, <2>2, <2>3
<1>4. CASE ~line.discarding /\ line.length < LineCapacity - 1
  <2> DEFINE blank == line.blank /\ byte = "BLANK"
  <2>1. kept = [line EXCEPT !.length = line.length + 1, !.blank = blank]
    BY <1>0, <1>4 DEF Append1
  <2>2. blank \in BOOLEAN
    OBVIOUS
  <2>3. now.blank = blank /\ now.length = line.length + 1
    BY <1>0, <1>1, <1>4 DEF LineAgrees
  <2> HIDE DEF blank
  <2> HIDE DEF kept, now
  <2>4. line.length + 1 \in 0 .. (LineCapacity - 1)
    BY <1>0, <1>4
  <2>5. kept \in LineState
    BY <1>0, <2>1, <2>2, <2>4 DEF LineState
  <2>6. kept.length = line.length + 1 /\ kept.blank = blank
    BY <1>0, <2>1 DEF LineState
  <2>7. ~kept.discarding
    BY <1>0, <1>4, <2>1 DEF LineState
  <2> QED
    BY <1>1, <2>3, <2>5, <2>6, <2>7 DEF kept, now
<1> QED
  BY <1>0, <1>2, <1>3, <1>4

LEMMA ExtendsLineOK == ASSUME LinkInv, ExtendsLine PROVE LinkInv'
<1>0. /\ LineAgrees /\ ~Terminates(line, Head(rx))
      /\ line' = Receive(line, Head(rx))
      /\ typed' = IF Head(rx) = "LF" THEN typed ELSE Typing(Head(rx))
      /\ UNCHANGED <<tx, inFlight, owedTx>>
  BY DEF LinkInv, ExtendsLine, ConsumesByte
<1>1. /\ BytesInOrder' /\ Head(rx) \in Bytes
      /\ rx' \in Seq(SentBytes) /\ endpoint' = endpoint
  BY ConsumesByteOK DEF ExtendsLine
<1>2. LineAgrees'
  <2> DEFINE cr == Head(rx) = "CR"
  <2>0. /\ line \in LineState /\ typed \in [length : Nat, blank : BOOLEAN]
        /\ cr \in BOOLEAN
    BY <1>0 DEF LineAgrees
  <2>1. CASE Head(rx) = "LF"
    <3>1. line' = [line EXCEPT !.previousCr = cr] /\ typed' = typed
      BY <1>0, <2>1 DEF Receive
    <3> QED
      BY <1>0, <2>0, <3>1, OnlyCr DEF LineAgrees
  <2>2. CASE Head(rx) # "LF"
    <3> DEFINE kept == Append1(line, Head(rx))
    <3>1. line' = [kept EXCEPT !.previousCr = cr] /\ typed' = Typing(Head(rx))
      BY <1>0, <2>2 DEF Receive
    <3>2. /\ kept \in LineState
          /\ typed' \in [length : Nat, blank : BOOLEAN]
          /\ kept.discarding => typed'.length = LineCapacity
          /\ ~kept.discarding => /\ typed'.length = kept.length
                                 /\ typed'.blank = kept.blank
      BY <1>0, <3>1, TypingAgrees
    <3> HIDE DEF kept, cr
    <3> QED
      BY <2>0, <3>1, <3>2, OnlyCr DEF LineAgrees
  <2> QED
    BY <2>1, <2>2
<1> QED
  BY <1>0, <1>1, <1>2 DEF LinkInv, QueuesTyped, RepliesInOrder

LEMMA FinishesLineOK == ASSUME LinkInv, FinishesLine PROVE LinkInv'
<1>0. /\ LineAgrees /\ Terminates(line, Head(rx))
      /\ line' = Receive(line, Head(rx)) /\ typed' = Nothing
      /\ tx \in Seq(TxBytes) /\ inFlight \in Seq(TxBytes)
      /\ owedTx = inFlight \o tx /\ MayConsume
  BY DEF LinkInv, QueuesTyped, RepliesInOrder, FinishesLine, ConsumesByte
<1>1. /\ BytesInOrder'
      /\ rx' \in Seq(SentBytes) /\ endpoint' = endpoint
  BY ConsumesByteOK DEF FinishesLine
<1>2. LineAgrees'
  <2> DEFINE cr == Head(rx) = "CR"
             done == FinishLine(line)
  <2>0. line \in LineState /\ cr \in BOOLEAN /\ 0 \in 0 .. (LineCapacity - 1)
    BY <1>0, LineAssumption DEF LineAgrees
  <2>1. line' = [done EXCEPT !.previousCr = cr]
    BY <1>0 DEF Receive
  <2>2. /\ done \in LineState /\ done.length = 0
        /\ done.blank = TRUE /\ done.discarding = FALSE
    BY <2>0 DEF FinishLine, LineState
  <2>3. /\ typed' \in [length : Nat, blank : BOOLEAN]
        /\ typed'.length = 0 /\ typed'.blank = TRUE
    BY <1>0 DEF Nothing
  <2> HIDE DEF cr, done
  <2> QED
    BY <2>0, <2>1, <2>2, <2>3, OnlyCr DEF LineAgrees
<1>3. PICK length \in Lengths(DueVerdict) :
         /\ Write(Reply(DueVerdict, length))
         /\ owedTx' = owedTx \o Reply(DueVerdict, length)
  BY <1>0, VerdictIsDue DEF FinishesLine
<1> DEFINE reply == Reply(DueVerdict, length)
<1>4. reply \in Seq(TxBytes) /\ Len(reply) <= MaxResponse
  BY <1>0, <1>3, VerdictIsDue, ReplyIsSeq
<1>5. Kick(configured, tx \o reply, inFlight)
  <2>1. Len(reply) \in Nat /\ Len(tx) \in Nat
    BY <1>0, <1>4, LenProperties
  <2>2. ~(Len(reply) > TxFree)
    BY <1>0, <1>4, <2>1, SerialAssumption DEF MayConsume, TxFree
  <2> QED
    BY <1>3, <2>2 DEF Write
<1> HIDE DEF reply
<1>6. /\ tx' \in Seq(TxBytes) /\ inFlight' \in Seq(TxBytes)
      /\ inFlight' \o tx' = inFlight \o (tx \o reply)
  BY <1>0, <1>4, <1>5, ConcatProperties, KickKeepsBytes
<1>7. owedTx' = (inFlight \o tx) \o reply
  BY <1>0, <1>3 DEF reply
<1>8. RepliesInOrder'
  <2>1. (inFlight \o tx) \o reply = inFlight \o (tx \o reply)
    BY <1>0, <1>4, ConcatAssociative
  <2> QED
    BY <1>6, <1>7, <2>1 DEF RepliesInOrder
<1> QED
  BY <1>0, <1>1, <1>2, <1>6, <1>8 DEF LinkInv, QueuesTyped, LinkInv

LEMMA LinkStep == LinkInv /\ [Next]_vars => LinkInv'
<1> SUFFICES ASSUME LinkInv, [Next]_vars PROVE LinkInv'
  OBVIOUS
<1>1. CASE UNCHANGED <<rx, tx, endpoint, inFlight, line, owedRx, owedTx, typed>>
  BY <1>1 DEF LinkInv, QueuesTyped, LineAgrees, BytesInOrder, RepliesInOrder
<1>2. CASE NoEvent \/ Drained \/ UNCHANGED vars
  BY <1>1, <1>2 DEF NoEvent, Drained, vars, port
<1>3. CASE HostSends \/ HostReads \/ SetConfiguration
  BY <1>3, HostSendsOK, HostReadsOK, SetConfigurationOK
<1>4. CASE DataRxCallback \/ PollTail \/ FinishesLine \/ ExtendsLine
  BY <1>4, DataRxCallbackOK, PollTailOK, FinishesLineOK, ExtendsLineOK
<1> QED
  BY <1>2, <1>3, <1>4 DEF Next, MainLoop

LEMMA LinkAlways == Spec => []LinkInv
  BY LinkInitially, LinkStep, PTL DEF Spec

(***************************************************************************)
(* No byte the host sent is lost, repeated or reordered on its way to the  *)
(* parser.                                                                 *)
(***************************************************************************)
THEOREM BytesArriveInOrder == Spec => []BytesInOrder
<1>1. LinkInv => BytesInOrder
  BY DEF LinkInv
<1> QED
  BY <1>1, LinkAlways, PTL

(***************************************************************************)
(* Every line gets exactly one reply with the right verdict, whole and in  *)
(* order: a byte is only consumed with room for the longest reply, so      *)
(* usb_serial_write never refuses one.                                     *)
(***************************************************************************)
THEOREM RepliesArriveInOrder == Spec => []RepliesInOrder
<1>1. LinkInv => RepliesInOrder
  BY DEF LinkInv
<1> QED
  BY <1>1, LinkAlways, PTL

(***************************************************************************)
(* The link neither loses, repeats nor reorders anything in either         *)
(* direction.                                                              *)
(***************************************************************************)
THEOREM LinkIsInOrder == Spec => []InOrder
<1>1. LinkInv => InOrder
  BY DEF LinkInv, InOrder
<1> QED
  BY <1>1, LinkAlways, PTL
=============================================================================
