--------------------------- MODULE RdmaTransport ---------------------------
(***************************************************************************)
(* The transport of one queue pair: RdmaHw with RdmaQueuePair at the       *)
(* sender and RdmaRxQueuePair at the receiver.  Messages are cut into      *)
(* packets; the receiver takes them in order only, acknowledges what it    *)
(* took and answers a gap with a NACK, on which the sender goes back.  The *)
(* sender works on one message at a time: the next one starts when the     *)
(* last byte of the one before is acknowledged.                            *)
(*                                                                         *)
(* The receiver learns the size of a message from a header field of its    *)
(* first packet and counts the bytes down; at zero it announces the        *)
(* message.  There is no retransmission timer.                             *)
(*                                                                         *)
(* All packets of a queue pair take one path (routes are chosen by a hash  *)
(* of addresses and ports) and every queue on it is first-in first-out, so *)
(* the network is two FIFO channels.  A packet is lost when a switch       *)
(* refuses it (SwitchNode::SendToDev) or the receive error model of a      *)
(* device corrupts it (QbbNetDevice::Receive).                             *)
(*                                                                         *)
(* Rates, ECN marks and CNPs are left out: they delay packets, which a     *)
(* step may here do anyway.                                                *)
(***************************************************************************)
EXTENDS Integers, Sequences

CONSTANTS
    Program,        \* sizes of the messages the application pushes, in order
    Mtu,            \* m_mtu
    AckInterval,    \* m_ack_interval
    Chunk,          \* m_chunk
    BackTo0,        \* m_backto0
    NackTimer,      \* m_nack_interval is not zero
    Win,            \* GetWin(), 0 for no window
    NoSize,         \* UINT64_MAX as a message size
    MaxLoss         \* bound: packets and acknowledgements the network loses

ASSUME TransportAssumption ==
    /\ Program \in Seq(Nat \ {0})       \* DoSend asserts size > 0
    /\ Mtu \in Nat \ {0}
    /\ AckInterval \in Nat \ {0}        \* 0 disables acknowledgements
    /\ Chunk \in Nat \ {0}
    /\ BackTo0 \in BOOLEAN
    /\ NackTimer \in BOOLEAN
    /\ Win \in Nat
    /\ NoSize \in Nat
    /\ \A i \in DOMAIN Program : Program[i] < NoSize
    /\ MaxLoss \in Nat

VARIABLES
    messages,       \* sender: m_messages, sizes
    startSeq,       \* sender: m_startSeq of the first message
    sndNxt,         \* sender: snd_nxt
    sndUna,         \* sender: snd_una
    expected,       \* receiver: ReceiverNextExpectedSeq
    curSize,        \* receiver: m_curMessageSize, bytes left of the message
    lastNack,       \* receiver: m_lastNACK, or NoNack before the first NACK
    data,           \* packets on their way: SimpleSeqTsHeader and payload size
    acks,           \* ACKs and NACKs on their way
    losses,         \* packets and acknowledgements lost so far
    halted,         \* which check stopped the program, if any
    pushed,         \* messages pushed by the application
    received,       \* messages announced at the receiver
    acked           \* messages announced at the sender

sndVars  == <<messages, startSeq, sndNxt, sndUna>>
rcvVars  == <<expected, curSize, lastNack>>
chanVars == <<pushed, received, acked>>
vars == <<sndVars, rcvVars, data, acks, losses, halted, chanVars>>

\* This queue pair as a connection of the collective layer
Channel == INSTANCE MessageChannel
    WITH Conn <- {1}, pushed <- <<pushed>>, received <- <<received>>, acked <- <<acked>>

NoNack == -1
Packet == [seq : Nat, size : Nat, msg : Nat]
Ack    == [nack : BOOLEAN, seq : Nat]

Init ==
    /\ messages = <<>>
    /\ startSeq = 0 /\ sndNxt = 0 /\ sndUna = 0
    /\ expected = 0 /\ curSize = NoSize /\ lastNack = NoNack
    /\ data = <<>> /\ acks = <<>>
    /\ losses = 0
    /\ halted = "no"
    /\ pushed = 0 /\ received = 0 /\ acked = 0

Running == halted = "no"

----------------------------------------------------------------------------
\* The sender

\* RdmaClient::DoSend -> RdmaQueuePair::PushMessage.  A message pushed behind
\* others gets its start when its turn comes.
PushMessage ==
    /\ Running
    /\ pushed < Len(Program)
    /\ messages' = Append(messages, Program[pushed + 1])
    /\ startSeq' = IF messages = <<>> THEN sndNxt ELSE startSeq
    /\ pushed' = pushed + 1
    /\ UNCHANGED <<sndNxt, sndUna, rcvVars, data, acks, losses, halted, received, acked>>

EndSeq == startSeq + Head(messages)
GetBytesLeft ==
    IF messages # <<>> /\ EndSeq >= sndNxt THEN EndSeq - sndNxt ELSE 0
\* snd_nxt - snd_una is unsigned: below zero it is huge.
IsWinBound == Win # 0 /\ (sndNxt - sndUna >= Win \/ sndNxt < sndUna)
Least(a, b) == IF a <= b THEN a ELSE b

\* RdmaEgressQueue::DoRoundRobin chooses this queue pair
GetNxtPacket ==
    /\ Running
    /\ GetBytesLeft > 0 /\ ~IsWinBound
    /\ LET size == Least(Mtu, GetBytesLeft)
       IN /\ data' = Append(data,
                 [seq |-> sndNxt, size |-> size,
                  msg |-> IF sndNxt = startSeq THEN Head(messages) ELSE NoSize])
          /\ sndNxt' = sndNxt + size
    /\ UNCHANGED <<messages, startSeq, sndUna, rcvVars, acks, losses, halted, chanVars>>

GoBack(seq) == IF BackTo0 THEN (seq \div Chunk) * Chunk ELSE seq

\* Names ending in Plain, Sent, Kept, Early and Answered are wrong variants for the
\* mutants of the project; the specification does not use them.

AcknowledgePlain(seq) == IF seq > sndUna THEN seq ELSE sndUna
Acknowledge(seq) == IF GoBack(seq) > sndUna THEN GoBack(seq) ELSE sndUna

IsCurMessageFinishedSent(una) == messages = <<>> \/ sndNxt >= EndSeq
IsCurMessageFinished(una) == messages = <<>> \/ una >= EndSeq

QpCompleteMessageKept ==
    /\ halted' = IF messages = <<>> THEN "empty" ELSE halted
    /\ messages' = SubSeq(messages, 2, Len(messages))
    /\ acked' = IF messages = <<>> THEN acked ELSE acked + 1
    /\ UNCHANGED startSeq

\* QpCompleteMessage with FinishMessage and the callbacks to the sending client;
\* without a message it aborts.
QpCompleteMessage ==
    /\ halted' = IF messages = <<>> THEN "empty" ELSE halted
    /\ messages' = SubSeq(messages, 2, Len(messages))
    /\ startSeq' = IF Len(messages) > 1 THEN sndNxt ELSE startSeq
    /\ acked' = IF messages = <<>> THEN acked ELSE acked + 1

RecoverQueue(una) == sndNxt' = una

ReceiveAck ==
    /\ Running
    /\ acks # <<>>
    /\ acks' = Tail(acks)
    /\ LET una == Acknowledge(Head(acks).seq)
       IN /\ sndUna' = una
          /\ \/ /\ IsCurMessageFinished(una)
                /\ QpCompleteMessage
                /\ UNCHANGED sndNxt
             \/ /\ ~IsCurMessageFinished(una)
                /\ Head(acks).nack
                /\ RecoverQueue(una)
                /\ UNCHANGED <<messages, startSeq, halted, acked>>
             \/ /\ ~IsCurMessageFinished(una)
                /\ ~Head(acks).nack
                /\ UNCHANGED <<messages, startSeq, sndNxt, halted, acked>>
    /\ UNCHANGED <<rcvVars, data, losses, pushed, received>>

----------------------------------------------------------------------------
\* The receiver: ReceiveUdp of the first packet in the channel

pkt == Head(data)

\* A size in the header is taken when the receiver has none.
SizeOnArrival ==
    IF pkt.msg # NoSize /\ curSize = NoSize THEN pkt.msg ELSE curSize

\* ReceiverCheckSeq: the milestone is reset to m_ack_interval by every packet, so
\* only the first bytes of a queue pair are acknowledged less often.
Acknowledges(next) == next >= AckInterval \/ next % Chunk = 0

Answer(nack, seq) == acks' = Append(acks, [nack |-> nack, seq |-> seq])

\* ReceiverCheckSeq = 1, and the message goes on
TakePacket ==
    /\ pkt.seq = expected
    /\ Acknowledges(expected + pkt.size)
    /\ SizeOnArrival > pkt.size
    /\ expected' = expected + pkt.size
    /\ curSize' = SizeOnArrival - pkt.size
    /\ Answer(FALSE, expected + pkt.size)
    /\ UNCHANGED <<lastNack, halted, received>>

\* ReceiverCheckSeq = 1, and the message is complete: m_messageRxCompleteCallback
TakeLastPacket ==
    /\ pkt.seq = expected
    /\ Acknowledges(expected + pkt.size)
    /\ SizeOnArrival = pkt.size
    /\ expected' = expected + pkt.size
    /\ curSize' = NoSize
    /\ received' = received + 1
    /\ Answer(FALSE, expected + pkt.size)
    /\ UNCHANGED <<lastNack, halted>>

\* ReceiverCheckSeq = 1, and the assertion on m_curMessageSize fails
AssertSize ==
    /\ pkt.seq = expected
    /\ Acknowledges(expected + pkt.size)
    /\ SizeOnArrival < pkt.size
    /\ halted' = "size"
    /\ UNCHANGED <<rcvVars, acks, received>>

\* ReceiverCheckSeq = 5
TakeQuietly ==
    /\ pkt.seq = expected
    /\ ~Acknowledges(expected + pkt.size)
    /\ expected' = expected + pkt.size
    /\ curSize' = SizeOnArrival
    /\ UNCHANGED <<lastNack, acks, halted, received>>

NackGapPlain ==
    /\ pkt.seq > expected
    /\ lastNack' = expected
    /\ expected' = GoBack(expected)
    /\ curSize' = SizeOnArrival
    /\ Answer(TRUE, pkt.seq)
    /\ UNCHANGED <<halted, received>>

\* ReceiverCheckSeq = 2
NackGap ==
    /\ pkt.seq > expected
    /\ lastNack' = expected
    /\ expected' = GoBack(expected)
    /\ curSize' = SizeOnArrival
    /\ Answer(TRUE, GoBack(expected))
    /\ UNCHANGED <<halted, received>>

\* ReceiverCheckSeq = 4: this gap has its NACK and the timer runs
HoldNack ==
    /\ pkt.seq > expected
    /\ NackTimer /\ lastNack = expected
    /\ curSize' = SizeOnArrival
    /\ UNCHANGED <<expected, lastNack, acks, halted, received>>

IgnoreDuplicateAnswered ==
    /\ pkt.seq < expected
    /\ curSize' = SizeOnArrival
    /\ Answer(FALSE, expected)
    /\ UNCHANGED <<expected, lastNack, halted, received>>

\* ReceiverCheckSeq = 3
IgnoreDuplicate ==
    /\ pkt.seq < expected
    /\ curSize' = SizeOnArrival
    /\ UNCHANGED <<expected, lastNack, acks, halted, received>>

ReceiveUdp ==
    /\ Running
    /\ data # <<>>
    /\ data' = Tail(data)
    /\ \/ TakePacket \/ TakeLastPacket \/ AssertSize \/ TakeQuietly
       \/ NackGap \/ HoldNack \/ IgnoreDuplicate
    /\ UNCHANGED <<sndVars, losses, pushed, acked>>

----------------------------------------------------------------------------
\* The network

LosePacket ==
    /\ Running
    /\ data # <<>> /\ losses < MaxLoss
    /\ data' = Tail(data)
    /\ losses' = losses + 1
    /\ UNCHANGED <<sndVars, rcvVars, acks, halted, chanVars>>

LoseAck ==
    /\ Running
    /\ acks # <<>> /\ losses < MaxLoss
    /\ acks' = Tail(acks)
    /\ losses' = losses + 1
    /\ UNCHANGED <<sndVars, rcvVars, data, halted, chanVars>>

Next == PushMessage \/ GetNxtPacket \/ ReceiveAck \/ ReceiveUdp \/ LosePacket \/ LoseAck

\* The application goes on, the transmitter serves every queue pair in turn, and
\* packets not lost arrive.
Fairness ==
    /\ WF_vars(PushMessage)
    /\ WF_vars(GetNxtPacket)
    /\ WF_vars(ReceiveAck)
    /\ WF_vars(ReceiveUdp)

Spec     == Init /\ [][Next]_vars
FairSpec == Spec /\ Fairness

----------------------------------------------------------------------------
TypeOK ==
    /\ messages \in Seq(Nat)
    /\ startSeq \in Nat /\ sndNxt \in Nat /\ sndUna \in Nat
    /\ expected \in Nat /\ curSize \in Nat
    /\ lastNack \in Nat \cup {NoNack}
    /\ data \in Seq(Packet)
    /\ acks \in Seq(Ack)
    /\ losses \in 0 .. MaxLoss
    /\ halted \in {"no", "empty", "size"}
    /\ pushed \in 0 .. Len(Program) /\ received \in Nat /\ acked \in Nat

\* What the sender believes acknowledged, the receiver has, whatever is lost and
\* however often the sender goes back (Acknowledge, ReceiverCheckSeq).
AckedWasTaken == sndUna <= GoBack(expected)

\* An acknowledgement always finds the message it is about still in the queue, so
\* QpCompleteMessage never aborts on an empty one.
NoEmptyCompletion == halted # "empty"

\* m_curMessageSize covers every packet that is taken (the assertion in ReceiveUdp).
SizeCoversPacket == halted # "size"

\* The sender is told of a message's completion only after the receiver.
TxAfterRx == acked <= received

\* Without loss the receiver (ReceiveUdp) counts the message in progress down exactly:
\* between two messages it has no size, within one what is left of it.
CountsDown ==
    curSize = IF messages # <<>> /\ startSeq < expected /\ expected < EndSeq
              THEN EndSeq - expected ELSE NoSize

\* Without loss this queue pair keeps the promise of MessageChannel.
ChannelSpec == Channel!ChanSpec

\* Every message is announced at both ends.
AllDelivered == <>[](received = Len(Program) /\ acked = Len(Program))
=============================================================================
