------------------------ MODULE RdmaTransportProofs ------------------------
(***************************************************************************)
(* What holds of one queue pair for every program, MTU, window and chunk.  *)
(* The first parts are about a network that loses what it likes (what is   *)
(* acknowledged was taken, an acknowledgement finds its message), the last *)
(* about one that loses nothing.                                           *)
(***************************************************************************)
EXTENDS RdmaTransport, SequenceTheorems, TLAPS

----------------------------------------------------------------------------
\* Going back to a chunk boundary

\* Rounding down to a multiple of n is monotone, stays below and is idempotent.
LEMMA RoundDown ==
    ASSUME NEW n \in Nat, n > 0, NEW a \in Nat, NEW b \in Nat, a <= b
    PROVE  /\ (a \div n) * n \in Nat
           /\ (a \div n) * n <= a
           /\ (a \div n) * n <= (b \div n) * n
           /\ (((a \div n) * n) \div n) * n = (a \div n) * n
<1> DEFINE p == a \div n
           q == b \div n
<1>1. p \in Nat /\ q \in Nat
  BY SMT
<1>2. n * p <= a /\ a < n * p + n
  BY SMT
<1>3. n * q <= b /\ b < n * q + n
  BY SMT
<1>4. n * p <= n * q
  BY <1>1, <1>2, <1>3, SMT
<1>5. ((p * n) \div n) = p
  BY <1>1, SMT
<1> QED
  BY <1>1, <1>2, <1>4, <1>5, SMT

\* What GoBack returns, with m_backto0 or without
LEMMA GoBackFacts ==
    ASSUME NEW a \in Nat, NEW b \in Nat, a <= b
    PROVE  /\ GoBack(a) \in Nat
           /\ GoBack(a) <= a
           /\ GoBack(a) <= GoBack(b)
           /\ GoBack(GoBack(a)) = GoBack(a)
<1>1. CASE BackTo0
  BY <1>1, RoundDown, TransportAssumption DEF GoBack
<1>2. CASE ~BackTo0
  BY <1>2 DEF GoBack
<1> QED
  BY <1>1, <1>2

----------------------------------------------------------------------------
\* Types

\* The packet a sender makes, and where it leaves snd_nxt
LEMMA NextPacket ==
    ASSUME TypeOK, GetBytesLeft > 0
    PROVE  /\ messages # <<>>
           /\ Head(messages) \in Nat
           /\ EndSeq \in Nat
           /\ GetBytesLeft = EndSeq - sndNxt
           /\ Least(Mtu, GetBytesLeft) \in Nat
           /\ Least(Mtu, GetBytesLeft) > 0
           /\ Least(Mtu, GetBytesLeft) <= EndSeq - sndNxt
<1>1. messages # <<>> /\ EndSeq >= sndNxt
  BY DEF GetBytesLeft
<1>2. Head(messages) \in Nat
  BY <1>1 DEF TypeOK
<1>3. EndSeq \in Nat
  BY <1>2 DEF EndSeq, TypeOK
<1>4. GetBytesLeft = EndSeq - sndNxt
  BY <1>1 DEF GetBytesLeft
<1> QED
  BY <1>1, <1>2, <1>3, <1>4, TransportAssumption DEF TypeOK, Least

\* The packet a receiver takes from the channel
LEMMA FirstPacket ==
    ASSUME TypeOK, data # <<>>
    PROVE  /\ pkt \in Packet
           /\ SizeOnArrival \in Nat
           /\ Tail(data) \in Seq(Packet)
<1>1. pkt \in Packet /\ Tail(data) \in Seq(Packet)
  BY DEF TypeOK, pkt
<1> QED
  BY <1>1 DEF TypeOK, SizeOnArrival, Packet

\* A receiver that answers sends a well-formed acknowledgement.
LEMMA AnswerType ==
    ASSUME TypeOK, NEW nack \in BOOLEAN, NEW seq \in Nat, Answer(nack, seq)
    PROVE  acks' \in Seq(Ack)
<1>1. [nack |-> nack, seq |-> seq] \in Ack
  BY DEF Ack
<1> QED
  BY <1>1 DEF TypeOK, Answer

\* The program of the application has natural sizes.
LEMMA ProgramSize ==
    ASSUME NEW i \in 1 .. Len(Program)
    PROVE  Program[i] \in Nat /\ Program[i] > 0 /\ Program[i] < NoSize
  BY TransportAssumption

LEMMA InitType == Init => TypeOK
  BY TransportAssumption DEF Init, TypeOK

LEMMA PushMessageType ==
    ASSUME TypeOK, PushMessage
    PROVE  TypeOK'
<1>1. Program[pushed + 1] \in Nat
  BY ProgramSize, TransportAssumption DEF TypeOK, PushMessage
<1>2. messages' \in Seq(Nat)
  BY <1>1 DEF TypeOK, PushMessage
<1>3. startSeq' \in Nat /\ pushed' \in 0 .. Len(Program)
  BY TransportAssumption DEF TypeOK, PushMessage
<1> QED
  BY <1>2, <1>3 DEF TypeOK, PushMessage, rcvVars

LEMMA GetNxtPacketType ==
    ASSUME TypeOK, GetNxtPacket
    PROVE  TypeOK'
<1> DEFINE size == Least(Mtu, GetBytesLeft)
           new == [seq |-> sndNxt, size |-> size,
                   msg |-> IF sndNxt = startSeq THEN Head(messages) ELSE NoSize]
<1>1. size \in Nat /\ Head(messages) \in Nat
  BY NextPacket DEF GetNxtPacket
<1>2. data' = Append(data, new) /\ sndNxt' = sndNxt + size
  BY DEF GetNxtPacket
<1> HIDE DEF size
<1>3. new \in Packet
  BY <1>1, TransportAssumption DEF TypeOK, Packet
<1> HIDE DEF new
<1>4. data' \in Seq(Packet) /\ sndNxt' \in Nat
  BY <1>1, <1>2, <1>3 DEF TypeOK
<1> QED
  BY <1>4 DEF TypeOK, GetNxtPacket, rcvVars, chanVars

\* What an acknowledgement does to snd_una
LEMMA AcknowledgeType ==
    ASSUME TypeOK, acks # <<>>
    PROVE  /\ Head(acks) \in Ack
           /\ Acknowledge(Head(acks).seq) \in Nat
           /\ Tail(acks) \in Seq(Ack)
<1>1. Head(acks) \in Ack /\ Tail(acks) \in Seq(Ack)
  BY DEF TypeOK
<1>2. GoBack(Head(acks).seq) \in Nat
  BY <1>1, GoBackFacts DEF Ack
<1> QED
  BY <1>1, <1>2 DEF TypeOK, Acknowledge

LEMMA ReceiveAckType ==
    ASSUME TypeOK, ReceiveAck
    PROVE  TypeOK'
<1> DEFINE una == Acknowledge(Head(acks).seq)
<1>1. una \in Nat /\ Tail(acks) \in Seq(Ack)
  BY AcknowledgeType DEF ReceiveAck
<1>2. /\ acks' = Tail(acks) /\ sndUna' = una
      /\ UNCHANGED <<rcvVars, data, losses, pushed, received>>
  BY DEF ReceiveAck
<1>3. \/ QpCompleteMessage /\ UNCHANGED sndNxt
      \/ RecoverQueue(una) /\ UNCHANGED <<messages, startSeq, halted, acked>>
      \/ UNCHANGED <<messages, startSeq, sndNxt, halted, acked>>
  BY DEF ReceiveAck
<1> HIDE DEF una
<1>4. CASE QpCompleteMessage /\ UNCHANGED sndNxt
  <2>1. messages' \in Seq(Nat)
    BY <1>4 DEF TypeOK, QpCompleteMessage
  <2> QED
    BY <1>1, <1>2, <1>4, <2>1 DEF TypeOK, QpCompleteMessage, rcvVars
<1>5. CASE RecoverQueue(una) /\ UNCHANGED <<messages, startSeq, halted, acked>>
  BY <1>1, <1>2, <1>5 DEF TypeOK, RecoverQueue, rcvVars
<1>6. CASE UNCHANGED <<messages, startSeq, sndNxt, halted, acked>>
  BY <1>1, <1>2, <1>6 DEF TypeOK, rcvVars
<1> QED
  BY <1>3, <1>4, <1>5, <1>6

LEMMA ReceiveUdpType ==
    ASSUME TypeOK, ReceiveUdp
    PROVE  TypeOK'
<1>1. pkt \in Packet /\ SizeOnArrival \in Nat /\ Tail(data) \in Seq(Packet)
  BY FirstPacket DEF ReceiveUdp
<1>2. /\ data' = Tail(data)
      /\ UNCHANGED <<sndVars, losses, pushed, acked>>
  BY DEF ReceiveUdp
<1>3. pkt.seq \in Nat /\ pkt.size \in Nat
  BY <1>1 DEF Packet
<1>4. expected + pkt.size \in Nat
  BY <1>3 DEF TypeOK
<1>5. GoBack(expected) \in Nat
  BY GoBackFacts DEF TypeOK
<1>6. CASE TakePacket
  <2>1. acks' \in Seq(Ack)
    BY <1>4, <1>6, AnswerType DEF TakePacket
  <2>2. expected' \in Nat /\ curSize' \in Nat
    BY <1>1, <1>3, <1>4, <1>6 DEF TakePacket
  <2> QED
    BY <1>1, <1>2, <1>6, <2>1, <2>2 DEF TypeOK, TakePacket, sndVars
<1>7. CASE TakeLastPacket
  <2>1. acks' \in Seq(Ack)
    BY <1>4, <1>7, AnswerType DEF TakeLastPacket
  <2> QED
    BY <1>1, <1>2, <1>4, <1>7, <2>1, TransportAssumption DEF TypeOK, TakeLastPacket, sndVars
<1>8. CASE AssertSize
  BY <1>1, <1>2, <1>8 DEF TypeOK, AssertSize, sndVars, rcvVars
<1>9. CASE TakeQuietly
  BY <1>1, <1>2, <1>4, <1>9 DEF TypeOK, TakeQuietly, sndVars
<1>10. CASE NackGap
  <2>1. acks' \in Seq(Ack)
    BY <1>5, <1>10, AnswerType DEF NackGap
  <2> QED
    BY <1>1, <1>2, <1>5, <1>10, <2>1 DEF TypeOK, NackGap, sndVars
<1>11. CASE HoldNack \/ IgnoreDuplicate
  BY <1>1, <1>2, <1>11 DEF TypeOK, HoldNack, IgnoreDuplicate, sndVars
<1> QED
  BY <1>6, <1>7, <1>8, <1>9, <1>10, <1>11 DEF ReceiveUdp

LEMMA LossType ==
    ASSUME TypeOK, LosePacket \/ LoseAck
    PROVE  TypeOK'
<1>1. CASE LosePacket
  BY <1>1, TransportAssumption DEF TypeOK, LosePacket, sndVars, rcvVars, chanVars
<1>2. CASE LoseAck
  BY <1>2, TransportAssumption DEF TypeOK, LoseAck, sndVars, rcvVars, chanVars
<1> QED
  BY <1>1, <1>2

LEMMA StepType ==
    ASSUME TypeOK, [Next]_vars
    PROVE  TypeOK'
<1>1. CASE Next
  BY <1>1, PushMessageType, GetNxtPacketType, ReceiveAckType, ReceiveUdpType, LossType
     DEF Next
<1>2. CASE UNCHANGED vars
  BY <1>2 DEF TypeOK, vars, sndVars, rcvVars, chanVars
<1> QED
  BY <1>1, <1>2

\* Every sequence number, size and counter stays a natural number: of the
\* subtractions of the transport only GetOnTheFly can wrap (see IsWinBound).
THEOREM TypeCorrect == Spec => []TypeOK
<1>1. TypeOK /\ [Next]_vars => TypeOK'
  BY StepType
<1> QED
  BY InitType, <1>1, PTL DEF Spec

----------------------------------------------------------------------------
\* With loss: the sender never believes more than the receiver has

\* Neither snd_una nor any acknowledgement on its way is ahead of the receiver.
AckInv ==
    /\ TypeOK
    /\ AckedWasTaken
    /\ \A i \in 1 .. Len(acks) : GoBack(acks[i].seq) <= GoBack(expected)

\* An acknowledgement that was not ahead of the receiver is not ahead later.
LEMMA StillBehind ==
    ASSUME NEW a \in Nat, NEW e \in Nat, NEW f \in Nat,
           GoBack(a) <= GoBack(e), GoBack(e) <= GoBack(f)
    PROVE  GoBack(a) <= GoBack(f)
<1>1. GoBack(a) \in Nat /\ GoBack(e) \in Nat /\ GoBack(f) \in Nat
  BY GoBackFacts
<1> QED
  BY <1>1

\* A receiver that answers with a number it has reached keeps the invariant.
LEMMA AnswerKeeps ==
    ASSUME AckInv, TypeOK',
           NEW nack \in BOOLEAN, NEW seq \in Nat, Answer(nack, seq),
           GoBack(expected) <= GoBack(expected'),
           GoBack(seq) <= GoBack(expected'),
           UNCHANGED sndUna
    PROVE  AckInv'
<1>0. expected \in Nat /\ expected' \in Nat /\ sndUna \in Nat
  BY DEF AckInv, TypeOK
<1>1. sndUna <= GoBack(expected')
  <2>1. GoBack(expected) \in Nat /\ GoBack(expected') \in Nat
    BY <1>0, GoBackFacts
  <2>2. sndUna <= GoBack(expected)
    BY DEF AckInv, AckedWasTaken
  <2> QED
    BY <1>0, <2>1, <2>2
<1>2. ASSUME NEW i \in 1 .. Len(acks')
      PROVE  GoBack(acks'[i].seq) <= GoBack(expected')
  <2>1. acks \in Seq(Ack) /\ acks' = Append(acks, [nack |-> nack, seq |-> seq])
    BY DEF AckInv, TypeOK, Answer
  <2>2. CASE i = Len(acks) + 1
    <3>1. acks'[i].seq = seq
      BY <2>1, <2>2
    <3> QED
      BY <3>1
  <2>3. CASE i # Len(acks) + 1
    <3>1. i \in 1 .. Len(acks) /\ acks'[i] = acks[i]
      BY <2>1, <2>3
    <3>2. acks[i].seq \in Nat
      <4>1. acks[i] \in Ack
        BY <2>1, <3>1
      <4> QED
        BY <4>1 DEF Ack
    <3>3. GoBack(acks[i].seq) <= GoBack(expected)
      BY <3>1 DEF AckInv
    <3>4. GoBack(acks[i].seq) <= GoBack(expected')
      BY <1>0, <3>2, <3>3, StillBehind
    <3> QED
      BY <3>1, <3>4
  <2> QED
    BY <2>2, <2>3
<1> QED
  BY <1>1, <1>2 DEF AckInv, AckedWasTaken, GoBack

\* So does a step that sends no acknowledgement.
LEMMA SilenceKeeps ==
    ASSUME AckInv, TypeOK', UNCHANGED <<acks, sndUna>>, expected <= expected'
    PROVE  AckInv'
<1>0. expected \in Nat /\ expected' \in Nat /\ sndUna \in Nat /\ acks \in Seq(Ack)
  BY DEF AckInv, TypeOK
<1>1. GoBack(expected) <= GoBack(expected') /\ GoBack(expected) \in Nat /\ GoBack(expected') \in Nat
  BY <1>0, GoBackFacts
<1>2. \A i \in 1 .. Len(acks) : acks[i].seq \in Nat /\ GoBack(acks[i].seq) <= GoBack(expected)
  <2>1. \A i \in 1 .. Len(acks) : acks[i] \in Ack
    BY <1>0
  <2> QED
    BY <2>1 DEF AckInv, Ack
<1>3. \A i \in 1 .. Len(acks) : GoBack(acks[i].seq) <= GoBack(expected')
  BY <1>0, <1>1, <1>2, StillBehind
<1>4. sndUna <= GoBack(expected')
  <2>1. sndUna <= GoBack(expected)
    BY DEF AckInv, AckedWasTaken
  <2> QED
    BY <1>0, <1>1, <2>1
<1> QED
  BY <1>3, <1>4 DEF AckInv, AckedWasTaken, GoBack

LEMMA ReceiveUdpKeeps ==
    ASSUME AckInv, TypeOK', ReceiveUdp
    PROVE  AckInv'
<1>0. TypeOK /\ UNCHANGED sndUna
  BY DEF AckInv, ReceiveUdp, sndVars
<1>1. pkt.seq \in Nat /\ pkt.size \in Nat
  BY <1>0, FirstPacket DEF ReceiveUdp, Packet
<1>2. expected \in Nat /\ expected + pkt.size \in Nat
  <2>1. expected \in Nat
    BY <1>0 DEF TypeOK
  <2> QED
    BY <1>1, <2>1
<1>3. /\ GoBack(expected) \in Nat
      /\ GoBack(GoBack(expected)) = GoBack(expected)
      /\ GoBack(expected + pkt.size) \in Nat
      /\ GoBack(expected) <= GoBack(expected + pkt.size)
  BY <1>1, <1>2, GoBackFacts
<1>4. CASE TakePacket \/ TakeLastPacket
  <2>1. expected' = expected + pkt.size /\ Answer(FALSE, expected + pkt.size)
    BY <1>4 DEF TakePacket, TakeLastPacket
  <2>2. /\ GoBack(expected) <= GoBack(expected')
        /\ GoBack(expected + pkt.size) <= GoBack(expected')
    BY <1>3, <2>1
  <2> QED
    BY <1>0, <1>2, <2>1, <2>2, AnswerKeeps, Zenon
<1>5. CASE NackGap
  <2>1. expected' = GoBack(expected) /\ Answer(TRUE, GoBack(expected))
    BY <1>5 DEF NackGap
  <2>2. /\ GoBack(expected) <= GoBack(expected')
        /\ GoBack(GoBack(expected)) <= GoBack(expected')
    BY <1>3, <2>1
  <2> QED
    BY <1>0, <1>3, <2>1, <2>2, AnswerKeeps, Zenon
<1>6. CASE TakeQuietly
  BY <1>0, <1>1, <1>2, <1>6, SilenceKeeps DEF TakeQuietly
<1>7. CASE AssertSize \/ HoldNack \/ IgnoreDuplicate
  BY <1>0, <1>2, <1>7, SilenceKeeps DEF AssertSize, HoldNack, IgnoreDuplicate, rcvVars
<1> QED
  BY <1>4, <1>5, <1>6, <1>7 DEF ReceiveUdp

\* Taking an acknowledgement out of the channel leaves those behind it.
LEMMA TailKeeps ==
    ASSUME AckInv, acks # <<>>, acks' = Tail(acks), UNCHANGED expected
    PROVE  \A i \in 1 .. Len(acks') : GoBack(acks'[i].seq) <= GoBack(expected')
<1>1. acks \in Seq(Ack)
  BY DEF AckInv, TypeOK
<1>2. \A i \in 1 .. Len(acks') : acks'[i] = acks[i + 1] /\ i + 1 \in 1 .. Len(acks)
  BY <1>1
<1> QED
  BY <1>2 DEF AckInv

LEMMA ReceiveAckKeeps ==
    ASSUME AckInv, TypeOK', ReceiveAck
    PROVE  AckInv'
<1>1. /\ acks # <<>> /\ acks' = Tail(acks)
      /\ sndUna' = Acknowledge(Head(acks).seq)
      /\ UNCHANGED expected
  BY DEF ReceiveAck, rcvVars
<1>2. Head(acks) = acks[1] /\ 1 \in 1 .. Len(acks)
  BY <1>1 DEF AckInv, TypeOK
<1>3. GoBack(Head(acks).seq) <= GoBack(expected)
  BY <1>2 DEF AckInv
<1>4. sndUna' <= GoBack(expected')
  BY <1>1, <1>3 DEF Acknowledge, AckInv, AckedWasTaken
<1> QED
  BY <1>1, <1>4, TailKeeps DEF AckInv, AckedWasTaken

LEMMA AckStep ==
    ASSUME AckInv, [Next]_vars
    PROVE  AckInv'
<1>0. TypeOK' /\ expected \in Nat
  BY StepType DEF AckInv, TypeOK
<1>1. CASE PushMessage \/ GetNxtPacket \/ LosePacket \/ UNCHANGED vars
  <2>1. UNCHANGED <<acks, sndUna, expected>>
    BY <1>1 DEF PushMessage, GetNxtPacket, LosePacket, vars, sndVars, rcvVars
  <2> QED
    BY <1>0, <2>1, SilenceKeeps
<1>2. CASE ReceiveAck
  BY <1>0, <1>2, ReceiveAckKeeps
<1>3. CASE ReceiveUdp
  BY <1>0, <1>3, ReceiveUdpKeeps
<1>4. CASE LoseAck
  <2>1. acks # <<>> /\ acks' = Tail(acks) /\ UNCHANGED <<sndUna, expected>>
    BY <1>4 DEF LoseAck, sndVars, rcvVars
  <2> QED
    BY <1>0, <2>1, TailKeeps DEF AckInv, AckedWasTaken
<1> QED
  BY <1>1, <1>2, <1>3, <1>4 DEF Next

\* Whatever the network loses, snd_una never passes what the receiver has taken in
\* order, for every program, window, chunk and acknowledgement interval.
THEOREM AckedIsTaken == Spec => []AckedWasTaken
<1>1. Init => AckInv
  <2>1. ASSUME Init PROVE AckInv
    <3>1. TypeOK
      BY <2>1, InitType
    <3>2. GoBack(0) = 0
      BY GoBackFacts
    <3> QED
      BY <2>1, <3>1, <3>2 DEF Init, AckInv, AckedWasTaken
  <2> QED
    BY <2>1
<1>2. AckInv /\ [Next]_vars => AckInv'
  BY AckStep
<1>3. AckInv => AckedWasTaken
  BY DEF AckInv
<1> QED
  BY <1>1, <1>2, <1>3, PTL DEF Spec

----------------------------------------------------------------------------
\* With loss: an acknowledgement finds its message

\* How far the sender may have sent: the end of its message, or what was
\* acknowledged (after a late NACK snd_nxt may be left behind it).
Reach == IF messages = <<>> \/ EndSeq <= sndUna THEN sndUna ELSE EndSeq

\* Acknowledgements follow each other, up to the rounding of GoBack.
InOrder ==
    /\ \A i \in 1 .. Len(acks) : sndUna <= GoBack(acks[i].seq)
    /\ \A i, j \in 1 .. Len(acks) : i < j => GoBack(acks[i].seq) <= GoBack(acks[j].seq)

WithinReach == \A i \in 1 .. Len(data) : data[i].size > 0 /\ data[i].seq + data[i].size <= Reach

\* The receiver has not gone back behind its last answer; what it answered before
\* is short of what was sent.
LastBehind == acks # <<>> => acks[Len(acks)].seq <= expected
EarlierBelow == \A i \in 1 .. Len(acks) : i < Len(acks) => acks[i].seq < Reach

StillOpen == acks # <<>> => messages # <<>>

DoneInv ==
    /\ AckInv /\ InOrder /\ WithinReach /\ LastBehind /\ EarlierBelow /\ StillOpen
    /\ NoEmptyCompletion

LEMMA ReachType ==
    ASSUME TypeOK
    PROVE  /\ Reach \in Nat /\ sndUna <= Reach
           /\ messages # <<>> => EndSeq \in Nat /\ EndSeq <= Reach
<1>1. messages # <<>> => EndSeq \in Nat
  BY DEF TypeOK, EndSeq
<1> QED
  BY <1>1 DEF TypeOK, Reach

LEMMA ReachTypeNext == ASSUME TypeOK' PROVE Reach' \in Nat /\ sndUna' <= Reach'
<1>1. messages' \in Seq(Nat) /\ startSeq' \in Nat /\ sndUna' \in Nat
  BY DEF TypeOK
<1>2. ASSUME messages' # <<>> PROVE EndSeq' \in Nat
  <2>1. Head(messages') \in Nat
    BY <1>1, <1>2
  <2>2. startSeq' + Head(messages') \in Nat
    BY <1>1, <2>1
  <2> QED
    BY <2>2 DEF EndSeq
<1> QED
  BY <1>1, <1>2 DEF Reach

\* What is on its way and what was answered
LEMMA AckTypes ==
    ASSUME TypeOK
    PROVE  /\ Len(acks) \in Nat /\ Len(data) \in Nat /\ sndUna \in Nat /\ expected \in Nat
           /\ GoBack(expected) \in Nat /\ GoBack(expected) <= expected
           /\ \A i \in 1 .. Len(acks) :
                 acks[i].seq \in Nat /\ GoBack(acks[i].seq) \in Nat /\ GoBack(acks[i].seq) <= acks[i].seq
           /\ \A i \in 1 .. Len(data) : data[i].seq \in Nat /\ data[i].size \in Nat
<1>1. ASSUME NEW i \in 1 .. Len(acks)
      PROVE  acks[i].seq \in Nat /\ GoBack(acks[i].seq) \in Nat /\ GoBack(acks[i].seq) <= acks[i].seq
  <2>1. acks[i] \in Ack
    BY DEF TypeOK
  <2>2. acks[i].seq \in Nat
    BY <2>1 DEF Ack
  <2> QED
    BY <2>2, GoBackFacts
<1>2. ASSUME NEW i \in 1 .. Len(data) PROVE data[i].seq \in Nat /\ data[i].size \in Nat
  <2>1. data[i] \in Packet
    BY DEF TypeOK
  <2> QED
    BY <2>1 DEF Packet
<1>3. Len(acks) \in Nat /\ Len(data) \in Nat /\ sndUna \in Nat /\ expected \in Nat
  BY DEF TypeOK
<1> QED
  BY <1>1, <1>2, <1>3, GoBackFacts

\* The sender may only get further.
LEMMA FurtherKeeps ==
    ASSUME DoneInv, AckInv', Reach' \in Nat, Reach <= Reach',
           acks' = acks, sndUna' = sndUna, expected <= expected',
           messages' # <<>> \/ messages' = messages, halted' # "empty",
           \A i \in 1 .. Len(data') :
              data'[i].size > 0 /\ data'[i].seq \in Nat /\ data'[i].size \in Nat
              /\ (data'[i].seq + data'[i].size <= Reach \/ data'[i].seq + data'[i].size <= Reach')
    PROVE  DoneInv'
<1>1. TypeOK /\ Reach \in Nat /\ expected \in Nat /\ expected' \in Nat
  BY ReachType DEF DoneInv, AckInv, TypeOK
<1>2. InOrder'
  BY DEF DoneInv, InOrder, GoBack
<1>3. WithinReach'
  BY <1>1 DEF WithinReach
<1>4. \A i \in 1 .. Len(acks) : acks[i].seq \in Nat
  BY <1>1, AckTypes
<1>5. LastBehind'
  <2> SUFFICES ASSUME acks # <<>> PROVE acks[Len(acks)].seq <= expected'
    BY DEF LastBehind
  <2>1. Len(acks) \in 1 .. Len(acks)
    BY <1>1 DEF TypeOK
  <2> QED
    BY <1>1, <1>4, <2>1 DEF DoneInv, LastBehind
<1>6. EarlierBelow'
  BY <1>1, <1>4 DEF DoneInv, EarlierBelow
<1>7. StillOpen' /\ NoEmptyCompletion'
  BY DEF DoneInv, StillOpen, NoEmptyCompletion
<1> QED
  BY <1>2, <1>3, <1>5, <1>6, <1>7 DEF DoneInv

\* The packets on their way, but the first
LEMMA RestWithin ==
    ASSUME DoneInv, data # <<>>, data' = Tail(data)
    PROVE  /\ \A i \in 1 .. Len(data') :
                 data'[i].size > 0 /\ data'[i].seq \in Nat /\ data'[i].size \in Nat
                 /\ data'[i].seq + data'[i].size <= Reach
           /\ pkt.seq \in Nat /\ pkt.size \in Nat /\ pkt.size > 0 /\ pkt.seq + pkt.size <= Reach
<1>1. TypeOK /\ WithinReach
  BY DEF DoneInv, AckInv
<1>2. /\ \A i \in 1 .. Len(data') : data'[i] = data[i + 1] /\ i + 1 \in 1 .. Len(data)
      /\ pkt = data[1] /\ 1 \in 1 .. Len(data)
  BY <1>1 DEF TypeOK, pkt
<1>3. \A i \in 1 .. Len(data) : data[i].seq \in Nat /\ data[i].size \in Nat
  BY <1>1, AckTypes
<1> QED
  BY <1>1, <1>2, <1>3, Zenon DEF WithinReach

LEMMA PushDone ==
    ASSUME DoneInv, AckInv', PushMessage
    PROVE  DoneInv'
<1>1. TypeOK /\ TypeOK'
  BY DEF DoneInv, AckInv
<1>2. /\ messages' = Append(messages, Program[pushed + 1])
      /\ messages # <<>> => startSeq' = startSeq
      /\ UNCHANGED <<sndUna, acks, expected, data, halted>>
  BY DEF PushMessage, rcvVars
<1>3. messages' # <<>> /\ (messages # <<>> => Head(messages') = Head(messages))
  <2>1. messages \in Seq(Nat)
    BY <1>1 DEF TypeOK
  <2>2. ASSUME NEW m PROVE Append(messages, m) # <<>>
    <3>1. Len(Append(messages, m)) = Len(messages) + 1 /\ Len(messages) \in Nat /\ Len(<<>>) = 0
      BY <2>1
    <3> QED
      BY <3>1
  <2>3. ASSUME NEW m, messages # <<>> PROVE Head(Append(messages, m)) = Head(messages)
    BY <2>1, <2>3
  <2> QED
    BY <1>2, <2>2, <2>3
<1>4. Reach \in Nat /\ Reach' \in Nat /\ Reach <= Reach'
  <2>1. Reach \in Nat /\ Reach' \in Nat /\ sndUna' <= Reach'
    BY <1>1, ReachType, ReachTypeNext
  <2>2. CASE messages = <<>>
    BY <1>2, <2>1, <2>2 DEF Reach
  <2>3. CASE messages # <<>>
    <3>1. EndSeq' = EndSeq
      BY <1>2, <1>3, <2>3 DEF EndSeq
    <3>2. Reach' = Reach
      BY <1>2, <1>3, <2>3, <3>1 DEF Reach
    <3> QED
      BY <2>1, <3>2
  <2> QED
    BY <2>2, <2>3
<1>5. expected <= expected'
  BY <1>1, <1>2 DEF TypeOK
<1>6. \A i \in 1 .. Len(data') :
          data'[i].size > 0 /\ data'[i].seq \in Nat /\ data'[i].size \in Nat
          /\ data'[i].seq + data'[i].size <= Reach
  BY <1>1, <1>2, AckTypes DEF DoneInv, WithinReach
<1> QED
  BY <1>2, <1>3, <1>4, <1>5, <1>6, FurtherKeeps DEF DoneInv, NoEmptyCompletion

LEMMA SendDone ==
    ASSUME DoneInv, AckInv', GetNxtPacket
    PROVE  DoneInv'
<1> DEFINE size == Least(Mtu, GetBytesLeft)
           new == [seq |-> sndNxt, size |-> size,
                   msg |-> IF sndNxt = startSeq THEN Head(messages) ELSE NoSize]
<1>1. TypeOK /\ TypeOK'
  BY DEF DoneInv, AckInv
<1>2. /\ data' = Append(data, new)
      /\ UNCHANGED <<messages, startSeq, sndUna, acks, expected, halted>>
  BY DEF GetNxtPacket, rcvVars
<1>3. messages # <<>> /\ EndSeq \in Nat /\ size \in Nat /\ size > 0 /\ size <= EndSeq - sndNxt
  BY <1>1, NextPacket DEF GetNxtPacket
<1>4. new.seq = sndNxt /\ new.size = size
  OBVIOUS
<1> HIDE DEF size, new
<1>5. Reach \in Nat /\ Reach' = Reach /\ EndSeq <= Reach
  BY <1>1, <1>2, <1>3, ReachType DEF Reach, EndSeq
<1>6. new.size > 0 /\ new.seq \in Nat /\ new.size \in Nat /\ new.seq + new.size <= Reach
  BY <1>1, <1>3, <1>4, <1>5 DEF TypeOK
<1>7. ASSUME NEW i \in 1 .. Len(data')
      PROVE  /\ data'[i].size > 0 /\ data'[i].seq \in Nat /\ data'[i].size \in Nat
             /\ data'[i].seq + data'[i].size <= Reach
  <2>0. data \in Seq(Packet)
    BY <1>1 DEF TypeOK
  <2>1. /\ Len(data) \in Nat /\ Len(data') = Len(data) + 1 /\ data'[Len(data) + 1] = new
        /\ \A j \in 1 .. Len(data) : data'[j] = data[j]
    BY <1>2, <2>0
  <2>4. i = Len(data) + 1 \/ i \in 1 .. Len(data)
    BY <2>1
  <2>2. CASE i = Len(data) + 1
    BY <1>6, <2>1, <2>2
  <2>3. CASE i \in 1 .. Len(data)
    <3>1. data'[i] = data[i]
      BY <2>1, <2>3
    <3> QED
      BY <1>1, <2>3, <3>1, AckTypes DEF DoneInv, WithinReach
  <2> QED
    BY <2>2, <2>3, <2>4
<1>8. expected <= expected' /\ Reach <= Reach' /\ Reach' \in Nat
  BY <1>1, <1>2, <1>5 DEF TypeOK
<1> QED
  BY <1>2, <1>7, <1>8, FurtherKeeps DEF DoneInv, NoEmptyCompletion

\* An answer to a packet that was not behind the receiver
LEMMA AnswerDone ==
    ASSUME DoneInv, AckInv', data # <<>>, data' = Tail(data), UNCHANGED sndVars,
           NEW nack \in BOOLEAN, NEW seq \in Nat, Answer(nack, seq),
           pkt.seq >= expected, seq <= expected', GoBack(expected) <= GoBack(seq),
           halted' # "empty"
    PROVE  DoneInv'
<1> DEFINE n == Len(acks)
<1>1. TypeOK /\ TypeOK' /\ AckedWasTaken
  BY DEF DoneInv, AckInv
<1>2. /\ n \in Nat /\ acks' # <<>> /\ Len(acks') = n + 1 /\ acks'[n + 1].seq = seq
      /\ \A i \in 1 .. n : acks'[i] = acks[i]
  <2> DEFINE new == [nack |-> nack, seq |-> seq]
  <2>1. acks \in Seq(Ack) /\ acks' = Append(acks, new) /\ new.seq = seq
    BY <1>1 DEF Answer, TypeOK
  <2> HIDE DEF new
  <2> QED
    BY <2>1
<1>3. /\ sndUna \in Nat /\ expected \in Nat
      /\ GoBack(expected) \in Nat /\ GoBack(expected) <= expected
      /\ \A i \in 1 .. n : acks[i].seq \in Nat /\ GoBack(acks[i].seq) \in Nat
      /\ GoBack(seq) \in Nat
  BY <1>1, AckTypes, GoBackFacts
<1>4. /\ \A i \in 1 .. Len(data') :
            data'[i].size > 0 /\ data'[i].seq \in Nat /\ data'[i].size \in Nat
            /\ data'[i].seq + data'[i].size <= Reach
      /\ pkt.seq \in Nat /\ pkt.size \in Nat /\ pkt.size > 0 /\ pkt.seq + pkt.size <= Reach
  BY RestWithin
<1>5. /\ Reach \in Nat /\ Reach' = Reach /\ sndUna' = sndUna /\ messages' = messages
      /\ sndUna <= Reach
  BY <1>1, ReachType DEF sndVars, Reach, EndSeq
<1>6. expected < Reach
  BY <1>3, <1>4, <1>5
<1>7. \A i \in 1 .. n : GoBack(acks[i].seq) <= GoBack(seq)
  <2>1. \A i \in 1 .. n : GoBack(acks[i].seq) <= GoBack(expected)
    BY DEF DoneInv, AckInv
  <2> QED
    BY <1>3, <2>1
<1>8. sndUna <= GoBack(seq)
  BY <1>1, <1>3 DEF AckedWasTaken
<1>9. messages # <<>>
  <2>1. CASE messages = <<>>
    <3>1. Reach = sndUna
      BY <2>1 DEF Reach
    <3> QED
      BY <1>1, <1>3, <1>6, <3>1 DEF AckedWasTaken
  <2> QED
    BY <2>1
<1> HIDE DEF n
<1>10. InOrder'
  <2>1. ASSUME NEW i \in 1 .. n + 1 PROVE sndUna' <= GoBack(acks'[i].seq)
    <3>1. CASE i = n + 1
      BY <1>2, <1>5, <1>8, <3>1
    <3>2. CASE i # n + 1
      <4>1. i \in 1 .. n
        BY <1>2, <3>2
      <4> QED
        BY <1>2, <1>5, <4>1 DEF DoneInv, InOrder, n
    <3> QED
      BY <3>1, <3>2
  <2>2. ASSUME NEW i \in 1 .. n + 1, NEW j \in 1 .. n + 1, i < j
        PROVE  GoBack(acks'[i].seq) <= GoBack(acks'[j].seq)
    <3>1. i \in 1 .. n
      BY <1>2, <2>2
    <3>2. CASE j = n + 1
      BY <1>2, <1>7, <3>1, <3>2
    <3>3. CASE j # n + 1
      <4>1. j \in 1 .. n
        BY <1>2, <3>3
      <4> QED
        BY <1>2, <2>2, <3>1, <4>1 DEF DoneInv, InOrder, n
    <3> QED
      BY <3>2, <3>3
  <2> QED
    BY <1>2, <2>1, <2>2 DEF InOrder, GoBack
<1>11. WithinReach'
  BY <1>4, <1>5 DEF WithinReach
<1>12. LastBehind'
  BY <1>2 DEF LastBehind
<1>13. EarlierBelow'
  <2> SUFFICES ASSUME NEW i \in 1 .. n + 1, i < n + 1 PROVE acks'[i].seq < Reach
    BY <1>2, <1>5 DEF EarlierBelow
  <2>1. i \in 1 .. n /\ acks'[i] = acks[i] /\ acks[i].seq \in Nat
    BY <1>2, <1>3
  <2>2. CASE i < n
    BY <2>1, <2>2 DEF DoneInv, EarlierBelow, n
  <2>3. CASE ~(i < n)
    <3>1. i = n /\ acks # <<>>
      <4>1. i = n /\ n # 0
        BY <1>2, <2>1, <2>3
      <4>2. Len(<<>>) = 0
        OBVIOUS
      <4> QED
        BY <4>1, <4>2 DEF n
    <3>2. acks[i].seq <= expected
      BY <3>1 DEF DoneInv, LastBehind, n
    <3> QED
      BY <1>3, <1>5, <1>6, <2>1, <3>2
  <2> QED
    BY <2>2, <2>3
<1>14. StillOpen' /\ NoEmptyCompletion'
  BY <1>5, <1>9 DEF StillOpen, NoEmptyCompletion
<1> QED
  BY <1>10, <1>11, <1>12, <1>13, <1>14 DEF DoneInv

LEMMA ReceiveUdpDone ==
    ASSUME DoneInv, AckInv', ReceiveUdp
    PROVE  DoneInv'
<1>1. TypeOK /\ TypeOK' /\ halted # "empty"
  BY DEF DoneInv, AckInv, NoEmptyCompletion
<1>2. data # <<>> /\ data' = Tail(data) /\ UNCHANGED sndVars
  BY DEF ReceiveUdp
<1>3. /\ pkt.seq \in Nat /\ pkt.size \in Nat
      /\ \A i \in 1 .. Len(data') :
            data'[i].size > 0 /\ data'[i].seq \in Nat /\ data'[i].size \in Nat
            /\ data'[i].seq + data'[i].size <= Reach
  BY <1>2, RestWithin
<1>4. expected \in Nat /\ expected + pkt.size \in Nat /\ expected <= expected + pkt.size
  <2>1. expected \in Nat
    BY <1>1 DEF TypeOK
  <2> QED
    BY <1>3, <2>1
<1>5. /\ GoBack(expected) <= GoBack(expected + pkt.size)
      /\ GoBack(expected) \in Nat /\ GoBack(GoBack(expected)) = GoBack(expected)
  BY <1>4, GoBackFacts
<1>6. CASE TakePacket \/ TakeLastPacket
  <2>1. /\ pkt.seq = expected /\ expected' = expected + pkt.size /\ halted' = halted
        /\ Answer(FALSE, expected + pkt.size)
    BY <1>6 DEF TakePacket, TakeLastPacket
  <2>2. pkt.seq >= expected /\ expected + pkt.size <= expected'
    BY <1>4, <2>1
  <2> QED
    BY <1>1, <1>2, <1>4, <1>5, <2>1, <2>2, AnswerDone
<1>7. CASE NackGap
  <2>1. /\ pkt.seq > expected /\ expected' = GoBack(expected) /\ halted' = halted
        /\ Answer(TRUE, GoBack(expected))
    BY <1>7 DEF NackGap
  <2>2. pkt.seq >= expected /\ GoBack(expected) <= expected'
    BY <1>3, <1>4, <1>5, <2>1
  <2>3. GoBack(expected) <= GoBack(GoBack(expected))
    BY <1>5
  <2> QED
    BY <1>1, <1>2, <1>5, <2>1, <2>2, <2>3, AnswerDone
<1>8. CASE AssertSize \/ TakeQuietly \/ HoldNack \/ IgnoreDuplicate
  <2>1. acks' = acks /\ expected <= expected' /\ halted' # "empty"
    BY <1>1, <1>4, <1>8 DEF AssertSize, TakeQuietly, HoldNack, IgnoreDuplicate, rcvVars
  <2>2. /\ Reach' = Reach /\ Reach \in Nat /\ sndUna' = sndUna /\ messages' = messages
    BY <1>1, <1>2, ReachType DEF Reach, EndSeq, sndVars
  <2>3. Reach' \in Nat /\ Reach <= Reach'
    BY <2>2
  <2> QED
    BY <1>3, <2>1, <2>2, <2>3, FurtherKeeps
<1> QED
  BY <1>6, <1>7, <1>8 DEF ReceiveUdp

\* The first acknowledgement leaves the channel; it may have moved snd_una.
LEMMA NextAcks ==
    ASSUME DoneInv, TypeOK', acks # <<>>, acks' = Tail(acks), expected' = expected, data' = data,
           sndUna' = sndUna \/ sndUna' = GoBack(acks[1].seq),
           Reach <= Reach', Reach' \in Nat
    PROVE  /\ InOrder' /\ WithinReach' /\ LastBehind' /\ EarlierBelow'
           /\ GoBack(acks[1].seq) >= sndUna
           /\ acks' # <<>> => acks[1].seq < Reach
<1> DEFINE n == Len(acks)
<1>1. TypeOK /\ InOrder /\ WithinReach /\ LastBehind /\ EarlierBelow
  BY DEF DoneInv, AckInv
<1>0. acks \in Seq(Ack) /\ acks # <<>> /\ acks' = Tail(acks)
  BY <1>1 DEF TypeOK
<1>2. /\ n \in Nat /\ n >= 1 /\ Len(acks') = n - 1 /\ (acks' = <<>> <=> n = 1)
  <2>1. n \in Nat /\ n # 0 /\ Len(acks') = n - 1 /\ acks' \in Seq(Ack)
    BY <1>0
  <2>2. acks' = <<>> <=> Len(acks') = 0
    BY <2>1, EmptySeq
  <2> QED
    BY <2>1, <2>2
<1>3. \A i \in 1 .. n - 1 : acks'[i] = acks[i + 1] /\ i + 1 \in 1 .. n
  BY <1>0
<1>4. \A i \in 1 .. n : acks[i].seq \in Nat /\ GoBack(acks[i].seq) \in Nat
  BY <1>1, AckTypes
<1>5. Reach \in Nat /\ sndUna \in Nat /\ Len(acks') \in Nat
  BY <1>1, <1>2, ReachType DEF TypeOK
<1>6. 1 \in 1 .. n
  BY <1>2
<1> HIDE DEF n
<1>7. InOrder'
  <2>1. ASSUME NEW i \in 1 .. n - 1 PROVE sndUna' <= GoBack(acks'[i].seq)
    <3>1. i + 1 \in 1 .. n /\ 1 < i + 1 /\ acks'[i] = acks[i + 1]
      BY <1>2, <1>3
    <3>2. sndUna <= GoBack(acks[i + 1].seq) /\ GoBack(acks[1].seq) <= GoBack(acks[i + 1].seq)
      BY <1>1, <1>6, <3>1 DEF InOrder, n
    <3> QED
      BY <3>1, <3>2
  <2>2. ASSUME NEW i \in 1 .. n - 1, NEW j \in 1 .. n - 1, i < j
        PROVE  GoBack(acks'[i].seq) <= GoBack(acks'[j].seq)
    <3>1. i + 1 \in 1 .. n /\ j + 1 \in 1 .. n /\ i + 1 < j + 1
      BY <1>2, <2>2
    <3> QED
      BY <1>1, <1>3, <3>1 DEF InOrder, n
  <2> QED
    BY <1>2, <2>1, <2>2 DEF InOrder, GoBack
<1>8. WithinReach'
  <2>1. \A i \in 1 .. Len(data) : data[i].seq \in Nat /\ data[i].size \in Nat
    BY <1>1, AckTypes
  <2> QED
    BY <1>1, <1>5, <2>1 DEF WithinReach
<1>9. LastBehind'
  <2> SUFFICES ASSUME acks' # <<>> PROVE acks'[Len(acks')].seq <= expected'
    BY DEF LastBehind
  <2>1. n - 1 \in 1 .. n - 1 /\ (n - 1) + 1 = n
    BY <1>2
  <2>2. acks'[n - 1] = acks[n]
    BY <1>3, <2>1
  <2> QED
    BY <1>1, <1>2, <2>2 DEF LastBehind, n
<1>10. EarlierBelow'
  <2> SUFFICES ASSUME NEW i \in 1 .. n - 1, i < n - 1 PROVE acks'[i].seq < Reach'
    BY <1>2 DEF EarlierBelow
  <2>1. acks'[i] = acks[i + 1] /\ i + 1 \in 1 .. n /\ i + 1 < n
    BY <1>2, <1>3
  <2>2. acks[i + 1].seq < Reach /\ acks[i + 1].seq \in Nat
    BY <1>1, <1>4, <2>1 DEF EarlierBelow, n
  <2>3. Reach <= Reach' /\ Reach' \in Nat
    OBVIOUS
  <2>4. \A x, y, z \in Nat : x < y /\ y <= z => x < z
    OBVIOUS
  <2>5. acks[i + 1].seq < Reach'
    BY <1>5, <2>2, <2>3, <2>4, Zenon
  <2> QED
    BY <2>1, <2>5, Zenon
<1>11. GoBack(acks[1].seq) >= sndUna
  BY <1>1, <1>4, <1>5, <1>6 DEF InOrder, n
<1>12. acks' # <<>> => acks[1].seq < Reach
  <2> SUFFICES ASSUME acks' # <<>> PROVE acks[1].seq < Reach
    OBVIOUS
  <2>1. 1 < n
    BY <1>2
  <2> QED
    BY <1>1, <1>6, <2>1 DEF EarlierBelow, n
<1> QED
  BY <1>7, <1>8, <1>9, <1>10, <1>11, <1>12

LEMMA ReceiveAckDone ==
    ASSUME DoneInv, AckInv', ReceiveAck
    PROVE  DoneInv'
<1> DEFINE una == GoBack(acks[1].seq)
<1>1. TypeOK /\ TypeOK' /\ messages # <<>> /\ halted # "empty"
  BY DEF DoneInv, AckInv, StillOpen, NoEmptyCompletion, ReceiveAck
<1>2. /\ acks # <<>> /\ acks' = Tail(acks) /\ expected' = expected /\ data' = data
      /\ sndUna' = Acknowledge(Head(acks).seq)
  BY DEF ReceiveAck, rcvVars
<1>3. Head(acks) = acks[1] /\ 1 \in 1 .. Len(acks)
  BY <1>1, <1>2 DEF TypeOK
<1>4. sndUna' = una /\ una \in Nat /\ una <= acks[1].seq /\ acks[1].seq \in Nat /\ sndUna <= una
  <2>1. una \in Nat /\ una <= acks[1].seq /\ sndUna \in Nat /\ acks[1].seq \in Nat
    BY <1>1, <1>3, AckTypes
  <2>2. sndUna <= una
    BY <1>3 DEF DoneInv, InOrder
  <2> QED
    BY <1>2, <1>3, <2>1, <2>2 DEF Acknowledge
<1>5. Reach \in Nat /\ Reach' \in Nat /\ sndUna' <= Reach' /\ EndSeq \in Nat
  BY <1>1, ReachType, ReachTypeNext
<1>6. sndUna \in Nat
  BY <1>1 DEF TypeOK
<1> HIDE DEF una
<1>7. CASE IsCurMessageFinished(una) /\ QpCompleteMessage
  <2>1. EndSeq <= una
    BY <1>1, <1>4, <1>5, <1>7 DEF IsCurMessageFinished
  <2>2. Reach <= una
    BY <1>1, <1>4, <2>1 DEF Reach
  <2>3. Reach <= Reach'
    BY <1>4, <1>5, <2>2
  <2>4. /\ InOrder' /\ WithinReach' /\ LastBehind' /\ EarlierBelow'
        /\ acks' # <<>> => acks[1].seq < Reach
    BY <1>1, <1>2, <1>4, <1>5, <2>3, NextAcks DEF una
  <2>5. acks' = <<>>
    BY <1>4, <1>5, <2>2, <2>4
  <2>6. StillOpen' /\ NoEmptyCompletion'
    BY <1>1, <1>7, <2>5 DEF StillOpen, NoEmptyCompletion, QpCompleteMessage
  <2> QED
    BY <2>4, <2>6 DEF DoneInv
<1>8. CASE UNCHANGED <<messages, startSeq, halted, acked>>
  <2>1. EndSeq' = EndSeq /\ messages' = messages
    BY <1>8 DEF EndSeq
  <2>2. Reach <= Reach'
    BY <1>1, <1>4, <1>5, <1>6, <2>1 DEF Reach
  <2>3. InOrder' /\ WithinReach' /\ LastBehind' /\ EarlierBelow'
    BY <1>1, <1>2, <1>4, <1>5, <2>2, NextAcks DEF una
  <2> QED
    BY <1>1, <1>8, <2>1, <2>3 DEF DoneInv, StillOpen, NoEmptyCompletion
<1> QED
  BY <1>2, <1>3, <1>4, <1>7, <1>8 DEF ReceiveAck

LEMMA LossDone ==
    ASSUME DoneInv, AckInv', LosePacket \/ LoseAck
    PROVE  DoneInv'
<1>1. TypeOK /\ TypeOK'
  BY DEF DoneInv, AckInv
<1>2. /\ UNCHANGED <<messages, startSeq, sndUna, expected, halted>>
      /\ Reach' = Reach /\ Reach \in Nat /\ expected \in Nat
  <2>1. UNCHANGED <<messages, startSeq, sndUna, expected, halted>>
    BY DEF LosePacket, LoseAck, sndVars, rcvVars
  <2>2. Reach' = Reach
    BY <2>1 DEF Reach, EndSeq
  <2>3. Reach \in Nat /\ expected \in Nat
    BY <1>1, ReachType DEF TypeOK
  <2> QED
    BY <2>1, <2>2, <2>3
<1>3. Reach' \in Nat /\ Reach <= Reach' /\ expected <= expected'
  BY <1>2
<1>4. CASE LosePacket
  <2>1. data # <<>> /\ data' = Tail(data) /\ acks' = acks
    BY <1>4 DEF LosePacket
  <2> QED
    BY <1>2, <1>3, <2>1, RestWithin, FurtherKeeps DEF DoneInv, NoEmptyCompletion
<1>5. CASE LoseAck
  <2>1. acks # <<>> /\ acks' = Tail(acks) /\ data' = data
    BY <1>5 DEF LoseAck
  <2>2. InOrder' /\ WithinReach' /\ LastBehind' /\ EarlierBelow'
    BY <1>1, <1>2, <1>3, <2>1, NextAcks
  <2> QED
    BY <1>2, <2>1, <2>2 DEF DoneInv, StillOpen, NoEmptyCompletion
<1> QED
  BY <1>4, <1>5

LEMMA StillDone ==
    ASSUME DoneInv, AckInv', UNCHANGED vars
    PROVE  DoneInv'
BY DEF DoneInv, InOrder, WithinReach, LastBehind, EarlierBelow, StillOpen, NoEmptyCompletion,
       Reach, EndSeq, GoBack, vars, sndVars, rcvVars

\* Whatever the network loses, and even when the sender has gone back behind what
\* is acknowledged, QpCompleteMessage finds a message to complete.
THEOREM CompletionFindsMessage == Spec => []NoEmptyCompletion
<1>1. Init => AckInv
  <2>1. ASSUME Init PROVE AckInv
    <3>1. TypeOK
      BY <2>1, InitType
    <3>2. GoBack(0) = 0
      BY GoBackFacts
    <3> QED
      BY <2>1, <3>1, <3>2 DEF Init, AckInv, AckedWasTaken
  <2> QED
    BY <2>1
<1>2. ASSUME Init PROVE DoneInv
  <2>1. AckInv
    BY <1>1, <1>2
  <2> QED
    BY <1>2, <2>1 DEF Init, DoneInv, InOrder, WithinReach, LastBehind, EarlierBelow, StillOpen,
                      NoEmptyCompletion
<1>3. ASSUME DoneInv, [Next]_vars PROVE DoneInv'
  <2>1. AckInv'
    BY <1>3, AckStep DEF DoneInv
  <2> QED
    BY <1>3, <2>1, PushDone, SendDone, ReceiveAckDone, ReceiveUdpDone, LossDone, StillDone DEF Next
<1>4. DoneInv => NoEmptyCompletion
  BY DEF DoneInv
<1> QED
  BY <1>2, <1>3, <1>4, PTL DEF Spec

----------------------------------------------------------------------------
\* Without loss: the queue pair implements MessageChannel

\* A network that loses nothing, and the shipped L2AckInterval and L2BackToZero
Lossless == MaxLoss = 0 /\ AckInterval = 1 /\ ~BackTo0

\* The packets in the channel follow each other from what the receiver expects to
\* what the sender sends next, and the first one of the message carries its size.
DataInOrder ==
    /\ data = <<>> => sndNxt = expected
    /\ data # <<>> => data[1].seq = expected /\ messages # <<>>
    /\ \A i \in 1 .. Len(data) :
        /\ data[i].size > 0
        /\ data[i].seq >= expected
        /\ data[i].seq + data[i].size =
               IF i = Len(data) THEN sndNxt ELSE data[i + 1].seq
        /\ data[i].seq + data[i].size <= sndNxt
        /\ data[i].msg = IF data[i].seq = startSeq THEN Head(messages) ELSE NoSize
        /\ \A j \in 1 .. Len(data) : i < j => data[i].seq + data[i].size <= data[j].seq

\* The acknowledgements in the channel rise from snd_una to what the receiver
\* expects, and none of them is a NACK.
AcksInOrder ==
    /\ acks = <<>> => sndUna = expected
    /\ acks # <<>> => acks[Len(acks)].seq = expected
    /\ \A i \in 1 .. Len(acks) :
        /\ ~acks[i].nack
        /\ sndUna < acks[i].seq /\ acks[i].seq <= expected
        /\ \A j \in 1 .. Len(acks) : i < j => acks[i].seq < acks[j].seq

\* One message is under way at a time, and nothing is when there is none.
OneMessage ==
    /\ messages # <<>> =>
        /\ startSeq <= sndUna /\ sndUna < EndSeq
        /\ sndUna <= expected /\ expected <= sndNxt /\ sndNxt <= EndSeq
    /\ messages = <<>> => sndUna = expected /\ expected = sndNxt
    /\ \A i \in 1 .. Len(messages) : messages[i] > 0 /\ messages[i] < NoSize

\* Which messages were announced where
Announced ==
    /\ pushed = acked + Len(messages)
    /\ received = IF messages # <<>> /\ expected = EndSeq THEN acked + 1 ELSE acked

LosslessInv ==
    /\ TypeOK
    /\ halted = "no"
    /\ DataInOrder
    /\ AcksInOrder
    /\ OneMessage
    /\ CountsDown
    /\ Announced

\* Pushing a message
LEMMA PushKeeps ==
    ASSUME LosslessInv, PushMessage
    PROVE  LosslessInv' /\ received' = received /\ acked' = acked
<1> DEFINE new == Program[pushed + 1]
<1>1. TypeOK /\ TypeOK'
  BY PushMessageType DEF LosslessInv
<1>2. new \in Nat /\ new > 0 /\ new < NoSize
  BY <1>1, ProgramSize, TransportAssumption DEF TypeOK, PushMessage
<1>3. /\ messages' = Append(messages, new)
      /\ startSeq' = IF messages = <<>> THEN sndNxt ELSE startSeq
      /\ pushed' = pushed + 1
      /\ UNCHANGED <<sndNxt, sndUna, expected, curSize, data, acks, halted, received, acked>>
  BY DEF PushMessage, rcvVars
<1>4. messages \in Seq(Nat) /\ startSeq \in Nat /\ sndNxt \in Nat /\ sndUna \in Nat
      /\ expected \in Nat /\ acked \in Nat /\ pushed \in Nat
  BY <1>1 DEF TypeOK
<1> HIDE DEF new
<1>5. /\ messages' # <<>>
      /\ Len(messages') = Len(messages) + 1
      /\ messages = <<>> => Head(messages') = new
      /\ messages # <<>> => Head(messages') = Head(messages)
      /\ \A i \in 1 .. Len(messages') : messages'[i] = IF i = Len(messages) + 1 THEN new ELSE messages[i]
  BY <1>2, <1>3, <1>4
<1>8. \A i \in 1 .. Len(messages') : messages'[i] > 0 /\ messages'[i] < NoSize
  <2>1. \A i \in 1 .. Len(messages) : messages[i] > 0 /\ messages[i] < NoSize
    BY DEF LosslessInv, OneMessage
  <2>2. SUFFICES ASSUME NEW i \in 1 .. Len(messages')
                 PROVE  messages'[i] > 0 /\ messages'[i] < NoSize
    OBVIOUS
  <2>3. Len(messages) \in Nat
    BY <1>4
  <2>4. CASE i = Len(messages) + 1
    BY <1>2, <1>5, <2>4
  <2>5. CASE i # Len(messages) + 1
    <3>1. i \in 1 .. Len(messages)
      BY <1>5, <2>3, <2>5
    <3>2. messages'[i] = messages[i]
      BY <1>5, <2>5
    <3> QED
      BY <2>1, <3>1, <3>2
  <2> QED
    BY <2>4, <2>5
<1>6. CASE messages = <<>>
  <2>1. EndSeq' = sndNxt + new /\ startSeq' = sndNxt
    BY <1>3, <1>5, <1>6 DEF EndSeq
  <2>2. data = <<>> /\ sndUna = expected /\ expected = sndNxt
    BY <1>6 DEF LosslessInv, DataInOrder, OneMessage
  <2>3. DataInOrder'
    BY <1>3, <2>2 DEF DataInOrder
  <2>4. AcksInOrder'
    BY <1>3 DEF LosslessInv, AcksInOrder
  <2>5. OneMessage'
    BY <1>2, <1>3, <1>4, <1>5, <1>8, <2>1, <2>2 DEF OneMessage
  <2>6. CountsDown'
    BY <1>3, <1>6, <2>1, <2>2, <1>4 DEF LosslessInv, CountsDown
  <2>7. Announced'
    BY <1>2, <1>3, <1>4, <1>5, <1>6, <2>1, <2>2 DEF LosslessInv, Announced
  <2> QED
    BY <1>1, <1>3, <2>3, <2>4, <2>5, <2>6, <2>7 DEF LosslessInv
<1>7. CASE messages # <<>>
  <2>1. EndSeq' = EndSeq /\ startSeq' = startSeq /\ Head(messages') = Head(messages)
    BY <1>3, <1>5, <1>7 DEF EndSeq
  <2>3. DataInOrder'
    BY <1>3, <1>5, <1>7, <2>1 DEF LosslessInv, DataInOrder
  <2>4. AcksInOrder'
    BY <1>3 DEF LosslessInv, AcksInOrder
  <2>5. OneMessage'
    BY <1>3, <1>5, <1>7, <1>8, <2>1 DEF LosslessInv, OneMessage
  <2>6. CountsDown'
    BY <1>3, <1>5, <1>7, <2>1 DEF LosslessInv, CountsDown
  <2>7. Announced'
    BY <1>3, <1>4, <1>5, <1>7, <2>1 DEF LosslessInv, Announced
  <2> QED
    BY <1>1, <1>3, <2>3, <2>4, <2>5, <2>6, <2>7 DEF LosslessInv
<1> QED
  BY <1>3, <1>6, <1>7

\* Sending a packet
LEMMA SendKeeps ==
    ASSUME LosslessInv, GetNxtPacket
    PROVE  LosslessInv' /\ UNCHANGED chanVars
<1> DEFINE size == Least(Mtu, GetBytesLeft)
           new == [seq |-> sndNxt, size |-> size,
                   msg |-> IF sndNxt = startSeq THEN Head(messages) ELSE NoSize]
<1>1. TypeOK /\ TypeOK'
  BY GetNxtPacketType DEF LosslessInv
<1>2. /\ messages # <<>>
      /\ EndSeq \in Nat
      /\ size \in Nat /\ size > 0 /\ size <= EndSeq - sndNxt
  BY <1>1, NextPacket DEF GetNxtPacket
<1>3. /\ data' = Append(data, new) /\ sndNxt' = sndNxt + size
      /\ UNCHANGED <<messages, startSeq, sndUna, expected, curSize, acks, halted, chanVars>>
  BY DEF GetNxtPacket, rcvVars
<1> HIDE DEF size
<1>4. new.seq = sndNxt /\ new.size = size
      /\ new.msg = IF sndNxt = startSeq THEN Head(messages) ELSE NoSize
  OBVIOUS
<1> HIDE DEF new
<1>5. startSeq \in Nat /\ sndNxt \in Nat /\ sndUna \in Nat /\ expected \in Nat
      /\ data \in Seq(Packet)
  BY <1>1 DEF TypeOK
<1>6. \A i \in 1 .. Len(data) : data[i].seq \in Nat /\ data[i].size \in Nat
  <2>1. \A i \in 1 .. Len(data) : data[i] \in Packet
    BY <1>5
  <2> QED
    BY <2>1 DEF Packet
<1>7. /\ Len(data') = Len(data) + 1 /\ data' # <<>>
      /\ \A i \in 1 .. Len(data) : data'[i] = data[i]
      /\ data'[Len(data) + 1] = new
  BY <1>3, <1>5
<1>8. /\ startSeq <= sndUna /\ sndUna < EndSeq
      /\ sndUna <= expected /\ expected <= sndNxt
  BY <1>2 DEF LosslessInv, OneMessage
<1>9. EndSeq' = EndSeq
  BY <1>3 DEF EndSeq
<1>10. DataInOrder'
  <2>1. data'[1].seq = expected'
    <3>1. CASE data = <<>>
      BY <1>3, <1>4, <1>7, <3>1 DEF LosslessInv, DataInOrder
    <3>2. CASE data # <<>>
      BY <1>3, <1>5, <1>7, <3>2 DEF LosslessInv, DataInOrder
    <3> QED
      BY <3>1, <3>2
  <2>2. ASSUME NEW i \in 1 .. Len(data')
        PROVE  /\ data'[i].size > 0
               /\ data'[i].seq >= expected'
               /\ data'[i].seq + data'[i].size =
                      IF i = Len(data') THEN sndNxt' ELSE data'[i + 1].seq
               /\ data'[i].seq + data'[i].size <= sndNxt'
               /\ data'[i].msg = IF data'[i].seq = startSeq' THEN Head(messages') ELSE NoSize
               /\ \A j \in 1 .. Len(data') : i < j => data'[i].seq + data'[i].size <= data'[j].seq
    <3>1. CASE i = Len(data) + 1
      <4>1. data'[i] = new /\ i = Len(data')
        BY <1>7, <3>1
      <4>2. new.size > 0 /\ new.seq >= expected' /\ new.seq + new.size = sndNxt'
        BY <1>2, <1>3, <1>4, <1>5, <1>8
      <4>3. new.msg = IF new.seq = startSeq' THEN Head(messages') ELSE NoSize
        BY <1>3, <1>4
      <4>4. \A j \in 1 .. Len(data') : ~(i < j)
        BY <1>5, <1>7, <4>1
      <4>5. new.seq + new.size <= sndNxt'
        BY <1>2, <1>3, <1>4, <1>5, <4>2
      <4> QED
        BY <4>1, <4>2, <4>3, <4>4, <4>5
    <3>2. CASE i \in 1 .. Len(data)
      <4>1. /\ data[i].size > 0
            /\ data[i].seq >= expected
            /\ data[i].seq + data[i].size = IF i = Len(data) THEN sndNxt ELSE data[i + 1].seq
            /\ data[i].seq + data[i].size <= sndNxt
            /\ data[i].msg = IF data[i].seq = startSeq THEN Head(messages) ELSE NoSize
            /\ \A j \in 1 .. Len(data) : i < j => data[i].seq + data[i].size <= data[j].seq
        BY <3>2 DEF LosslessInv, DataInOrder
      <4>2. data'[i] = data[i] /\ i # Len(data')
        BY <1>5, <1>7, <3>2
      <4>3. data[i].seq + data[i].size = data'[i + 1].seq
        <5>1. CASE i = Len(data)
          BY <1>4, <1>7, <4>1, <5>1
        <5>2. CASE i # Len(data)
          <6>1. i + 1 \in 1 .. Len(data)
            BY <1>5, <3>2, <5>2
          <6> QED
            BY <1>7, <4>1, <5>2, <6>1
        <5> QED
          BY <5>1, <5>2
      <4>4. \A j \in 1 .. Len(data') : i < j => data[i].seq + data[i].size <= data'[j].seq
        <5>1. \A j \in 1 .. Len(data') : j = Len(data) + 1 \/ j \in 1 .. Len(data)
          BY <1>5, <1>7
        <5> QED
          BY <1>4, <1>7, <4>1, <5>1
      <4>5. data[i].seq + data[i].size <= sndNxt'
        BY <1>2, <1>3, <1>5, <1>6, <3>2, <4>1
      <4> QED
        BY <1>3, <4>1, <4>2, <4>3, <4>4, <4>5
    <3> QED
      BY <1>5, <1>7, <3>1, <3>2
  <2> QED
    BY <1>2, <1>3, <1>7, <2>1, <2>2 DEF DataInOrder
<1>11. AcksInOrder'
  BY <1>3 DEF LosslessInv, AcksInOrder
<1>12. OneMessage'
  BY <1>2, <1>3, <1>5, <1>8, <1>9 DEF LosslessInv, OneMessage
<1>13. CountsDown'
  BY <1>3, <1>9 DEF LosslessInv, CountsDown
<1>14. Announced'
  BY <1>3, <1>9 DEF LosslessInv, Announced, chanVars
<1> QED
  BY <1>1, <1>3, <1>10, <1>11, <1>12, <1>13, <1>14 DEF LosslessInv

\* The packet that arrives is the one expected, and its message is known.
LEMMA ArrivesExpected ==
    ASSUME LosslessInv, data # <<>>
    PROVE  /\ messages # <<>>
           /\ pkt = data[1] /\ pkt \in Packet
           /\ pkt.seq = expected /\ pkt.size > 0
           /\ expected + pkt.size <= sndNxt /\ sndNxt <= EndSeq
           /\ startSeq <= expected /\ expected < EndSeq
           /\ EndSeq \in Nat
           /\ SizeOnArrival = EndSeq - expected
<1>1. TypeOK
  BY DEF LosslessInv
<1>2. data \in Seq(Packet) /\ 1 \in 1 .. Len(data) /\ pkt = data[1] /\ pkt \in Packet
  BY <1>1 DEF TypeOK, pkt
<1>3. messages # <<>> /\ pkt.seq = expected /\ pkt.size > 0 /\ expected + pkt.size <= sndNxt
  BY <1>2 DEF LosslessInv, DataInOrder
<1>4. pkt.msg = IF expected = startSeq THEN Head(messages) ELSE NoSize
  BY <1>2, <1>3 DEF LosslessInv, DataInOrder
<1>5. /\ Head(messages) \in Nat /\ Head(messages) = messages[1] /\ 1 \in 1 .. Len(messages)
      /\ startSeq \in Nat /\ expected \in Nat /\ sndUna \in Nat /\ sndNxt \in Nat
  BY <1>1, <1>3 DEF TypeOK
<1>6. pkt.size \in Nat
  BY <1>2 DEF Packet
<1>7. Head(messages) > 0 /\ Head(messages) < NoSize
  BY <1>5 DEF LosslessInv, OneMessage
<1>8. EndSeq \in Nat /\ EndSeq = startSeq + Head(messages)
  BY <1>5 DEF EndSeq
<1>9. startSeq <= expected /\ sndNxt <= EndSeq
  BY <1>3, <1>5, <1>8 DEF LosslessInv, OneMessage
<1>10. expected < EndSeq
  BY <1>3, <1>5, <1>6, <1>8, <1>9
<1>11. SizeOnArrival = EndSeq - expected
  <2>1. CASE expected = startSeq
    <3>1. curSize = NoSize
      BY <2>1, <1>5 DEF LosslessInv, CountsDown
    <3> QED
      BY <1>4, <1>5, <1>7, <1>8, <2>1, <3>1 DEF SizeOnArrival
  <2>2. CASE expected # startSeq
    <3>1. curSize = EndSeq - expected
      BY <1>3, <1>5, <1>8, <1>9, <1>10, <2>2 DEF LosslessInv, CountsDown
    <3> QED
      BY <1>4, <2>2, <3>1 DEF SizeOnArrival
  <2> QED
    BY <2>1, <2>2
<1> QED
  BY <1>2, <1>3, <1>8, <1>9, <1>10, <1>11

\* So every arrival is a packet taken and acknowledged.
LEMMA ArrivalTaken ==
    ASSUME Lossless, LosslessInv, ReceiveUdp
    PROVE  /\ expected' = expected + pkt.size
           /\ Answer(FALSE, expected + pkt.size)
           /\ halted' = halted
           /\ \/ /\ expected + pkt.size < EndSeq
                 /\ curSize' = EndSeq - (expected + pkt.size)
                 /\ received' = received
              \/ /\ expected + pkt.size = EndSeq
                 /\ curSize' = NoSize
                 /\ received' = received + 1
<1>1. /\ pkt \in Packet /\ pkt.seq = expected /\ pkt.size > 0
      /\ expected + pkt.size <= sndNxt /\ sndNxt <= EndSeq
      /\ EndSeq \in Nat
      /\ SizeOnArrival = EndSeq - expected
  BY ArrivesExpected DEF ReceiveUdp
<1>2. pkt.size \in Nat /\ pkt.seq \in Nat
  BY <1>1 DEF Packet
<1>3. expected \in Nat /\ sndNxt \in Nat
  BY DEF LosslessInv, TypeOK
<1>4. SizeOnArrival >= pkt.size
  BY <1>1, <1>2, <1>3
<1>5. Acknowledges(expected + pkt.size)
  BY <1>1, <1>2, <1>3 DEF Acknowledges, Lossless
<1>6. TakePacket \/ TakeLastPacket
  <2>1. ~AssertSize
    BY <1>1, <1>2, <1>3, <1>4 DEF AssertSize
  <2>2. ~TakeQuietly
    BY <1>5 DEF TakeQuietly
  <2>3. ~(pkt.seq > expected) /\ ~(pkt.seq < expected)
    BY <1>1, <1>3
  <2>4. ~NackGap /\ ~HoldNack /\ ~IgnoreDuplicate
    BY <2>3, Zenon DEF NackGap, HoldNack, IgnoreDuplicate
  <2> QED
    BY <2>1, <2>2, <2>4 DEF ReceiveUdp
<1>7. CASE TakePacket
  <2>1. expected + pkt.size < EndSeq /\ curSize' = EndSeq - (expected + pkt.size)
    BY <1>1, <1>2, <1>3, <1>7 DEF TakePacket
  <2> QED
    BY <1>7, <2>1 DEF TakePacket
<1>8. CASE TakeLastPacket
  <2>1. expected + pkt.size = EndSeq
    BY <1>1, <1>2, <1>3, <1>8 DEF TakeLastPacket
  <2> QED
    BY <1>8, <2>1 DEF TakeLastPacket
<1> QED
  BY <1>6, <1>7, <1>8

\* An index before the last has one after it.
LEMMA NextIndex ==
    ASSUME NEW n \in Nat, NEW m \in Nat, m = n + 1, NEW i \in 1 .. n, i # n
    PROVE  i + 1 \in 1 .. n /\ i + 1 # m
  OBVIOUS

\* Taking a packet out of the channel
LEMMA DataShifts ==
    ASSUME LosslessInv, data # <<>>, data' = Tail(data),
           UNCHANGED <<messages, startSeq, sndNxt>>,
           expected' = expected + pkt.size
    PROVE  DataInOrder'
<1>1. data \in Seq(Packet) /\ pkt = data[1] /\ pkt.seq = expected /\ messages # <<>>
  BY ArrivesExpected DEF LosslessInv, TypeOK
<1>2. /\ Len(data) \in Nat /\ Len(data) > 0
      /\ Len(data') \in Nat /\ Len(data') = Len(data) - 1
      /\ \A i \in 1 .. Len(data') : data'[i] = data[i + 1] /\ i + 1 \in 1 .. Len(data)
      /\ (data' = <<>>) <=> (Len(data) = 1)
  <2>1. /\ Len(data) \in Nat /\ Len(data) > 0
        /\ Len(data') \in Nat /\ Len(data') = Len(data) - 1
    BY <1>1
  <2>2. \A i \in 1 .. Len(data') : data'[i] = data[i + 1] /\ i + 1 \in 1 .. Len(data)
    BY <1>1, <2>1
  <2>3. (data' = <<>>) <=> (Len(data) = 1)
    <3>1. data' \in Seq(Packet)
      BY <1>1
    <3>2. (data' = <<>>) <=> (Len(data') = 0)
      BY <3>1, EmptySeq
    <3> QED
      BY <2>1, <3>2
  <2> QED
    BY <2>1, <2>2, <2>3
<1>3. \A i \in 1 .. Len(data) :
        /\ data[i].size > 0
        /\ data[i].seq + data[i].size = IF i = Len(data) THEN sndNxt ELSE data[i + 1].seq
        /\ data[i].seq + data[i].size <= sndNxt
        /\ data[i].msg = IF data[i].seq = startSeq THEN Head(messages) ELSE NoSize
        /\ \A j \in 1 .. Len(data) : i < j => data[i].seq + data[i].size <= data[j].seq
  BY DEF LosslessInv, DataInOrder
<1>4. 1 \in 1 .. Len(data)
  BY <1>2
<1>5. expected' = data[1].seq + data[1].size
  BY <1>1
<1>6. CASE Len(data) = 1
  <2>1. data' = <<>> /\ sndNxt' = expected'
    BY <1>2, <1>3, <1>4, <1>5, <1>6
  <2> QED
    BY <2>1 DEF DataInOrder
<1>7. CASE Len(data) # 1
  <2>1. data' # <<>> /\ 1 \in 1 .. Len(data')
    BY <1>2, <1>7
  <2>2. data'[1].seq = expected'
    BY <1>2, <1>3, <1>4, <1>5, <1>7, <2>1
  <2>3. ASSUME NEW i \in 1 .. Len(data')
        PROVE  /\ data'[i].size > 0
               /\ data'[i].seq >= expected'
               /\ data'[i].seq + data'[i].size =
                      IF i = Len(data') THEN sndNxt' ELSE data'[i + 1].seq
               /\ data'[i].seq + data'[i].size <= sndNxt'
               /\ data'[i].msg = IF data'[i].seq = startSeq' THEN Head(messages') ELSE NoSize
               /\ \A j \in 1 .. Len(data') : i < j => data'[i].seq + data'[i].size <= data'[j].seq
    <3>1. data'[i] = data[i + 1] /\ i + 1 \in 1 .. Len(data) /\ 1 < i + 1
      BY <1>2
    <3>2. data'[i].seq >= expected'
      <4>1. data[1].seq + data[1].size <= data[i + 1].seq
        BY <1>3, <1>4, <3>1
      <4>2. expected' \in Nat /\ data[i + 1].seq \in Nat
        <5>1. data[1] \in Packet /\ data[i + 1] \in Packet
          BY <1>1, <1>4, <3>1
        <5> QED
          BY <1>5, <5>1 DEF Packet
      <4> QED
        BY <1>5, <3>1, <4>1, <4>2
    <3>3. data'[i].seq + data'[i].size = IF i = Len(data') THEN sndNxt ELSE data'[i + 1].seq
      <4>0. /\ i \in Nat /\ 1 <= i /\ i <= Len(data')
            /\ Len(data') \in Nat /\ Len(data) = Len(data') + 1
        BY <1>2
      <4>1. CASE i = Len(data')
        <5>1. i + 1 = Len(data)
          BY <1>2, <4>0, <4>1
        <5> QED
          BY <1>3, <3>1, <4>1, <5>1
      <4>2. CASE i # Len(data')
        <5>1. i + 1 \in 1 .. Len(data') /\ i + 1 # Len(data)
          BY <1>2, <4>0, <4>2, NextIndex, Zenon
        <5>2. data'[i + 1] = data[(i + 1) + 1]
          BY <1>2, <5>1
        <5> QED
          BY <1>3, <3>1, <4>2, <5>1, <5>2
      <4> QED
        BY <4>1, <4>2
    <3>4. \A j \in 1 .. Len(data') : i < j => data'[i].seq + data'[i].size <= data'[j].seq
      <4>1. ASSUME NEW j \in 1 .. Len(data'), i < j
            PROVE  data'[i].seq + data'[i].size <= data'[j].seq
        <5>1. data'[j] = data[j + 1] /\ j + 1 \in 1 .. Len(data) /\ i + 1 < j + 1
          BY <1>2, <4>1
        <5> QED
          BY <1>3, <3>1, <5>1
      <4> QED
        BY <4>1
    <3> QED
      BY <1>3, <3>1, <3>2, <3>3, <3>4
  <2> QED
    BY <1>1, <2>1, <2>2, <2>3 DEF DataInOrder
<1> QED
  BY <1>6, <1>7

\* Acknowledging it
LEMMA AcksGrow ==
    ASSUME LosslessInv, NEW n \in Nat, n > 0,
           Answer(FALSE, expected + n), expected' = expected + n, UNCHANGED sndUna,
           sndUna <= expected
    PROVE  AcksInOrder'
<1> DEFINE new == [nack |-> FALSE, seq |-> expected + n]
<1>1. acks \in Seq(Ack) /\ expected \in Nat /\ sndUna \in Nat
  BY DEF LosslessInv, TypeOK
<1>2. acks' = Append(acks, new)
  BY DEF Answer
<1>3. new.nack = FALSE /\ new.seq = expected + n
  OBVIOUS
<1> HIDE DEF new
<1>4. /\ Len(acks) \in Nat /\ Len(acks') = Len(acks) + 1 /\ acks' # <<>>
      /\ \A i \in 1 .. Len(acks) : acks'[i] = acks[i]
      /\ acks'[Len(acks) + 1] = new
  BY <1>1, <1>2
<1>5. \A i \in 1 .. Len(acks) :
        /\ ~acks[i].nack /\ sndUna < acks[i].seq /\ acks[i].seq <= expected
        /\ \A j \in 1 .. Len(acks) : i < j => acks[i].seq < acks[j].seq
  BY DEF LosslessInv, AcksInOrder
<1>6. \A i \in 1 .. Len(acks) : acks[i].seq \in Nat
  <2>1. \A i \in 1 .. Len(acks) : acks[i] \in Ack
    BY <1>1
  <2> QED
    BY <2>1 DEF Ack
<1>7. ASSUME NEW i \in 1 .. Len(acks')
      PROVE  /\ ~acks'[i].nack
             /\ sndUna' < acks'[i].seq /\ acks'[i].seq <= expected'
             /\ \A j \in 1 .. Len(acks') : i < j => acks'[i].seq < acks'[j].seq
  <2>1. CASE i = Len(acks) + 1
    BY <1>1, <1>3, <1>4, <2>1
  <2>2. CASE i \in 1 .. Len(acks)
    <3>1. /\ acks'[i] = acks[i] /\ ~acks[i].nack
          /\ sndUna < acks[i].seq /\ acks[i].seq <= expected /\ acks[i].seq \in Nat
      BY <1>4, <1>5, <1>6, <2>2
    <3>2. \A j \in 1 .. Len(acks') : i < j => acks'[i].seq < acks'[j].seq
      <4>1. ASSUME NEW j \in 1 .. Len(acks'), i < j
            PROVE  acks'[i].seq < acks'[j].seq
        <5>1. CASE j = Len(acks) + 1
          BY <1>1, <1>3, <1>4, <3>1, <5>1
        <5>2. CASE j \in 1 .. Len(acks)
          BY <1>4, <1>5, <2>2, <4>1, <5>2
        <5> QED
          BY <1>4, <5>1, <5>2
      <4> QED
        BY <4>1
    <3> QED
      BY <1>1, <3>1, <3>2
  <2> QED
    BY <1>4, <2>1, <2>2
<1> QED
  BY <1>3, <1>4, <1>7 DEF AcksInOrder

\* Receiving a packet
LEMMA TakeKeeps ==
    ASSUME Lossless, LosslessInv, ReceiveUdp
    PROVE  /\ LosslessInv' /\ UNCHANGED <<pushed, acked>>
           /\ \/ received' = received
              \/ received < pushed /\ received' = received + 1
<1>1. TypeOK /\ TypeOK'
  BY ReceiveUdpType DEF LosslessInv
<1>2. /\ data # <<>> /\ data' = Tail(data)
      /\ UNCHANGED <<messages, startSeq, sndNxt, sndUna, pushed, acked>>
  BY DEF ReceiveUdp, sndVars
<1>3. /\ messages # <<>> /\ pkt \in Packet /\ pkt.size > 0
      /\ expected + pkt.size <= sndNxt /\ sndNxt <= EndSeq
      /\ startSeq <= expected /\ expected < EndSeq /\ EndSeq \in Nat
  BY <1>2, ArrivesExpected
<1>4. pkt.size \in Nat
  BY <1>3 DEF Packet
<1>5. /\ expected \in Nat /\ sndUna \in Nat /\ sndNxt \in Nat /\ startSeq \in Nat
      /\ acked \in Nat /\ pushed \in Nat /\ messages \in Seq(Nat)
  BY <1>1 DEF TypeOK
<1>6. /\ expected' = expected + pkt.size
      /\ Answer(FALSE, expected + pkt.size)
      /\ halted' = halted
      /\ \/ /\ expected + pkt.size < EndSeq
            /\ curSize' = EndSeq - (expected + pkt.size)
            /\ received' = received
         \/ /\ expected + pkt.size = EndSeq
            /\ curSize' = NoSize
            /\ received' = received + 1
  BY ArrivalTaken
<1>7. EndSeq' = EndSeq
  BY <1>2 DEF EndSeq
<1>8. startSeq <= sndUna /\ sndUna < EndSeq /\ sndUna <= expected
  BY <1>3 DEF LosslessInv, OneMessage
<1>9. DataInOrder'
  BY <1>2, <1>6, DataShifts
<1>10. AcksInOrder'
  BY <1>2, <1>3, <1>4, <1>6, <1>8, AcksGrow
<1>11. OneMessage'
  <2>1. \A i \in 1 .. Len(messages') : messages'[i] > 0 /\ messages'[i] < NoSize
    BY <1>2 DEF LosslessInv, OneMessage
  <2> QED
    BY <1>2, <1>3, <1>4, <1>5, <1>6, <1>7, <1>8, <2>1 DEF OneMessage
<1>12. CountsDown'
  BY <1>2, <1>3, <1>4, <1>5, <1>6, <1>7 DEF CountsDown
<1>13. pushed = acked + Len(messages) /\ received = acked
  BY <1>3, <1>5 DEF LosslessInv, Announced
<1>14. Announced'
  BY <1>2, <1>3, <1>5, <1>6, <1>7, <1>13 DEF Announced
<1>15. received < pushed
  BY <1>3, <1>5, <1>13
<1> QED
  BY <1>1, <1>2, <1>6, <1>9, <1>10, <1>11, <1>12, <1>14, <1>15 DEF LosslessInv

\* Taking an acknowledgement out of the channel
LEMMA AcksShift ==
    ASSUME LosslessInv, acks # <<>>, acks' = Tail(acks),
           sndUna' = acks[1].seq, expected' = expected
    PROVE  AcksInOrder'
<1>1. acks \in Seq(Ack)
  BY DEF LosslessInv, TypeOK
<1>2. /\ Len(acks) \in Nat /\ Len(acks) > 0
      /\ Len(acks') \in Nat /\ Len(acks) = Len(acks') + 1
  BY <1>1
<1>3. \A i \in 1 .. Len(acks') : acks'[i] = acks[i + 1] /\ i + 1 \in 1 .. Len(acks)
  BY <1>1, <1>2
<1>4. (acks' = <<>>) => Len(acks) = 1
  <2>1. (acks' = <<>>) => Len(acks') = 0
    OBVIOUS
  <2> QED
    BY <1>2, <2>1
<1>5. (acks' # <<>>) => Len(acks') > 0
  BY <1>1, EmptySeq
<1>6. /\ acks[Len(acks)].seq = expected
      /\ \A i \in 1 .. Len(acks) :
            /\ ~acks[i].nack /\ acks[i].seq <= expected
            /\ \A j \in 1 .. Len(acks) : i < j => acks[i].seq < acks[j].seq
  BY DEF LosslessInv, AcksInOrder
<1>7. ASSUME NEW i \in 1 .. Len(acks')
      PROVE  /\ ~acks'[i].nack
             /\ sndUna' < acks'[i].seq /\ acks'[i].seq <= expected'
             /\ \A j \in 1 .. Len(acks') : i < j => acks'[i].seq < acks'[j].seq
  <2>1. acks'[i] = acks[i + 1] /\ i + 1 \in 1 .. Len(acks) /\ 1 < i + 1 /\ 1 \in 1 .. Len(acks)
    BY <1>2, <1>3
  <2>2. acks[1].seq < acks[i + 1].seq
    BY <1>6, <2>1
  <2>3. ASSUME NEW j \in 1 .. Len(acks'), i < j
        PROVE  acks'[i].seq < acks'[j].seq
    <3>1. acks'[j] = acks[j + 1] /\ j + 1 \in 1 .. Len(acks) /\ i + 1 < j + 1
      BY <1>3, <2>3
    <3> QED
      BY <1>6, <2>1, <3>1
  <2> QED
    BY <1>6, <2>1, <2>2, <2>3
<1>8. acks' = <<>> => sndUna' = expected'
  BY <1>4, <1>6
<1>9. acks' # <<>> => acks'[Len(acks')].seq = expected'
  <2>1. SUFFICES ASSUME acks' # <<>> PROVE acks'[Len(acks')].seq = expected'
    OBVIOUS
  <2>2. acks'[Len(acks')] = acks[Len(acks)]
    BY <1>2, <1>3, <1>5, <2>1
  <2> QED
    BY <1>6, <2>2
<1> QED
  BY <1>7, <1>8, <1>9 DEF AcksInOrder

\* The acknowledgement that arrives moves snd_una and is about the first message.
LEMMA ArrivesAck ==
    ASSUME Lossless, LosslessInv, ReceiveAck
    PROVE  /\ messages # <<>> /\ EndSeq \in Nat
           /\ sndUna' = acks[1].seq
           /\ sndUna < sndUna' /\ sndUna' <= expected /\ expected <= sndNxt /\ sndNxt <= EndSeq
           /\ startSeq <= sndUna
           /\ \/ /\ sndUna' < EndSeq
                 /\ UNCHANGED <<messages, startSeq, sndNxt, halted, acked>>
              \/ /\ sndUna' = EndSeq
                 /\ QpCompleteMessage
                 /\ UNCHANGED sndNxt
<1>1. TypeOK /\ acks # <<>>
  BY DEF LosslessInv, ReceiveAck
<1>2. acks \in Seq(Ack) /\ 1 \in 1 .. Len(acks) /\ Head(acks) = acks[1] /\ Head(acks) \in Ack
  BY <1>1 DEF TypeOK
<1>3. Head(acks).seq \in Nat
  BY <1>2 DEF Ack
<1>4. ~Head(acks).nack /\ sndUna < Head(acks).seq /\ Head(acks).seq <= expected
  BY <1>2 DEF LosslessInv, AcksInOrder
<1>5. /\ sndUna \in Nat /\ expected \in Nat /\ sndNxt \in Nat /\ startSeq \in Nat
      /\ messages \in Seq(Nat)
  BY <1>1 DEF TypeOK
<1>6. messages # <<>>
  BY <1>3, <1>4, <1>5 DEF LosslessInv, OneMessage
<1>7. EndSeq \in Nat
  <2>1. Head(messages) \in Nat
    BY <1>5, <1>6
  <2> QED
    BY <1>5, <2>1 DEF EndSeq
<1>8. startSeq <= sndUna /\ expected <= sndNxt /\ sndNxt <= EndSeq
  BY <1>6 DEF LosslessInv, OneMessage
<1>9. Acknowledge(Head(acks).seq) = Head(acks).seq
  BY <1>4 DEF Acknowledge, GoBack, Lossless
<1>10. sndUna' = acks[1].seq
  BY <1>2, <1>9 DEF ReceiveAck
<1>11. IsCurMessageFinished(acks[1].seq) <=> acks[1].seq >= EndSeq
  BY <1>6 DEF IsCurMessageFinished
<1>12. \/ IsCurMessageFinished(acks[1].seq) /\ QpCompleteMessage /\ UNCHANGED sndNxt
       \/ /\ ~IsCurMessageFinished(acks[1].seq)
          /\ UNCHANGED <<messages, startSeq, sndNxt, halted, acked>>
  BY <1>2, <1>4, <1>9 DEF ReceiveAck
<1> QED
  BY <1>2, <1>3, <1>4, <1>5, <1>6, <1>7, <1>8, <1>10, <1>11, <1>12

\* Receiving an acknowledgement
LEMMA AckKeeps ==
    ASSUME Lossless, LosslessInv, ReceiveAck
    PROVE  /\ LosslessInv' /\ UNCHANGED <<pushed, received>>
           /\ \/ acked' = acked
              \/ acked < received /\ acked' = acked + 1
<1>1. TypeOK /\ TypeOK'
  BY ReceiveAckType DEF LosslessInv
<1>2. /\ acks # <<>> /\ acks' = Tail(acks)
      /\ UNCHANGED <<expected, curSize, data, pushed, received>>
  BY DEF ReceiveAck, rcvVars
<1>3. /\ messages # <<>> /\ EndSeq \in Nat
      /\ sndUna' = acks[1].seq
      /\ sndUna < sndUna' /\ sndUna' <= expected /\ expected <= sndNxt /\ sndNxt <= EndSeq
      /\ startSeq <= sndUna
  BY ArrivesAck
<1>4. /\ expected \in Nat /\ sndUna \in Nat /\ sndUna' \in Nat /\ sndNxt \in Nat
      /\ startSeq \in Nat /\ acked \in Nat /\ received \in Nat /\ messages \in Seq(Nat)
  BY <1>1 DEF TypeOK
<1>5. AcksInOrder'
  BY <1>2, <1>3, AcksShift
<1>6. CASE /\ sndUna' < EndSeq
           /\ UNCHANGED <<messages, startSeq, sndNxt, halted, acked>>
  <2>1. EndSeq' = EndSeq
    BY <1>6 DEF EndSeq
  <2>2. DataInOrder'
    BY <1>2, <1>6 DEF LosslessInv, DataInOrder
  <2>3. OneMessage'
    <3>1. \A i \in 1 .. Len(messages') : messages'[i] > 0 /\ messages'[i] < NoSize
      BY <1>6 DEF LosslessInv, OneMessage
    <3>2. messages' # <<>>
      BY <1>3, <1>6
    <3>3. /\ startSeq' <= sndUna' /\ sndUna' < EndSeq'
          /\ sndUna' <= expected' /\ expected' <= sndNxt' /\ sndNxt' <= EndSeq'
      <4>1. startSeq' = startSeq /\ sndNxt' = sndNxt /\ expected' = expected
        BY <1>2, <1>6
      <4> QED
        BY <4>1, <1>3, <1>4, <1>6, <2>1
    <3> QED
      BY <3>1, <3>2, <3>3 DEF OneMessage
  <2>4. CountsDown'
    BY <1>2, <1>6, <2>1 DEF LosslessInv, CountsDown
  <2>5. Announced'
    BY <1>2, <1>6, <2>1 DEF LosslessInv, Announced
  <2> QED
    BY <1>1, <1>2, <1>5, <1>6, <2>2, <2>3, <2>4, <2>5 DEF LosslessInv
<1>7. CASE sndUna' = EndSeq /\ QpCompleteMessage /\ UNCHANGED sndNxt
  <2>1. expected = EndSeq /\ sndNxt = EndSeq
    BY <1>3, <1>4, <1>7
  <2>2. /\ halted' = halted
        /\ messages' = SubSeq(messages, 2, Len(messages))
        /\ startSeq' = IF Len(messages) > 1 THEN sndNxt ELSE startSeq
        /\ acked' = acked + 1
    BY <1>3, <1>7 DEF QpCompleteMessage
  <2>3. /\ Len(messages) \in Nat /\ Len(messages) > 0
        /\ messages' \in Seq(Nat)
        /\ Len(messages') \in Nat /\ Len(messages) = Len(messages') + 1
    <3>1. messages' = Tail(messages)
      BY <1>3, <1>4, <2>2, TailIsSubSeq
    <3> QED
      BY <1>3, <1>4, <3>1
  <2>4. \A i \in 1 .. Len(messages') : messages'[i] = messages[i + 1] /\ i + 1 \in 1 .. Len(messages)
    BY <1>4, <2>2, <2>3
  <2>5. messages' # <<>> => Len(messages) > 1 /\ Head(messages') = messages'[1] /\ 1 \in 1 .. Len(messages')
    BY <2>3, EmptySeq
  <2>6. \A i \in 1 .. Len(messages') : messages'[i] > 0 /\ messages'[i] < NoSize
    BY <2>4 DEF LosslessInv, OneMessage
  <2>7. messages' # <<>> => /\ startSeq' = expected
                            /\ Head(messages') \in Nat /\ Head(messages') > 0
                            /\ EndSeq' = expected + Head(messages')
    BY <2>1, <2>2, <2>3, <2>5, <2>6 DEF EndSeq
  <2>8. DataInOrder'
    <3>1. data = <<>>
      <4>1. SUFFICES ASSUME data # <<>> PROVE FALSE
        OBVIOUS
      <4>2. expected < EndSeq
        BY <4>1, ArrivesExpected
      <4> QED
        BY <1>4, <2>1, <4>2
    <3> QED
      BY <1>2, <1>7, <2>1, <3>1 DEF DataInOrder
  <2>9. OneMessage'
    BY <1>2, <1>4, <1>7, <2>1, <2>6, <2>7 DEF OneMessage
  <2>10. CountsDown'
    <3>1. curSize = NoSize
      BY <1>4, <2>1 DEF LosslessInv, CountsDown
    <3> QED
      BY <1>2, <1>4, <2>7, <3>1 DEF CountsDown
  <2>11. received = acked + 1 /\ pushed = acked + Len(messages)
    BY <1>3, <2>1 DEF LosslessInv, Announced
  <2>12. Announced'
    <3>1. pushed' = acked' + Len(messages') /\ received' = acked'
      <4>1. acked' = acked + 1 /\ pushed' = pushed /\ received' = received
        BY <1>2, <2>2
      <4>2. Len(messages') \in Nat /\ Len(messages) = Len(messages') + 1
        BY <2>3
      <4> QED
        BY <1>4, <2>11, <4>1, <4>2
    <3>2. ~(messages' # <<>> /\ expected' = EndSeq')
      BY <1>2, <1>4, <2>7
    <3> QED
      BY <3>1, <3>2 DEF Announced
  <2> QED
    BY <1>1, <1>2, <1>4, <1>5, <2>2, <2>8, <2>9, <2>10, <2>11, <2>12 DEF LosslessInv
<1> QED
  BY <1>2, <1>6, <1>7, ArrivesAck

\* A step of the queue pair is a step of the channel, or none.
LEMMA LosslessStep ==
    ASSUME Lossless, LosslessInv, [Next]_vars
    PROVE  /\ LosslessInv'
           /\ [Channel!ChanNext]_<<<<pushed>>, <<received>>, <<acked>>>>
<1>0. pushed \in Nat /\ received \in Nat /\ acked \in Nat
  BY TransportAssumption DEF LosslessInv, TypeOK
<1>1. CASE PushMessage
  <2>1. pushed' = pushed + 1 /\ received' = received /\ acked' = acked /\ LosslessInv'
    BY <1>1, PushKeeps DEF PushMessage
  <2>2. Channel!Push(1)
    BY <1>0, <2>1 DEF Channel!Push
  <2> QED
    BY <2>1, <2>2 DEF Channel!ChanNext
<1>2. CASE GetNxtPacket
  BY <1>2, SendKeeps DEF chanVars
<1>3. CASE ReceiveUdp
  <2>1. LosslessInv' /\ UNCHANGED <<pushed, acked>>
    BY <1>3, TakeKeeps
  <2>2. CASE received' = received
    BY <2>1, <2>2
  <2>3. CASE received < pushed /\ received' = received + 1
    <3>1. Channel!RxComplete(1)
      BY <1>0, <2>1, <2>3 DEF Channel!RxComplete
    <3> QED
      BY <2>1, <3>1 DEF Channel!ChanNext
  <2> QED
    BY <1>3, <2>2, <2>3, TakeKeeps
<1>4. CASE ReceiveAck
  <2>1. LosslessInv' /\ UNCHANGED <<pushed, received>>
    BY <1>4, AckKeeps
  <2>2. CASE acked' = acked
    BY <2>1, <2>2
  <2>3. CASE acked < received /\ acked' = acked + 1
    <3>1. Channel!TxComplete(1)
      BY <1>0, <2>1, <2>3 DEF Channel!TxComplete
    <3> QED
      BY <2>1, <3>1 DEF Channel!ChanNext
  <2> QED
    BY <1>4, <2>2, <2>3, AckKeeps
<1>5. CASE LosePacket \/ LoseAck
  <2>1. ~(losses < MaxLoss)
    BY DEF LosslessInv, TypeOK, Lossless
  <2> QED
    BY <1>5, <2>1 DEF LosePacket, LoseAck
<1>6. CASE UNCHANGED vars
  <2>1. /\ UNCHANGED <<messages, startSeq, sndNxt, sndUna, expected, curSize, lastNack>>
        /\ UNCHANGED <<data, acks, losses, halted, pushed, received, acked>>
    BY <1>6 DEF vars, sndVars, rcvVars, chanVars
  <2> QED
    BY <2>1 DEF LosslessInv, TypeOK, DataInOrder, AcksInOrder, OneMessage, CountsDown,
                Announced, EndSeq
<1> QED
  BY <1>1, <1>2, <1>3, <1>4, <1>5, <1>6 DEF Next

LEMMA LosslessStart == Init => LosslessInv
<1>1. ASSUME Init PROVE LosslessInv
  <2>1. TypeOK
    BY <1>1, InitType
  <2> QED
    BY <1>1, <2>1 DEF Init, LosslessInv, DataInOrder, AcksInOrder, OneMessage, CountsDown,
                      Announced
<1> QED
  BY <1>1

\* On a network that loses nothing a queue pair keeps the promise of MessageChannel,
\* for every program, MTU and window: what a client pushes is announced to the
\* receiver once, and then to the sender once.
THEOREM ImplementsChannel ==
    ASSUME Lossless
    PROVE  Spec => ChannelSpec
<1>1. Init => Channel!ChanInit
  BY DEF Init, Channel!ChanInit
<1>2. LosslessInv /\ [Next]_vars => LosslessInv'
  BY LosslessStep
<1>3. LosslessInv /\ [Next]_vars
      => [Channel!ChanNext]_(Channel!chanVars)
  BY LosslessStep DEF Channel!chanVars
<1> QED
  BY <1>1, <1>2, <1>3, LosslessStart, PTL DEF Spec, ChannelSpec, Channel!ChanSpec

\* On such a network the assertion on the message size never fails, and the receiver
\* counts every message down exactly, for every program, MTU and window.
THEOREM CountsExactly ==
    ASSUME Lossless
    PROVE  Spec => [](SizeCoversPacket /\ CountsDown)
<1>1. LosslessInv /\ [Next]_vars => LosslessInv'
  BY LosslessStep
<1>2. LosslessInv => SizeCoversPacket /\ CountsDown
  BY DEF LosslessInv, SizeCoversPacket
<1> QED
  BY <1>1, <1>2, LosslessStart, PTL DEF Spec
=============================================================================
