----------------------------- MODULE NicEgress -----------------------------
(***************************************************************************)
(* The transmitter of a host: QbbNetDevice with its RdmaEgressQueue.  It   *)
(* sends acknowledgements before data, and data of the queue pairs in      *)
(* turn.  A queue pair may send when it has bytes left, its class is not   *)
(* paused, its window is open and its pacing gap has passed (m_nextAvail,  *)
(* set by RdmaHw::PktSent).  Nothing polls the queues: every event that    *)
(* can make a packet sendable calls DequeueAndTransmit, and when all that  *)
(* is missing is time, DequeueAndTransmit schedules itself (m_nextSend).   *)
(*                                                                         *)
(* Time is counted in ticks.  The variable called says that the event just *)
(* handled ends in a call of DequeueAndTransmit, which runs next.          *)
(*                                                                         *)
(* A message is a number of packets.  A queue pair that has completed its  *)
(* message takes the next one, pushed then or before (PushMessage,         *)
(* QpCompleteMessage).  Only the mode QP_AVAIL, the default, is modelled.  *)
(***************************************************************************)
EXTENDS Integers

CONSTANTS
    N,              \* queue pairs of the device (RdmaQueuePairGroup)
    Class,          \* priority classes
    Pg,             \* Pg[q]: m_pg of queue pair q
    AckClass,       \* ack_q_idx: the class whose PAUSE stops acknowledgements
    TxTime,         \* ticks to transmit a data packet, with the gap after it
    AckTime,        \* the same for an acknowledgement
    Gaps,           \* ticks between two packets of a queue pair, by its rate
    Win,            \* window in packets, 0 for none
    MaxMessage,     \* bound: packets of a message
    MaxAcks         \* bound: acknowledgements waiting

Qp == 0 .. N - 1

ASSUME NicAssumption ==
    /\ N \in Nat
    /\ Pg \in [Qp -> Class]
    /\ AckClass \in Class
    /\ TxTime \in Nat \ {0} /\ AckTime \in Nat \ {0}
    /\ Gaps \subseteq Nat \ {0}
    /\ Win \in Nat
    /\ MaxMessage \in Nat /\ MaxAcks \in Nat

VARIABLES
    left,           \* GetBytesLeft of the current message, in packets
    flight,         \* GetOnTheFly, in packets
    avail,          \* ticks until m_nextAvail, 0 once it has passed
    ackQ,           \* length of m_ackQ
    paused,         \* m_paused
    rrlast,         \* m_rrlast
    tx,             \* ticks until TransmitComplete, or Off when READY
    wake,           \* ticks until m_nextSend, or Off when it has expired
    called,         \* DequeueAndTransmit is being called
    skipped         \* for NoBypass: packets sent while the queue pair could send

qpVars   == <<left, flight>>
sendVars == <<avail, rrlast, tx, wake, skipped>>
vars == <<qpVars, sendVars, ackQ, paused, called>>

Off == -1

Init ==
    /\ left    = [q \in Qp |-> 0]
    /\ flight  = [q \in Qp |-> 0]
    /\ avail   = [q \in Qp |-> 0]
    /\ ackQ    = 0
    /\ paused  = [c \in Class |-> FALSE]
    /\ rrlast  = 0
    /\ tx      = Off
    /\ wake    = Off
    /\ called  = FALSE
    /\ skipped = [q \in Qp |-> 0]

----------------------------------------------------------------------------
\* DequeueAndTransmit with RdmaEgressQueue::DoRoundRobin.  Names ending in
\* First, Asleep and Quiet are wrong variants for the mutants of the project; the
\* specification does not use them.

IsWinBound(q) == Win # 0 /\ flight[q] >= Win
AckSendable == ackQ > 0 /\ ~paused[AckClass]
\* All but the pacing gap
Sendable(q) == left[q] > 0 /\ ~paused[Pg[q]] /\ ~IsWinBound(q)
Available(q) == Sendable(q) /\ avail[q] = 0

InTurnFirst(q) == \A r \in Qp : Available(r) => q <= r
\* A round that starts behind queue pair last ends with it.
Turn(last, q) == IF q > last THEN q - last - 1 ELSE q - last - 1 + N
InTurn(q) == \A r \in Qp : Available(r) => Turn(rrlast, q) <= Turn(rrlast, r)

Busy ==
    /\ tx # Off
    /\ UNCHANGED <<qpVars, sendVars, ackQ>>

TransmitAck ==
    /\ tx = Off
    /\ AckSendable
    /\ ackQ' = ackQ - 1
    /\ tx' = AckTime
    /\ UNCHANGED <<qpVars, avail, rrlast, wake, skipped>>

\* With PktSent and UpdateNextAvail
TransmitData(q) ==
    /\ tx = Off
    /\ ~AckSendable
    /\ Available(q) /\ InTurn(q)
    /\ left' = [left EXCEPT ![q] = @ - 1]
    /\ flight' = [flight EXCEPT ![q] = @ + 1]
    /\ \E gap \in Gaps : avail' = [avail EXCEPT ![q] = gap]
    /\ rrlast' = q
    /\ tx' = TxTime
    /\ skipped' = [r \in Qp |-> IF r # q /\ Available(r) THEN skipped[r] + 1 ELSE 0]
    /\ UNCHANGED <<wake, ackQ>>

\* Nothing can be sent now.  The earliest m_nextAvail of all queue pairs, idle and
\* paused ones included, is the time of the wake-up, if it is still to come.
NothingToSend == tx = Off /\ ~AckSendable /\ \A q \in Qp : ~Available(q)
NeedsWake == wake = Off /\ Qp # {} /\ \A q \in Qp : avail[q] > 0

NoPacketAsleep ==
    /\ NothingToSend
    /\ UNCHANGED <<qpVars, sendVars, ackQ>>
NoPacket ==
    /\ NothingToSend
    /\ \/ /\ NeedsWake
          /\ \E q \in Qp : /\ \A r \in Qp : avail[q] <= avail[r]
                          /\ wake' = avail[q]
       \/ /\ ~NeedsWake
          /\ UNCHANGED wake
    /\ UNCHANGED <<qpVars, avail, rrlast, tx, skipped, ackQ>>

DequeueAndTransmit ==
    /\ called
    /\ called' = FALSE
    /\ UNCHANGED paused
    /\ Busy \/ TransmitAck \/ NoPacket \/ \E q \in Qp : TransmitData(q)

----------------------------------------------------------------------------
\* The events

TransmitComplete ==
    /\ tx = 0
    /\ tx' = Off
    /\ called' = TRUE
    /\ UNCHANGED <<qpVars, avail, rrlast, wake, skipped, ackQ, paused>>

\* The scheduled DequeueAndTransmit
NextSend ==
    /\ wake = 0
    /\ wake' = Off
    /\ called' = TRUE
    /\ UNCHANGED <<qpVars, avail, rrlast, tx, skipped, ackQ, paused>>

\* RdmaClient::PushMessagetoQp, or QpCompleteMessage with another message
PushMessage(q) ==
    /\ left[q] = 0 /\ flight[q] = 0
    /\ \E n \in 1 .. MaxMessage : left' = [left EXCEPT ![q] = n]
    /\ called' = TRUE
    /\ UNCHANGED <<flight, sendVars, ackQ, paused>>

\* RdmaHw::ReceiveAck.  One that completes the message calls TriggerTransmit only
\* when there is another message.
ReceiveAck(q) ==
    \E n \in 1 .. flight[q] :
        /\ flight' = [flight EXCEPT ![q] = @ - n]
        /\ called' = (left[q] > 0 \/ flight[q] > n)
        /\ UNCHANGED <<left, sendVars, ackQ, paused>>

\* The same of a NACK: what it does not acknowledge is sent again.  A NACK that
\* acknowledges everything does what an ACK does.
ReceiveNack(q) ==
    \E n \in 1 .. flight[q] :
        /\ left' = [left EXCEPT ![q] = @ + n]
        /\ flight' = [flight EXCEPT ![q] = 0]
        /\ called' = TRUE
        /\ UNCHANGED <<sendVars, ackQ, paused>>

\* RdmaHw::ReceiveUdp: RdmaEnqueueHighPrioQ and TriggerTransmit
EnqueueAck ==
    /\ ackQ < MaxAcks
    /\ ackQ' = ackQ + 1
    /\ called' = TRUE
    /\ UNCHANGED <<qpVars, sendVars, paused>>

\* QbbNetDevice::Receive of a PFC frame
ReceivePause(c) ==
    /\ ~paused[c]
    /\ paused' = [paused EXCEPT ![c] = TRUE]
    /\ UNCHANGED <<qpVars, sendVars, ackQ, called>>

ResumeQuiet(c) ==
    /\ paused[c]
    /\ paused' = [paused EXCEPT ![c] = FALSE]
    /\ UNCHANGED <<qpVars, sendVars, ackQ, called>>
Resume(c) ==
    /\ paused[c]
    /\ paused' = [paused EXCEPT ![c] = FALSE]
    /\ called' = TRUE
    /\ UNCHANGED <<qpVars, sendVars, ackQ>>

\* RdmaCongestionOps::ChangeRate.  The gap that runs is not shortened.
ChangeRate ==
    /\ called' = TRUE
    /\ UNCHANGED <<qpVars, sendVars, ackQ, paused>>

Less(t) == IF t > 0 THEN t - 1 ELSE t
\* Time passes when no event is due.
Tick ==
    /\ tx # 0 /\ wake # 0
    /\ avail' = [q \in Qp |-> Less(avail[q])]
    /\ tx' = Less(tx)
    /\ wake' = Less(wake)
    /\ UNCHANGED <<qpVars, rrlast, skipped, ackQ, paused, called>>

Event ==
    \/ TransmitComplete \/ NextSend \/ EnqueueAck \/ ChangeRate \/ Tick
    \/ \E q \in Qp : PushMessage(q) \/ ReceiveAck(q) \/ ReceiveNack(q)
    \/ \E c \in Class : ReceivePause(c) \/ Resume(c)

Next == DequeueAndTransmit \/ (~called /\ Event)

Spec == Init /\ [][Next]_vars

----------------------------------------------------------------------------
\* Every variable has its type, and no queue pair has more than its window on the
\* fly (IsWinBound).
TypeOK ==
    /\ left \in [Qp -> Nat]
    /\ flight \in [Qp -> Nat]
    /\ \A q \in Qp : Win # 0 => flight[q] <= Win
    /\ avail \in [Qp -> Nat]
    /\ ackQ \in Nat
    /\ paused \in [Class -> BOOLEAN]
    /\ N > 0 => rrlast \in Qp
    /\ tx \in Nat \cup {Off}
    /\ wake \in Nat \cup {Off}
    /\ called \in BOOLEAN
    /\ skipped \in [Qp -> Nat]

\* While the transmitter is READY a packet that may be sent but for its gap has a
\* wake-up scheduled, unless another queue pair hides it: one whose m_nextAvail has
\* passed makes the earliest one useless (DequeueAndTransmit).
WakeUnlessHidden ==
    ~called /\ tx = Off =>
        \A q \in Qp : Sendable(q) =>
            wake # Off \/ \E r \in Qp \ {q} : avail[r] = 0

\* The transmitter is never idle while the gap of a queue pair with something to
\* send has passed: m_nextAvail is the "soonest time of next send".
SentWhenAvailable ==
    ~called /\ tx = Off /\ wake # 0 => \A q \in Qp : ~Available(q)

\* While the transmitter is READY no acknowledgement waits in a class that is not
\* paused: every way an acknowledgement can become sendable ends in a call.
AcksNotHeld == ~called /\ tx = Off => ~AckSendable

\* Turns are fair: of the packets sent while queue pair q could send as well, at
\* most one belongs to each other queue pair (m_rrlast in DoRoundRobin).
NoBypass == \A q \in Qp : skipped[q] < N
=============================================================================
