-------------------------- MODULE NicEgressProofs --------------------------
(***************************************************************************)
(* Proofs about NicEgress, for any number of queue pairs, classes, rates   *)
(* and any window.                                                         *)
(*                                                                         *)
(* TypeOK, WakeUnlessHidden and AcksNotHeld are inductive together.        *)
(* NoBypass is not: it needs Turns, which says that the packets sent past  *)
(* a queue pair and the queue pairs still before it in the round are       *)
(* fewer than N together.                                                  *)
(***************************************************************************)
EXTENDS NicEgress, TLAPS

Turns == \A q \in Qp : skipped[q] + Turn(rrlast, q) < N

NicInv == TypeOK /\ WakeUnlessHidden /\ AcksNotHeld /\ Turns

\* One step of the transmitter, without the call that led to it
Transmitter == Busy \/ TransmitAck \/ NoPacket \/ \E q \in Qp : TransmitData(q)

----------------------------------------------------------------------------
\* The place of a queue pair in the round is one of 0 .. N - 1.
LEMMA TurnBounds ==
    ASSUME NEW last \in Qp, NEW q \in Qp
    PROVE  Turn(last, q) \in Nat /\ Turn(last, q) < N
<1>1. N \in Nat /\ q \in 0 .. N - 1 /\ last \in 0 .. N - 1
  BY NicAssumption DEF Qp
<1> QED
  BY <1>1 DEF Turn

\* When queue pair q has had its turn, every other one moves up in the round.
LEMMA TurnMoves ==
    ASSUME NEW last \in Qp, NEW q \in Qp, NEW r \in Qp, r # q,
           Turn(last, q) <= Turn(last, r)
    PROVE  Turn(q, r) < Turn(last, r)
<1>1. N \in Nat /\ q \in 0 .. N - 1 /\ r \in 0 .. N - 1 /\ last \in 0 .. N - 1
  BY NicAssumption DEF Qp
<1> QED
  BY <1>1 DEF Turn

LEMMA InitHolds == Init => NicInv
<1> SUFFICES ASSUME Init PROVE NicInv
  OBVIOUS
<1>1. TypeOK
  <2>1. N \in Nat /\ (N > 0 => 0 \in Qp)
    BY NicAssumption DEF Qp
  <2>2. paused \in [Class -> BOOLEAN]
    BY DEF Init
  <2>3. \A q \in Qp : Win # 0 => flight[q] <= Win
    BY NicAssumption DEF Init
  <2> QED
    BY <2>1, <2>2, <2>3 DEF Init, TypeOK, Off
<1>2. WakeUnlessHidden
  BY DEF Init, WakeUnlessHidden, Sendable
<1>3. AcksNotHeld
  BY DEF Init, AcksNotHeld, AckSendable
<1>4. \A q \in Qp : skipped[q] = 0
  BY DEF Init
<1>5. Turns
  <2> SUFFICES ASSUME NEW q \in Qp PROVE skipped[q] + Turn(rrlast, q) < N
    BY DEF Turns
  <2>1. rrlast \in Qp
    BY <1>1, NicAssumption DEF TypeOK, Qp
  <2>2. Turn(rrlast, q) \in Nat /\ Turn(rrlast, q) < N
    BY <2>1, TurnBounds
  <2> QED
    BY <1>4, <2>2
<1> QED
  BY <1>1, <1>2, <1>3, <1>5 DEF NicInv

----------------------------------------------------------------------------
\* Types

\* A step of the transmitter keeps the types.
LEMMA TransmitterType ==
    ASSUME TypeOK, DequeueAndTransmit
    PROVE  TypeOK'
<1>1. called' \in BOOLEAN /\ paused' = paused /\ Transmitter
  BY DEF DequeueAndTransmit, Transmitter
<1>2. N \in Nat /\ Win \in Nat /\ TxTime \in Nat /\ AckTime \in Nat
  BY NicAssumption
<1>3. CASE Busy
  BY <1>1, <1>3 DEF TypeOK, Busy, qpVars, sendVars
<1>4. CASE TransmitAck
  <2>1. ackQ' \in Nat /\ tx' \in Nat
    BY <1>2, <1>4 DEF TypeOK, TransmitAck, AckSendable
  <2> QED
    BY <1>1, <1>4, <2>1 DEF TypeOK, TransmitAck, qpVars
<1>5. CASE NoPacket
  <2>1. wake' \in Nat \cup {Off}
    <3>1. CASE UNCHANGED wake
      BY <3>1 DEF TypeOK
    <3>2. CASE \E q \in Qp : wake' = avail[q]
      BY <3>2 DEF TypeOK
    <3> QED
      BY <1>5, <3>1, <3>2 DEF NoPacket
  <2> QED
    BY <1>1, <1>5, <2>1 DEF TypeOK, NoPacket, qpVars
<1>6. ASSUME NEW q \in Qp, TransmitData(q) PROVE TypeOK'
  <2>1. left[q] \in Nat /\ left[q] > 0 /\ flight[q] \in Nat /\ ~IsWinBound(q)
    BY <1>6 DEF TypeOK, TransmitData, Available, Sendable
  <2>2. left' \in [Qp -> Nat]
    BY <1>6, <2>1 DEF TypeOK, TransmitData
  <2>3. /\ flight' \in [Qp -> Nat]
        /\ \A r \in Qp : Win # 0 => flight'[r] <= Win
    BY <1>2, <1>6, <2>1 DEF TypeOK, TransmitData, IsWinBound
  <2>4. avail' \in [Qp -> Nat]
    BY <1>6, NicAssumption DEF TypeOK, TransmitData
  <2>5. skipped' \in [Qp -> Nat]
    BY <1>6 DEF TypeOK, TransmitData
  <2>6. rrlast' \in Qp /\ tx' \in Nat /\ wake' = wake /\ ackQ' = ackQ
    BY <1>2, <1>6 DEF TransmitData
  <2> QED
    BY <1>1, <2>2, <2>3, <2>4, <2>5, <2>6 DEF TypeOK
<1> QED
  BY <1>1, <1>3, <1>4, <1>5, <1>6 DEF Transmitter

\* So does an event.
LEMMA EventType ==
    ASSUME TypeOK, ~called, Event
    PROVE  TypeOK'
<1>1. CASE TransmitComplete
  BY <1>1 DEF TypeOK, TransmitComplete, qpVars
<1>2. CASE NextSend
  BY <1>2 DEF TypeOK, NextSend, qpVars
<1>3. CASE EnqueueAck
  BY <1>3 DEF TypeOK, EnqueueAck, qpVars, sendVars
<1>4. CASE ChangeRate
  BY <1>4 DEF TypeOK, ChangeRate, qpVars, sendVars
<1>5. CASE Tick
  <2>1. avail' \in [Qp -> Nat]
    BY <1>5 DEF TypeOK, Tick, Less
  <2>2. tx' \in Nat \cup {Off} /\ wake' \in Nat \cup {Off}
    BY <1>5 DEF TypeOK, Tick, Less, Off
  <2> QED
    BY <1>5, <2>1, <2>2 DEF TypeOK, Tick, qpVars
<1>6. ASSUME NEW q \in Qp, PushMessage(q) PROVE TypeOK'
  <2>1. left' \in [Qp -> Nat]
    BY <1>6, NicAssumption DEF TypeOK, PushMessage
  <2> QED
    BY <1>6, <2>1 DEF TypeOK, PushMessage, sendVars
<1>7. ASSUME NEW q \in Qp, ReceiveAck(q) PROVE TypeOK'
  <2>1. flight[q] \in Nat /\ Win \in Nat
    BY NicAssumption DEF TypeOK
  <2>2. PICK n \in 1 .. flight[q] : flight' = [flight EXCEPT ![q] = @ - n]
    BY <1>7 DEF ReceiveAck
  <2>3. flight' \in [Qp -> Nat]
    BY <2>1, <2>2 DEF TypeOK
  <2>4. \A r \in Qp : Win # 0 => flight'[r] <= Win
    BY <2>1, <2>2 DEF TypeOK
  <2>5. called' \in BOOLEAN /\ UNCHANGED <<left, sendVars, ackQ, paused>>
    BY <1>7 DEF ReceiveAck
  <2> QED
    BY <2>3, <2>4, <2>5 DEF TypeOK, sendVars
<1>8. ASSUME NEW q \in Qp, ReceiveNack(q) PROVE TypeOK'
  <2>1. PICK n \in 1 .. flight[q] : left' = [left EXCEPT ![q] = @ + n]
    BY <1>8 DEF ReceiveNack
  <2>2. n \in Nat
    BY DEF TypeOK
  <2>3. left' \in [Qp -> Nat]
    BY <2>1, <2>2 DEF TypeOK
  <2>4. flight' = [flight EXCEPT ![q] = 0] /\ called' /\ UNCHANGED <<sendVars, ackQ, paused>>
    BY <1>8 DEF ReceiveNack
  <2>5. /\ flight' \in [Qp -> Nat]
        /\ \A r \in Qp : Win # 0 => flight'[r] <= Win
    BY <2>4, NicAssumption DEF TypeOK
  <2> QED
    BY <2>3, <2>4, <2>5 DEF TypeOK, sendVars
<1>9. ASSUME NEW c \in Class, ReceivePause(c) \/ Resume(c) PROVE TypeOK'
  <2>1. paused' \in [Class -> BOOLEAN]
    BY <1>9, Zenon DEF TypeOK, ReceivePause, Resume
  <2>2. called' \in BOOLEAN /\ UNCHANGED <<qpVars, sendVars, ackQ>>
    BY <1>9 DEF ReceivePause, Resume, TypeOK
  <2> QED
    BY <2>1, <2>2 DEF TypeOK, qpVars, sendVars
<1> QED
  BY <1>1, <1>2, <1>3, <1>4, <1>5, <1>6, <1>7, <1>8, <1>9 DEF Event

----------------------------------------------------------------------------
\* What DequeueAndTransmit leaves behind

\* When it leaves the transmitter READY, nothing can be sent, and what waits for
\* its gap has a wake-up or is hidden.
LEMMA AfterTransmitter ==
    ASSUME TypeOK, DequeueAndTransmit
    PROVE  WakeUnlessHidden' /\ AcksNotHeld'
<1>1. paused' = paused /\ Transmitter
  BY DEF DequeueAndTransmit, Transmitter
<1>2. TxTime \in Nat /\ AckTime \in Nat
  BY NicAssumption
<1>3. CASE tx' # Off
  BY <1>3 DEF WakeUnlessHidden, AcksNotHeld
<1>4. CASE NoPacket
  <2>1. /\ UNCHANGED <<left, flight, avail, tx, ackQ>>
        /\ NothingToSend
    BY <1>4 DEF NoPacket, qpVars
  <2>2. AcksNotHeld'
    BY <1>1, <2>1 DEF AcksNotHeld, AckSendable, NothingToSend
  <2>3. ASSUME NEW q \in Qp, Sendable(q)
        PROVE  wake' # Off \/ \E r \in Qp \ {q} : avail'[r] = 0
    <3>1. avail[q] > 0 /\ avail \in [Qp -> Nat]
      BY <2>1, <2>3 DEF NothingToSend, Available, TypeOK
    <3>2. CASE NeedsWake
      BY <1>4, <3>2, <3>1 DEF NoPacket, Off, NeedsWake
    <3>3. CASE ~NeedsWake
      <4>1. wake' = wake
        BY <1>4, <3>3 DEF NoPacket
      <4>2. wake # Off \/ \E r \in Qp : ~(avail[r] > 0)
        BY <3>3 DEF NeedsWake
      <4>3. \A r \in Qp : ~(avail[r] > 0) => avail[r] = 0 /\ r # q
        BY <3>1
      <4> QED
        BY <2>1, <4>1, <4>2, <4>3
    <3> QED
      BY <3>2, <3>3
  <2>4. \A q \in Qp : Sendable(q)' <=> Sendable(q)
    BY <1>1, <2>1 DEF Sendable, IsWinBound
  <2>5. WakeUnlessHidden'
    BY <2>3, <2>4 DEF WakeUnlessHidden
  <2> QED
    BY <2>2, <2>5
<1>5. CASE ~NoPacket
  <2>1. tx' # Off
    BY <1>1, <1>2, <1>5 DEF Transmitter, Busy, TransmitAck, TransmitData, sendVars, Off
  <2> QED
    BY <1>3, <2>1
<1> QED
  BY <1>4, <1>5

\* An event that ends in no call makes nothing sendable.
LEMMA AfterEvent ==
    ASSUME TypeOK, WakeUnlessHidden, AcksNotHeld, ~called, Event
    PROVE  WakeUnlessHidden' /\ AcksNotHeld'
<1>1. CASE called'
  BY <1>1 DEF WakeUnlessHidden, AcksNotHeld
<1>2. CASE Tick
  <2>1. /\ UNCHANGED <<left, flight, ackQ, paused, called>>
        /\ tx' = Off => tx = Off
        /\ wake # Off => wake' # Off
        /\ \A q \in Qp : avail[q] = 0 => avail'[q] = 0
    BY <1>2 DEF Tick, Less, qpVars, TypeOK, Off
  <2>2. \A q \in Qp : Sendable(q)' <=> Sendable(q)
    BY <2>1 DEF Sendable, IsWinBound
  <2>3. WakeUnlessHidden'
    BY <2>1, <2>2 DEF WakeUnlessHidden
  <2>4. AcksNotHeld'
    BY <2>1 DEF AcksNotHeld, AckSendable
  <2> QED
    BY <2>3, <2>4
<1>3. ASSUME NEW c \in Class, ReceivePause(c) PROVE WakeUnlessHidden' /\ AcksNotHeld'
  <2>1. UNCHANGED <<left, flight, avail, ackQ, tx, wake, called>>
    BY <1>3 DEF ReceivePause, qpVars, sendVars
  <2>2. \A d \in Class : ~paused'[d] => ~paused[d]
    BY <1>3, Zenon DEF ReceivePause, TypeOK
  <2>3. \A q \in Qp : Sendable(q)' => Sendable(q)
    BY <2>1, <2>2, NicAssumption DEF Sendable, IsWinBound
  <2>4. WakeUnlessHidden'
    BY <2>1, <2>3 DEF WakeUnlessHidden
  <2>5. AcksNotHeld'
    BY <2>1, <2>2, NicAssumption DEF AcksNotHeld, AckSendable
  <2> QED
    BY <2>4, <2>5
<1>4. ASSUME NEW p \in Qp, ReceiveAck(p), ~called'
      PROVE  WakeUnlessHidden' /\ AcksNotHeld'
  <2>1. /\ UNCHANGED <<left, avail, ackQ, paused, tx, wake>>
        /\ ~(left[p] > 0)
        /\ \A q \in Qp : q # p => flight'[q] = flight[q]
    BY <1>4 DEF ReceiveAck, sendVars, TypeOK
  <2>2. \A q \in Qp : Sendable(q)' => Sendable(q)
    BY <2>1 DEF Sendable, IsWinBound
  <2>3. WakeUnlessHidden'
    BY <2>1, <2>2 DEF WakeUnlessHidden
  <2>4. AcksNotHeld'
    BY <2>1 DEF AcksNotHeld, AckSendable
  <2> QED
    BY <2>3, <2>4
<1> QED
  BY <1>1, <1>2, <1>3, <1>4
     DEF Event, TransmitComplete, NextSend, EnqueueAck, ChangeRate, PushMessage,
         ReceiveNack, Resume

----------------------------------------------------------------------------
\* A packet sent past a queue pair brings it nearer in the round.
LEMMA TurnsKept ==
    ASSUME TypeOK, Turns, [Next]_vars
    PROVE  Turns'
<1>1. CASE \E q \in Qp : TransmitData(q)
  <2> SUFFICES ASSUME NEW r \in Qp PROVE skipped'[r] + Turn(rrlast', r) < N
    BY DEF Turns
  <2>1. PICK q \in Qp : TransmitData(q)
    BY <1>1
  <2>2. /\ rrlast' = q
        /\ InTurn(q)
        /\ skipped'[r] = IF r # q /\ Available(r) THEN skipped[r] + 1 ELSE 0
    BY <2>1 DEF TransmitData
  <2>3. Turn(q, r) \in Nat /\ Turn(q, r) < N
    BY TurnBounds
  <2>4. rrlast \in Qp
    BY <2>2, NicAssumption DEF TypeOK, Qp
  <2>5. /\ Turn(rrlast, r) \in Nat /\ skipped[r] \in Nat /\ N \in Nat
        /\ skipped[r] + Turn(rrlast, r) < N
    BY <2>4, TurnBounds, NicAssumption DEF TypeOK, Turns
  <2>6. CASE r # q /\ Available(r)
    <3>1. Turn(rrlast, q) <= Turn(rrlast, r)
      BY <2>2, <2>6 DEF InTurn
    <3>2. Turn(q, r) < Turn(rrlast, r)
      BY <2>4, <2>6, <3>1, TurnMoves
    <3> QED
      BY <2>2, <2>3, <2>5, <2>6, <3>2
  <2>7. CASE ~(r # q /\ Available(r))
    BY <2>2, <2>3, <2>7
  <2> QED
    BY <2>6, <2>7
<1>2. CASE UNCHANGED <<rrlast, skipped>>
  BY <1>2 DEF Turns
<1>3. (\E q \in Qp : TransmitData(q)) \/ UNCHANGED <<rrlast, skipped>>
  BY DEF Next, DequeueAndTransmit, Busy, TransmitAck, NoPacket, Event, TransmitComplete,
         NextSend, PushMessage, ReceiveAck, ReceiveNack, EnqueueAck, ReceivePause, Resume,
         ChangeRate, Tick, sendVars, vars
<1> QED
  BY <1>1, <1>2, <1>3

LEMMA StepKeeps == NicInv /\ [Next]_vars => NicInv'
<1> SUFFICES ASSUME NicInv, [Next]_vars PROVE NicInv'
  OBVIOUS
<1>1. TypeOK' /\ WakeUnlessHidden' /\ AcksNotHeld'
  <2>1. CASE DequeueAndTransmit
    BY <2>1, TransmitterType, AfterTransmitter DEF NicInv
  <2>2. CASE ~called /\ Event
    BY <2>2, EventType, AfterEvent DEF NicInv
  <2>3. CASE UNCHANGED vars
    <3>1. UNCHANGED <<left, flight, avail, rrlast, tx, wake, skipped, ackQ, paused, called>>
      BY <2>3 DEF vars, qpVars, sendVars
    <3> QED
      BY <3>1 DEF NicInv, TypeOK, WakeUnlessHidden, AcksNotHeld, Sendable, IsWinBound,
                  AckSendable
  <2> QED
    BY <2>1, <2>2, <2>3 DEF Next
<1>2. Turns'
  BY TurnsKept DEF NicInv
<1> QED
  BY <1>1, <1>2 DEF NicInv

LEMMA Invariance == Spec => []NicInv
  BY InitHolds, StepKeeps, PTL DEF Spec

----------------------------------------------------------------------------
\* Every variable keeps its type and no queue pair exceeds its window.
THEOREM TypeCorrect == Spec => []TypeOK
<1>1. NicInv => TypeOK
  BY DEF NicInv
<1> QED
  BY <1>1, Invariance, PTL

\* A READY transmitter with something to send, but for its gap, has a wake-up
\* scheduled or a queue pair that hides it.
THEOREM WakeScheduled == Spec => []WakeUnlessHidden
<1>1. NicInv => WakeUnlessHidden
  BY DEF NicInv
<1> QED
  BY <1>1, Invariance, PTL

\* No acknowledgement waits at a READY transmitter unless its class is paused.
THEOREM AcksLeave == Spec => []AcksNotHeld
<1>1. NicInv => AcksNotHeld
  BY DEF NicInv
<1> QED
  BY <1>1, Invariance, PTL

\* The round-robin is fair.
THEOREM FairTurns == Spec => []NoBypass
<1>1. ASSUME NicInv PROVE NoBypass
  <2> SUFFICES ASSUME NEW q \in Qp PROVE skipped[q] < N
    BY DEF NoBypass
  <2>1. TypeOK /\ skipped[q] + Turn(rrlast, q) < N
    BY <1>1 DEF NicInv, Turns
  <2>2. rrlast \in Qp /\ N \in Nat /\ skipped[q] \in Nat
    BY <2>1, NicAssumption DEF TypeOK, Qp
  <2>3. Turn(rrlast, q) \in Nat
    BY <2>2, TurnBounds
  <2> QED
    BY <2>1, <2>2, <2>3
<1> QED
  BY <1>1, Invariance, PTL
=============================================================================
