----------------------------- MODULE SwitchPort -----------------------------
(***************************************************************************)
(* A switch with its ports: SwitchMmu, the egress queues of every port     *)
(* (BEgressQueue) and their transmitters (QbbNetDevice of a switch).  The  *)
(* sender at the other end of a port obeys the PFC frames it receives;     *)
(* what it had sent before still arrives.                                  *)
(*                                                                         *)
(* Sending is nested.  The departure of a packet may send RESUME to the    *)
(* port it came in by, from inside the call and before its own             *)
(* transmission starts; an arrival may send PAUSE before the packet goes   *)
(* to its own port.  The variable calls holds what is left to run, the     *)
(* innermost first; one action runs the first.                             *)
(*                                                                         *)
(* The queues of a port are unbounded (1000 MiB in the code, more than the *)
(* memory of a switch).  NVSwitchNode uses the same MMU but sends no PFC;  *)
(* it is not modelled here.                                                *)
(***************************************************************************)
EXTENDS SwitchMmu, Sequences

CONSTANTS
    QCnt,           \* qCnt: classes 0 .. QCnt - 1
    Flow,           \* <<in, out, c>>: packets of class c from port in leave by port out
    Flight,         \* packets that arrive after their sender was stopped
    MaxFrames,      \* bound: nothing arrives from a sender with so many frames to come
    MaxDisturbances \* bound: PAUSEs from the next hops, and control packets

\* Routes lead nearer to the destination (CalculateRoute): no packet leaves by
\* the port it came from.
ASSUME SwitchPortAssumption ==
    /\ Class \subseteq 1 .. QCnt - 1
    /\ Flow \subseteq {f \in Port \X Port \X Class : f[1] # f[2]}
    /\ Flight \in Nat /\ MaxFrames \in Nat /\ MaxDisturbances \in Nat

VARIABLES
    queue,          \* queue[out][c]: m_queues of class c, <<port of arrival, size>>
    control,        \* control[out]: the queue of class 0
    halted,         \* halted[out][c]: m_paused of the device
    rrlast,         \* rrlast[out]: m_rrlast of the egress queue
    busy,           \* busy[out]: m_txMachineState
    calls,          \* calls that have not returned
    wire,           \* wire[p]: PFC frames on their way to the sender at port p
    told,           \* told[p][c]: that sender has been stopped
    late,           \* late[p][c]: its packets still on their way
    disturbances    \* PAUSEs received and control packets so far

portVars == <<queue, control, halted, rrlast, busy, calls>>
linkVars == <<wire, told, late, disturbances>>
spVars == <<mmuVars, portVars, linkVars>>

Pfc(c, on) == [kind |-> "pfc", class |-> c, pause |-> on]
OtherControl == [kind |-> "other", class |-> 0, pause |-> FALSE]    \* CNP, or ACK with m_ackHighPrio

Dequeue(out) == [op |-> "dequeue", port |-> out]   \* (Switch)DequeueAndTransmit
Start(out)   == [op |-> "start", port |-> out]     \* TransmitStart of a data packet

SpInit ==
    /\ MmuInit
    /\ queue   = [p \in Port |-> [c \in Class |-> <<>>]]
    /\ control = [p \in Port |-> <<>>]
    /\ halted  = Everywhere(FALSE)
    /\ rrlast  = [p \in Port |-> 0]
    /\ busy    = [p \in Port |-> FALSE]
    /\ calls   = <<>>
    /\ wire    = [p \in Port |-> <<>>]
    /\ told    = Everywhere(FALSE)
    /\ late    = Everywhere(0)
    /\ disturbances = 0

----------------------------------------------------------------------------
\* Names ending in Anyway, First, Out and Silent are wrong variants for the
\* mutants of the project; the specification does not use them.

\* "Quit if channel busy"
ReadyAnyway(out) == TRUE
Ready(out) == ~busy[out]

\* BEgressQueue::DoDequeueRR: class 0 first, paused or not, then the classes in turn.
ControlNext(out) == control[out] # <<>>

Sendable(out, c) == queue[out][c] # <<>> /\ ~halted[out][c]
Turn(out, c) == (c - rrlast[out] - 1) % QCnt
InTurn(out, c) == \A d \in Class : Sendable(out, d) => Turn(out, c) <= Turn(out, d)

\* SwitchNode::CheckAndSendPfc and CheckAndSendResume: the MMU decided to tell the
\* sender at port p something new, and SendPfc queues a frame in class 0.
FrameFor(p, c) == IF paused'[p][c] # paused[p][c] THEN <<Pfc(c, paused'[p][c])>> ELSE <<>>
SendPfcFirst(p, c) == control' = [control EXCEPT ![p] = FrameFor(p, c) \o @]
SendPfc(p, c) == control' = [control EXCEPT ![p] = @ \o FrameFor(p, c)]
PfcThen(p, c, next) == IF FrameFor(p, c) # <<>> THEN <<Dequeue(p), next>> ELSE <<next>>

\* The tag that a packet gets at arrival: the port to which it is charged.
FlowIdTagOut(in, out) == out
FlowIdTag(in, out) == in

TransmitControl(out) ==
    /\ Ready(out)
    /\ ControlNext(out)
    /\ control' = [control EXCEPT ![out] = Tail(@)]
    /\ wire' = IF Head(control[out]).kind = "pfc"
               THEN [wire EXCEPT ![out] = Append(@, Head(control[out]))] ELSE wire
    /\ busy' = [busy EXCEPT ![out] = TRUE]
    /\ calls' = Tail(calls)
    /\ UNCHANGED <<mmuVars, queue, halted, rrlast, told, late, disturbances>>

\* A data packet is taken from its queue; SwitchNotifyDequeue and the RESUME it may
\* send come before its TransmitStart.
TransmitData(out, c) ==
    /\ Ready(out)
    /\ ~ControlNext(out)
    /\ Sendable(out, c) /\ InTurn(out, c)
    /\ \E in \in Port, psize \in Size :
          LET pkt == Head(queue[out][c])
          IN /\ pkt = <<in, psize>>
             /\ SwitchNotifyDequeue(in, c, psize)
             /\ SendPfc(in, c)
             /\ calls' = PfcThen(in, c, Start(out)) \o Tail(calls)
    /\ queue' = [queue EXCEPT ![out][c] = Tail(@)]
    /\ rrlast' = [rrlast EXCEPT ![out] = c]
    /\ UNCHANGED <<halted, busy, linkVars>>

TransmitNothing(out) ==
    /\ ~Ready(out) \/ (~ControlNext(out) /\ \A c \in Class : ~Sendable(out, c))
    /\ calls' = Tail(calls)
    /\ UNCHANGED <<mmuVars, queue, control, halted, rrlast, busy, linkVars>>

TransmitStart(out) ==
    /\ busy' = [busy EXCEPT ![out] = TRUE]
    /\ calls' = Tail(calls)
    /\ UNCHANGED <<mmuVars, queue, control, halted, rrlast, linkVars>>

Execute ==
    /\ calls # <<>>
    /\ LET out == Head(calls).port
       IN \/ /\ Head(calls).op = "dequeue"
             /\ TransmitControl(out) \/ TransmitNothing(out) \/ \E c \in Class : TransmitData(out, c)
          \/ /\ Head(calls).op = "start"
             /\ TransmitStart(out)

----------------------------------------------------------------------------
\* The events, which happen when no call is running

\* QbbNetDevice::Receive -> SwitchNode::SendToDev of a data packet.  A sender that
\* has been stopped has late packets on their way.
Arrive(in, out, c, psize) ==
    /\ Len(control[in]) + Len(wire[in]) < MaxFrames
    /\ ~told[in][c] \/ late[in][c] > 0
    /\ late' = IF told[in][c] THEN [late EXCEPT ![in][c] = @ - 1] ELSE late
    /\ UNCHANGED <<halted, rrlast, busy, wire, told, disturbances>>
    /\ \/ /\ Admit(in, c, psize)
          /\ SendPfc(in, c)
          /\ queue' = [queue EXCEPT ![out][c] = Append(@, <<FlowIdTag(in, out), psize>>)]
          /\ calls' = PfcThen(in, c, Dequeue(out))
       \/ /\ Drop(in, c, psize)
          /\ UNCHANGED <<queue, control, calls>>

\* The same of a packet of class 0: it bypasses the MMU.
ArriveControl(out) ==
    /\ disturbances < MaxDisturbances
    /\ disturbances' = disturbances + 1
    /\ control' = [control EXCEPT ![out] = Append(@, OtherControl)]
    /\ calls' = <<Dequeue(out)>>
    /\ UNCHANGED <<mmuVars, queue, halted, rrlast, busy, wire, told, late>>

TransmitComplete(out) ==
    /\ busy[out]
    /\ busy' = [busy EXCEPT ![out] = FALSE]
    /\ calls' = <<Dequeue(out)>>
    /\ UNCHANGED <<mmuVars, queue, control, halted, rrlast, linkVars>>

\* QbbNetDevice::Receive of PAUSE from the next hop, and Resume
ReceivePause(out, c) ==
    /\ ~halted[out][c]
    /\ disturbances < MaxDisturbances
    /\ disturbances' = disturbances + 1
    /\ halted' = Put(halted, out, c, TRUE)
    /\ UNCHANGED <<mmuVars, queue, control, rrlast, busy, calls, wire, told, late>>

ResumeSilent(out, c) ==
    /\ halted[out][c]
    /\ halted' = Put(halted, out, c, FALSE)
    /\ UNCHANGED <<mmuVars, queue, control, rrlast, busy, calls, linkVars>>
Resume(out, c) ==
    /\ halted[out][c]
    /\ halted' = Put(halted, out, c, FALSE)
    /\ calls' = <<Dequeue(out)>>
    /\ UNCHANGED <<mmuVars, queue, control, rrlast, busy, linkVars>>

\* A PFC frame reaches the sender at port p.
Deliver(p) ==
    /\ wire[p] # <<>>
    /\ LET f == Head(wire[p])
       IN /\ told' = Put(told, p, f.class, f.pause)
          /\ late' = Put(late, p, f.class, IF f.pause THEN Flight ELSE 0)
    /\ wire' = [wire EXCEPT ![p] = Tail(@)]
    /\ UNCHANGED <<mmuVars, portVars, disturbances>>

Event ==
    \/ \E f \in Flow, psize \in Size : Arrive(f[1], f[2], f[3], psize)
    \/ \E p \in Port : ArriveControl(p) \/ TransmitComplete(p) \/ Deliver(p)
    \/ \E f \in Flow : ReceivePause(f[2], f[3]) \/ Resume(f[2], f[3])

SpNext == Execute \/ (calls = <<>> /\ Event)

SpSpec == SpInit /\ [][SpNext]_spVars

----------------------------------------------------------------------------
\* The bytes of a queue that came in by port p
BytesFrom(p, q) ==
    SumFunctionOnSet([i \in DOMAIN q |-> IF q[i][1] = p THEN q[i][2] ELSE 0], DOMAIN q)

\* Every packet in a queue is charged to the port it came in by, once, until it
\* leaves (SwitchNotifyDequeue finds that port in a tag of the packet).
QueuesCharged ==
    \A p \in Port, c \in Class :
        stored[p][c] = SumFunctionOnSet([out \in Port |-> BytesFrom(p, queue[out][c])], Port)

\* No port is READY while something may be sent: each event that makes a packet
\* sendable ends in a call for that port.
NoIdlePort ==
    calls = <<>> => \A out \in Port : ~busy[out] =>
        control[out] = <<>> /\ \A c \in Class : ~Sendable(out, c)

\* TransmitStart finds its transmitter READY (its assertion) although
\* SwitchNotifyDequeue may have run the transmitter of another port in between.
StartsWhenReady ==
    calls # <<>> /\ Head(calls).op = "start" => ~busy[Head(calls).port]

\* What a sender hears of a class, frame after frame, from first to last: each PFC
\* frame of the class tells it something new.
Heard(frames, c, first, last) ==
    \E h \in [0 .. Len(frames) -> BOOLEAN] :
        /\ h[0] = first
        /\ h[Len(frames)] = last
        /\ \A i \in 1 .. Len(frames) :
              IF frames[i].kind = "pfc" /\ frames[i].class = c
              THEN h[i] = frames[i].pause /\ h[i] # h[i - 1]
              ELSE h[i] = h[i - 1]

\* PAUSE and RESUME of a class reach a sender in turn, and the last one says what
\* the MMU holds: what the assertion of QbbNetDevice::Resume at the sender needs.
FramesAlternate ==
    \A p \in Port, c \in Class : Heard(wire[p] \o control[p], c, told[p][c], paused[p][c])
=============================================================================
