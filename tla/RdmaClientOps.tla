--------------------------- MODULE RdmaClientOps ---------------------------
(***************************************************************************)
(* RdmaClient over RdmaDriver, RdmaHw and the transmitters of the hosts:   *)
(* who calls whom, inside one event, until the event ends.  A client is    *)
(* in one of three modes:                                                  *)
(*   Operators  OperationsRun: a list of SEND and RECV, the next started   *)
(*              by the completion of the one before, the queue pair        *)
(*              finished after the last (scratch/OpSendRecv.cc);           *)
(*   Passive    PassiveDestroy: the queue pair finishes itself when its    *)
(*              last message is acknowledged;                              *)
(*   the others send flows, and the script finishes all their queue pairs  *)
(*              when the last flow is done (scratch/QpReuseNetwork.cc).    *)
(*                                                                         *)
(* The handlers are call trees: a completion announced to a client starts  *)
(* its next operation, which pushes a message, which starts the            *)
(* transmitter, all before the handler goes on.  So a handler is written   *)
(* as an operator from a world (a record of all the state) to the world    *)
(* after it, and calls are nested operators.  In the multithreaded build   *)
(* (mtp) some calls run in explicitCriticalSection, one lock for all       *)
(* threads that is not reentrant.                                          *)
(*                                                                         *)
(* Every packet is acknowledged and nothing is lost or paused, there is    *)
(* no window and no pacing: RdmaTransport and NicEgress are about these.   *)
(* Sizes and sequence numbers count packets.                               *)
(***************************************************************************)
EXTENDS Integers, FiniteSets, Sequences, SequencesExt

CONSTANTS
    Client,
    Host,           \* the two nodes of a link
    At,             \* At[c]: the node of client c
    To,             \* To[c]: the client that has AddRxChannel for the messages of c
    Operators,      \* clients with OperationsRun
    Passive,        \* clients with PassiveDestroy
    Programs,       \* lists of operations the clients in Operators may be given
    Flows,          \* Flows[c]: messages pushed by the script, for the other clients
    Sizes,          \* sizes of these messages
    Builds          \* values of NS3_MTP to consider

Recv == 0           \* an operation is Recv, or the size of a SEND

ASSUME ClientAssumption ==
    /\ IsFiniteSet(Client)
    /\ At \in [Client -> Host]
    /\ To \in [Client -> Client]
    /\ \A c \in Client : At[To[c]] # At[c]
    /\ Operators \subseteq Client /\ Passive \subseteq Client \ Operators
    /\ \A program \in Programs : program \in [Operators -> Seq(Nat)]
    /\ Flows \in [Client -> Nat] /\ \A c \in Operators : Flows[c] = 0
    /\ Sizes \subseteq Nat \ {0}
    /\ Builds \subseteq BOOLEAN

VARIABLES
    mtp,            \* built with NS3_MTP
    program,        \* m_operations
    flows,          \* messages the script has still to push
    op,             \* m_currentOperationIndex, from 1; 0 before StartApplication
    qp,             \* the queue pair of a client
    nic,            \* the transmitter of a host and its RdmaQueuePairGroup
    rx,             \* receive queue pair of a client's messages: packets expected next,
                    \* and packets to come of the current message
    link,           \* frames on the wire, by the host that sent them
    finished,       \* flow_num_finished
    end,            \* how the simulation ended, or "running"
    announced,      \* history: messages of c announced to To[c]
    forgotten       \* history: announcements c got and did not expect

vars == <<mtp, program, flows, op, qp, nic, rx, link, finished, end, announced,
          forgotten>>

NoSize == -1        \* UINT64_MAX of m_curMessageSize and of the packet header
FlowClients == Client \ (Operators \cup Passive)
FlowNum == SumFunctionOnSet(Flows, FlowClients)
Far(h) == CHOOSE g \in Host : g # h

\* held: the critical section is held; it is free between events
World == [mtp |-> mtp, program |-> program, op |-> op, qp |-> qp, nic |-> nic,
          rx |-> rx, link |-> link, finished |-> finished, held |-> FALSE,
          end |-> end, announced |-> announced, forgotten |-> forgotten]

\* w is a bound variable where it is used, for TLC to evaluate a handler once.
Become(w) ==
    /\ op' = w.op /\ qp' = w.qp /\ nic' = w.nic /\ rx' = w.rx /\ link' = w.link
    /\ finished' = w.finished /\ end' = w.end
    /\ announced' = w.announced /\ forgotten' = w.forgotten
    /\ UNCHANGED <<mtp, program>>

\* What follows a call in a handler, if the call came back
Then(w, after) == IF w.end = "running" THEN after ELSE w
\* A call whose body runs in explicitCriticalSection
Section(w, after) ==
    Then(w, IF w.mtp /\ w.held THEN [w EXCEPT !.end = "nested lock"] ELSE after)

----------------------------------------------------------------------------
\* RdmaQueuePair and RdmaQueuePairGroup.  Names ending in Sent, All, Kept, Lax, Early,
\* Again and Silent are wrong variants for the mutants of the project; the
\* specification does not use them.

GetBytesLeft(q) ==
    IF q.msgs = <<>> THEN 0
    ELSE LET last == Head(q.msgs).start + Head(q.msgs).size
         IN  IF last >= q.nxt THEN last - q.nxt ELSE 0

IsCurMessageFinishedSent(q) ==
    q.msgs = <<>> \/ q.nxt >= Head(q.msgs).start + Head(q.msgs).size

IsCurMessageFinished(q) ==
    q.msgs = <<>> \/ q.una >= Head(q.msgs).start + Head(q.msgs).size

PushMessage(w, c, size) ==
    LET q == w.qp[c]
        start == IF q.msgs = <<>> THEN q.nxt ELSE 0
    IN  Section(w, [w EXCEPT !.qp[c].msgs = Append(@, [size |-> size, start |-> start,
                                                       set |-> q.msgs = <<>>])])

RemoveFinishedQpsAll(w, h) ==
    LET group == w.nic[h].group
        Left == SelectSeq(group, LAMBDA c : w.qp[c].msgs # <<>>)
    IN  [w EXCEPT !.nic[h].group = Left, !.nic[h].last = @ - (Len(group) - Len(Left))]

\* std::remove_if: the members with a message, in their order
Unfinished(qps, group) ==
    LET kept[n \in 0 .. Len(group)] ==
            IF n = 0 THEN <<>>
            ELSE IF qps[group[n]].msgs = <<>> THEN kept[n - 1]
            ELSE Append(kept[n - 1], group[n])
    IN  kept[Len(group)]

\* Every queue pair of the host without a message goes, and m_rrlast moves down by
\* those that were before it.
RemoveFinishedQps(w, h) ==
    LET group == w.nic[h].group
        gone == {i \in 1 .. Len(group) : i - 1 < w.nic[h].last /\ w.qp[group[i]].msgs = <<>>}
    IN  [w EXCEPT !.nic[h].group = Unfinished(w.qp, group),
                  !.nic[h].last = @ - Cardinality(gone)]

----------------------------------------------------------------------------
\* QbbNetDevice::DequeueAndTransmit with RdmaEgressQueue::DoRoundRobin

Transmit(w, h, frame) ==
    [w EXCEPT !.nic[h].busy = TRUE, !.link[h] = Append(@, frame)]

TransmitAck(w, h) ==
    Transmit([w EXCEPT !.nic[h].acks = Tail(@)], h, Head(w.nic[h].acks))

\* GetNxtPacket and GenDataPacket: the first packet of a message carries its size
TransmitData(w, h, i) ==
    LET c == w.nic[h].group[i]
        q == w.qp[c]
        size == IF q.nxt = Head(q.msgs).start THEN Head(q.msgs).size ELSE NoSize
    IN  Transmit([w EXCEPT !.qp[c].nxt = @ + 1, !.nic[h].last = i - 1], h,
                 [kind |-> "data", of |-> c, seq |-> q.nxt, size |-> size])

TriggerTransmit(w, h) ==
    LET n == w.nic[h]
        N == Len(n.group)
        Turn(k) == ((k + n.last) % N) + 1
        ready == {k \in 1 .. N : GetBytesLeft(w.qp[n.group[Turn(k)]]) > 0}
    IN  Section(w, IF n.busy THEN w
                   ELSE IF n.acks # <<>> THEN TransmitAck(w, h)
                   ELSE IF ready # {} THEN TransmitData(w, h, Turn(Min(ready)))
                   ELSE w)

----------------------------------------------------------------------------
\* RdmaHw::QpComplete, called by RdmaClient::FinishQp.  The script answers
\* m_qpCompleteCallback by deleting the receive queue pair at the peer.  A queue
\* pair finished again, without congestion control, is a null pointer.

NoRx == [next |-> 0, left |-> NoSize]
DeleteQueuePair(w, c) == [w EXCEPT !.rx[c] = NoRx, !.qp[c].live = FALSE]

FinishQp(w, c) ==
    Section(w, IF w.qp[c].live THEN DeleteQueuePair(RemoveFinishedQps(w, At[c]), c)
               ELSE [w EXCEPT !.end = "finished twice"])

----------------------------------------------------------------------------
\* RdmaClient

DoSend(w, c, size) == TriggerTransmit(PushMessage(w, c, size), At[c])

RunNextStep(w, c) ==
    IF w.op[c] > Len(w.program[c]) THEN FinishQp(w, c)
    ELSE IF w.program[c][w.op[c]] = Recv THEN w
    ELSE DoSend(w, c, w.program[c][w.op[c]])

NextStep(w, c) == RunNextStep([w EXCEPT !.op[c] = @ + 1], c)
Sending(w, c) == w.op[c] \in 1 .. Len(w.program[c]) /\ w.program[c][w.op[c]] # Recv
Receiving(w, c) == w.op[c] \in 1 .. Len(w.program[c]) /\ w.program[c][w.op[c]] = Recv

HandleTxComplete(w, c) ==
    IF c \in Operators /\ Sending(w, c) THEN NextStep(w, c) ELSE w

HandleRxCompleteLax(w, c) ==
    IF c \in Operators THEN NextStep(w, c) ELSE w

\* A message the client does not wait for is logged and forgotten.
HandleRxComplete(w, c) ==
    IF c \notin Operators THEN w
    ELSE IF Receiving(w, c) THEN NextStep(w, c)
    ELSE [w EXCEPT !.forgotten[c] = @ + 1]

\* RdmaClient::Finish, the callback of every message
Finish(w, c) ==
    IF c \in Passive /\ w.qp[c].msgs = <<>> THEN FinishQp(w, c) ELSE w

----------------------------------------------------------------------------
\* RdmaHw::QpCompleteMessage

FinishFlows(w) == FoldSet(LAMBDA c, v : Then(v, FinishQp(v, c)), w, FlowClients)

MessageCompleteEarly(w, c) ==
    LET traced == IF c \in FlowClients THEN FinishFlows([w EXCEPT !.finished = @ + 1]) ELSE w
    IN  Then(traced, HandleTxComplete(traced, c))

\* RdmaDriver::MessageComplete: the trace, on which QpReuseNetwork counts flows and
\* finishes all queue pairs after the last, then the client
MessageComplete(w, c) ==
    LET counted == IF c \in FlowClients THEN [w EXCEPT !.finished = @ + 1] ELSE w
        traced == IF c \in FlowClients /\ counted.finished = FlowNum
                  THEN FinishFlows(counted) ELSE counted
    IN  Then(traced, HandleTxComplete(traced, c))

\* RdmaQueuePair::FinishMessage: the callback runs after the message is gone
FinishMessage(w, c) == Finish([w EXCEPT !.qp[c].msgs = Tail(@)], c)

SetUpAgain(w, c) ==
    IF w.qp[c].msgs = <<>> THEN w
    ELSE [w EXCEPT !.qp[c].msgs[1].start = w.qp[c].nxt, !.qp[c].msgs[1].set = TRUE]

SetUpKept(w, c) == w

SetUp(w, c) ==
    IF w.qp[c].msgs = <<>> \/ Head(w.qp[c].msgs).set THEN w
    ELSE [w EXCEPT !.qp[c].msgs[1].start = w.qp[c].nxt, !.qp[c].msgs[1].set = TRUE]

TriggerIfMoreSilent(w, c, more) == w
TriggerIfMore(w, c, more) == IF more THEN Then(w, TriggerTransmit(w, At[c])) ELSE w

\* With NS3_MTP: the section is held while the message is taken off, not while the
\* completion is announced.
QpCompleteMessageMtp(w, c) ==
    LET popped == FinishMessage([w EXCEPT !.held = TRUE], c)
        ready == [SetUp(popped, c) EXCEPT !.held = FALSE]
    IN  Section(w, Then(popped, TriggerIfMore(MessageComplete(ready, c), c,
                                              ready.qp[c].msgs # <<>>)))

QpCompleteMessageSingle(w, c) ==
    LET popped == FinishMessage(w, c)
        told == Then(popped, MessageComplete(popped, c))
    IN  Then(told, TriggerIfMore(SetUp(told, c), c,
                                       told.qp[c].msgs # <<>>))

QpCompleteMessage(w, c) ==
    IF w.qp[c].msgs = <<>> THEN [w EXCEPT !.end = "no message"]
    ELSE IF w.mtp THEN QpCompleteMessageMtp(w, c)
    ELSE QpCompleteMessageSingle(w, c)

----------------------------------------------------------------------------
\* RdmaHw::Receive

ReceiveAck(w, f) ==
    LET acked == [w EXCEPT !.qp[f.of].una = IF f.seq > @ THEN f.seq ELSE @]
    IN  IF ~w.qp[f.of].live THEN w
        ELSE IF IsCurMessageFinished(acked.qp[f.of]) THEN QpCompleteMessage(acked, f.of)
        ELSE TriggerTransmit(acked, At[f.of])

\* One more packet of the message: its size comes with the first
Received(w, f) ==
    LET left == IF w.rx[f.of].left = NoSize THEN f.size ELSE w.rx[f.of].left
    IN  [w EXCEPT !.rx[f.of] = [next |-> f.seq + 1,
                                left |-> IF left = 1 THEN NoSize ELSE left - 1]]

\* A message is announced before the acknowledgement of its last packet is queued.
Announce(w, f) ==
    IF w.rx[f.of].left # NoSize THEN w
    ELSE HandleRxComplete([w EXCEPT !.announced[f.of] = @ + 1], To[f.of])

SendAck(w, f) ==
    LET h == At[To[f.of]]
    IN  TriggerTransmit([w EXCEPT !.nic[h].acks = Append(@,
                [kind |-> "ack", of |-> f.of, seq |-> w.rx[f.of].next, size |-> NoSize])], h)

ReceiveUdp(w, f) ==
    LET told == Announce(Received(w, f), f)
    IN  Section(w, IF f.seq # w.rx[f.of].next THEN [w EXCEPT !.end = "out of order"]
                   ELSE Then(told, SendAck(told, f)))

Receive(w, f) == IF f.kind = "data" THEN ReceiveUdp(w, f) ELSE ReceiveAck(w, f)

----------------------------------------------------------------------------
\* The events

Running == end = "running"

\* StartApplication: all clients start at one time, in any order
StartApplication(c) ==
    /\ Running
    /\ c \in Operators /\ op[c] = 0
    /\ \E w \in {NextStep(World, c)} : Become(w)
    /\ UNCHANGED flows

\* PushMessagetoClient, scheduled by the script for one flow
PushMessagetoClient(c, size) ==
    /\ Running
    /\ flows[c] > 0
    /\ flows' = [flows EXCEPT ![c] = @ - 1]
    /\ \E w \in {DoSend(World, c, size)} : Become(w)

TransmitComplete(h) ==
    /\ Running
    /\ nic[h].busy
    /\ \E w \in {TriggerTransmit([World EXCEPT !.nic[h].busy = FALSE], h)} : Become(w)
    /\ UNCHANGED flows

\* The first frame on the wire from h reaches the other host; no frame is faster
\* than the starts of the clients, which have one time.
Deliver(h) ==
    /\ Running
    /\ link[h] # <<>>
    /\ \A c \in Operators : op[c] > 0
    /\ \E w \in {Receive([World EXCEPT !.link[h] = Tail(@)], Head(link[h]))} : Become(w)
    /\ UNCHANGED flows

Hosted(h) == SetToSeq({c \in Client : At[c] = h})

Init ==
    /\ mtp \in Builds /\ program \in Programs /\ flows = Flows
    /\ op = [c \in Operators |-> 0]
    /\ qp = [c \in Client |-> [msgs |-> <<>>, nxt |-> 0, una |-> 0, live |-> TRUE]]
    /\ nic = [h \in Host |-> [busy |-> FALSE, acks |-> <<>>, group |-> Hosted(h), last |-> 0]]
    /\ rx = [c \in Client |-> NoRx]
    /\ link = [h \in Host |-> <<>>]
    /\ finished = 0 /\ end = "running"
    /\ announced = [c \in Client |-> 0]
    /\ forgotten = [c \in Client |-> 0]

Next ==
    \/ \E c \in Operators : StartApplication(c)
    \/ \E c \in Client, size \in Sizes : PushMessagetoClient(c, size)
    \/ \E h \in Host : TransmitComplete(h) \/ Deliver(h)

Spec == Init /\ [][Next]_vars

----------------------------------------------------------------------------
\* Properties

SendsOf(list, n) == Cardinality({i \in 1 .. n : list[i] # Recv})
RecvsOf(list, n) == n - SendsOf(list, n)
Sends(c, n) == SendsOf(program[c], n)
Recvs(c, n) == RecvsOf(program[c], n)
Passed(c) == IF op[c] = 0 THEN 0 ELSE op[c] - 1
Senders(c) == {d \in Client : To[d] = c}
AnnouncedTo(c) == SumFunctionOnSet(announced, Senders(c))

\* Operation at[c] is the next of each client: everybody is at the end or waits in a
\* RECV, and has received what the others sent.
AllWait(list, at) ==
    \A c \in Operators :
        /\ at[c] \in 1 .. Len(list[c]) + 1
        /\ at[c] <= Len(list[c]) => list[c][at[c]] = Recv
        /\ RecvsOf(list[c], at[c] - 1) =
              SumFunctionOnSet([d \in Operators |-> SendsOf(list[d], at[d] - 1)], Senders(c))

\* The lists of operations fit together: in each of Programs, all clients wait only
\* when all are at the end.
ProgramsMatch ==
    /\ \A c \in Operators : Senders(c) \subseteq Operators
    /\ \A list \in Programs :
          \A at \in [Operators -> UNION {1 .. Len(list[c]) + 1 : c \in Operators}] :
              AllWait(list, at) => \A c \in Operators : at[c] = Len(list[c]) + 1

Ends == {"running", "nested lock", "finished twice", "no message", "out of order"}
Message == [size : Nat, start : Nat, set : BOOLEAN]

\* Every variable has its type, and operation indexes stay within the lists.
TypeOK ==
    /\ mtp \in BOOLEAN /\ program \in Programs
    /\ flows \in [Client -> Nat]
    /\ \A c \in Operators : op[c] \in 0 .. Len(program[c]) + 1
    /\ \A c \in Client :
        /\ qp[c].msgs \in Seq(Message) /\ qp[c].live \in BOOLEAN
        /\ qp[c].nxt \in Nat /\ qp[c].una \in Nat
        /\ rx[c].next \in Nat /\ rx[c].left \in Nat \cup {NoSize}
    /\ \A h \in Host :
        /\ nic[h].busy \in BOOLEAN /\ nic[h].last \in Nat
        /\ \A i \in DOMAIN nic[h].group : At[nic[h].group[i]] = h
    /\ finished \in Nat /\ end \in Ends
    /\ announced \in [Client -> Nat] /\ forgotten \in [Client -> Nat]

\* No call tree of a handler takes a message from an empty queue (the abort of
\* QpCompleteMessage), finishes a queue pair twice (a null m_congestionControl in
\* QpComplete) or enters the critical section inside itself, except where a
\* PassiveDestroy client of the multithreaded build finishes its queue pair from
\* FinishMessage; and on links that lose nothing no packet comes out of order, that
\* is, no receive queue pair is deleted while packets for it are on their way.  Nor
\* is a queue pair without congestion control left in a group, of which
\* DequeueAndTransmit calls UpdateRate on every member when there is nothing to send.
NoFailure ==
    /\ \A h \in Host : \A i \in DOMAIN nic[h].group : qp[nic[h].group[i]].live
    /\ end \in {"running", "nested lock"}
    /\ end = "nested lock" => mtp /\ Passive # {}

\* A client is past a SEND only if the peer has been told of the whole message: what
\* the comment at rdma-client.cc:272 relies on when the queue pair is finished after
\* the last operation (the receive side goes with it).
SendDoneMeansReceived ==
    \A c \in Operators : Sends(c, Passed(c)) <= announced[c]

\* Every announcement either completes one RECV of the client or is counted as
\* forgotten: none completes a SEND, two RECVs, or a RECV it came before.
EachRecvOneMessage ==
    \A c \in Operators : Recvs(c, Passed(c)) + forgotten[c] = AnnouncedTo(c)

\* The two ends agree where a message ends, across completions that push the next
\* message from inside QpCompleteMessage: while a message is in progress at the
\* receiver it is the sender's first, and what is left there ends where it does.
EndsAgree ==
    \A c \in Client :
        rx[c].left # NoSize =>
            /\ qp[c].msgs # <<>> /\ Head(qp[c].msgs).set
            /\ rx[c].next + rx[c].left = Head(qp[c].msgs).start + Head(qp[c].msgs).size

\* Nothing of a message is left unsent by a host that has stopped transmitting:
\* every packet the sender may send is in the hands of an event still to come.
NoLostWakeup ==
    \A h \in Host :
        Running /\ ~nic[h].busy =>
            /\ nic[h].acks = <<>>
            /\ \A i \in DOMAIN nic[h].group : GetBytesLeft(qp[nic[h].group[i]]) = 0

\* A message of c can no longer be sent: its queue pair is in no group.  It happens
\* when another client of the host finishes its queue pair while c has no message
\* queued, or when c is PassiveDestroy and pushes again.
Stranded(c) ==
    /\ qp[c].msgs # <<>>
    /\ \A i \in DOMAIN nic[At[c]].group : nic[At[c]].group[i] # c

AllDone ==
    /\ \A c \in Operators : op[c] = Len(program[c]) + 1
    /\ \A c \in Client : flows[c] = 0 /\ qp[c].msgs = <<>>
    /\ FlowNum > 0 => finished = FlowNum

\* The event queue is empty: Simulator::Run returns
NoEventLeft ==
    /\ Running
    /\ \A c \in Operators : op[c] > 0
    /\ \A c \in Client : flows[c] = 0
    /\ \A h \in Host : ~nic[h].busy /\ link[h] = <<>>

\* When the events run out every operation has completed and every flow is
\* acknowledged, unless an announcement was forgotten or a message is stranded.
RunsToTheEnd ==
    NoEventLeft =>
        \/ AllDone
        \/ \E c \in Client : forgotten[c] > 0 \/ Stranded(c)

\* No handler enters explicitCriticalSection inside itself: the comment of
\* QpCompleteMessage, "We must NOT call user callbacks while holding the lock to
\* avoid nested lock deadlock" (rdma-hw.cc:755).
NoNestedLock == end # "nested lock"

\* "After that RdmaClient can run the whole procedure by itself on the completion
\* events of the network below" (src/Design.md:88, translated): when the simulation
\* ends, both clients are at the end of their lists.
AllOperationsRun ==
    NoEventLeft => \A c \in Operators : op[c] = Len(program[c]) + 1

=============================================================================
