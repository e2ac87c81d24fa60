# A verification project for ns3-msccl

ns3-msccl simulates collective communication: an MSCCL algorithm file says which
steps the thread blocks of each GPU execute, and the messages of those steps
travel as RDMA queue-pair traffic over a network of NICs, switches with priority
flow control (PFC) and NVSwitches, inside ns-3. This directory models the parts
that are the repository's own and checks them with TLC and TLAPS.

## 1. The system

```
 algorithm XML -> GPUNode -> ThreadBlock -> ThreadBlockStep      src/allstack
                                 |  DoSend / DoRecv      ^ SendMessageDone / RecvMessageDone
                                 v                       |
                             RdmaClient                          src/applications
                                 |  PushMessagetoQp      ^ HandleTxComplete / HandleRxComplete
                                 v                       |
                  RdmaDriver -> RdmaHw -> RdmaQueuePair          src/point-to-point
                                 |  GetNxtPacket         ^ Receive
                                 v                       |
                            QbbNetDevice  <-- PFC -->  SwitchNode + SwitchMmu
```

Everything runs as events of one simulated clock. There are no threads inside a
run of the sequential simulator: what interleaves are *events* (packet arrivals,
timers, scheduled step completions) and what nests are *callbacks* (one event
can run a long synchronous chain through all layers). Built with `NS3_MTP` the
same code runs under the multithreaded kernel (`src/mtp`): the nodes are divided
into systems (logical processes), threads run systems side by side in rounds, and
what several threads reach is behind one spin lock, `explicitCriticalSection`.

| component | state | operations | what makes it correct |
|---|---|---|---|
| ThreadBlock, GPUNode | current step, awaited dependency, buffered messages, unacknowledged sends, status table, blocks left | StartApplication, StartStep, DoStep, CompleteStep, RecvMessageDone, SendMessageDone, UpdateTBStatus, FinishedTBCallback | steps in dependency order, each once; a receive only with its message; queue pairs finished only when idle; every collective ends |
| RdmaClient | operation list, current operation, what it expects | DoSend, DoRecv, RunNextStep, NextStep, HandleTx/RxComplete, Finish, FinishQp | an operation is completed by its own message, once; queue pairs finished once, and when idle |
| RdmaHw, RdmaQueuePair | snd_nxt, snd_una, message queue; receiver's expected sequence number, bytes left of the message, NACK timer | PushMessage, GetNxtPacket, ReceiveUdp, ReceiveAck, RecoverQueue, FinishMessage, QpComplete | each message delivered once and in order over a lossy FIFO; completion at the receiver before completion at the sender |
| RdmaQueuePairGroup | queue pairs of a NIC, round-robin index | RemoveFinishedQps | no member without congestion control, the index stays in range |
| RdmaEgressQueue, QbbNetDevice | transmitter state, paused classes, round-robin index, per-QP next time | DequeueAndTransmit, TransmitComplete, Receive, Resume, SendPfc | never two packets on the wire; no paused class sends; no ready queue pair is forgotten |
| SwitchMmu, SwitchNode | bytes per ingress queue (reserved, shared, headroom), paused | CheckIngressAdmission, Update/RemoveFromIngressAdmission, CheckAndSendPfc, CheckAndSendResume | the pools never overflow or underflow; PAUSE and RESUME alternate; no loss when the headroom covers the link |
| congestion control | rate, alpha, window, timers per queue pair | DCQCN, HPCC, TIMELY, DCTCP, PINT handlers | rates stay within bounds |
| routing set-up | next-hop table per node and destination | CalculateRoute, SetRoutingEntries, TakeDownLink | each next hop is closer to the destination |
| Multithreaded kernel (UNISON) | events, clock and mailboxes of each system; smallest time, next public time; counters and flags the threads share | ProcessOneRound, ReceiveMessages, Schedule, ScheduleWithContext, CalculateSmallestTime, ThreadFunc, Run, RunBefore, RunAfter | one thread per system; no event of the past; public events alone; the run ends, with nothing left |

## 2. Modules

```
 TimedThreadBlock ──EXTENDS──> ThreadBlock ──INSTANCE──> MessageChannel <──refined by── RdmaTransport
      MCRing                   MCThreadBlock                                           MCRdmaTransport
                               ThreadBlockProofs                                       RdmaTransportProofs

 NicEgress   MCNicEgress   NicEgressProofs          (data, ACKs and PFC at a host)
 SwitchPort ──EXTENDS──> SwitchMmu                 (a switch: its ports, and its buffer with PFC)
 MCSwitchPort            MCSwitchMmu
 SwitchPortProofs        SwitchMmuProofs ──EXTENDS──> SumLaws

 RdmaClientOps   MCRdmaClientOps                   (two hosts: completions and what they call)
 RdmaClientOpsProofs ──EXTENDS──> SumLaws

 MtpKernel ──EXTENDS──> MtpWorkers ──INSTANCE──> MtpBarrier
 MCMtpKernel
 MtpKernelProofs                                   (the multithreaded kernel)
```

Definitions keep the names of the functions they stand for. Each module has some
definitions that the specification does not use: wrong variants of the
definition that follows them (a dropped test, an off-by-one, a missing reset),
named by a suffix the module lists. Put in place of the right one, each makes a
property fail; they show that the property can fail.

### MessageChannel: what a connection promises

Three counters per connection: messages pushed, announced at the receiver,
announced at the sender. A message is announced at the receiver after it is
pushed and at the sender after it is announced at the receiver. The collective
layer is built on these actions and the packet level is shown to implement them.

### ThreadBlock, TimedThreadBlock: `src/allstack/model/{thread-block,gpu-node}.cc`

* The *program* of each block is a constant, as parsed from an algorithm file.
* An *event* (start, a scheduled `CompleteStep`, `RecvMessageDone`,
  `SendMessageDone`) is an action that needs an empty call stack. The
  *synchronous calls* it makes are frames on the variable `stack`, executed one
  by one. `GPUNode::UpdateTBStatus` is a loop that can be re-entered from its own
  body (a resumed `nop` step completes on the spot and notifies again); a frame
  holds the loop's position, so nested loops interleave exactly as in the code.
* `crashed` stands for the dereference of `m_steps.end()`; nothing is specified
  after it.
* Steps are numbered from 1 (0 in the file), so that the initial -1 of the status
  table is 0. A message is its arrival; its size is abstracted.
* TimedThreadBlock adds a timer to each scheduled `CompleteStep` and a least
  distance `MinGap` between two messages to one block. One tick is 1 us
  (`REDUCE_TIME`, `SEND_TIME`); `COPY_TIME` rounds to 0. The delays of the two
  paths on which a step gets its message (`Do...` and `RecvMessageDone`) differ
  in the code and in the model.

### RdmaTransport: `src/point-to-point/model/{rdma-hw,rdma-queue-pair}.cc`

One queue pair, both ends, and the network as two FIFO channels that may lose
packets: all packets of a queue pair take one path and every queue on it is
first-in first-out. The sender cuts the first message of its queue into packets;
the receiver's answer is the result code of `ReceiverCheckSeq` (1 take and
acknowledge, 2 NACK, 3 duplicate, 4 NACK already sent, 5 take quietly). The size of a
message travels in its first packet. `halted` records the two checks of the code
that end the program: `QpCompleteMessage` on an empty queue, and the assertion on
`m_curMessageSize`. Points a reader may not expect, all from the code:

* there is no retransmission timer: a lost last packet or last acknowledgement
  stops the queue pair (so liveness is claimed only without loss);
* the next message starts only when the last byte of the one before is
  acknowledged;
* `m_milestone_rx` is reset by every packet, so an acknowledgement interval above
  the MTU delays only the first acknowledgements of a queue pair;
* a packet that is taken without an answer is not counted against the size of its
  message, which is why `AckInterval = 1` is part of the lossless assumption;
* `snd_nxt - snd_una` is unsigned: if the sender went back below what was
  acknowledged, a queue pair with a window counts as window bound.

Shipped settings (`examples/allstack/config.sh`): PFC off, no windows, acknowledgements
on the data class, `L2AckInterval` 1, `L2BackToZero` false. `NACKGenerationInterval`
is 0.01 us; `MicroSeconds` takes an integer, so the interval is 0, which is
`NackTimer = FALSE`: every packet behind a gap is answered by a NACK.

### NicEgress: `QbbNetDevice` and `RdmaEgressQueue` of a host

Nothing polls: every event that can make a packet sendable must call
`DequeueAndTransmit`, or an event must be scheduled that will. `called` says that
the event just handled ends in that call, which is the next step. Time is counted in
ticks; `tx` is the end of the transmission, `wake` the scheduled wake-up
`m_nextSend`, `avail[q]` the time to `m_nextAvail`. Whether packets are sendable is
decided as in `RdmaEgressQueue::DoRoundRobin` (acknowledgements first, then round-robin behind
`m_rrlast`). `skipped` is a history variable for the fairness of turns. The mode
is `QP_AVAIL`, the default.

### SwitchMmu: `SwitchMmu` with the calls of `SwitchNode`

A packet is its size. `Admit` is `CheckIngressAdmission`, `UpdateIngressAdmission`
and `CheckAndSendPfc` of one arrival, `Drop` the refusal, `SwitchNotifyDequeue` the
departure with `CheckAndSendResume`. The egress queues are abstracted to the bytes
stored per ingress queue, so a departure takes any packet that fits: the model allows
more orders than the code. The code counts in `uint32_t`, the model in integers, with
the type invariant saying that no subtraction goes below zero. ECN marking and
`egress_bytes` do not feed back into these decisions and are left out. Reserve and
headroom are subtracted from the buffer once per *port* and granted once per *class*
of the port, which `BufferBound` states with its exact excess.

### SwitchPort: SwitchMmu with `BEgressQueue` and `QbbNetDevice` of a switch

The composition of a switch: SwitchMmu, the queues of every port (`queue`: the packets
with the port they came in by, which is the `FlowIdTag`; `control`: class 0) and
the transmitters (`busy`). An event (arrival, end of a transmission, PAUSE and RESUME
from the next hop) needs an empty `calls`; what the code then calls is on `calls`, the
innermost first, and `Execute` runs it. That shows the nesting the code has: `SwitchDequeueAndTransmit`
takes a packet, `SwitchNotifyDequeue` gives back its bytes and may send RESUME to
the port it came in by, whose transmitter runs then and there, and only after that
comes the `TransmitStart` of the packet. The senders obey the frames: a stopped sender has up to
`Flight` packets still on their way. Sending the frame and noting it in the MMU
(`SendPfc`, `SetPause`) are one step, because the call of `SendPfc` takes only a packet of class 0
and does not look at the MMU. The queue is unbounded (1000 MiB in the code, more than the memory of a switch).

### RdmaClientOps: `RdmaClient` down to the wire, one event at a time

Two hosts on a link, clients in the three modes of the code: a list of operations
(`scratch/OpSendRecv.cc`), `PassiveDestroy`, and messages pushed by the script
(`scratch/QpReuseNetwork.cc`, which finishes all queue pairs at the last flow). What can go
wrong here is inside one event: an acknowledgement completes a message, the completion starts
the next operation of the client, that pushes a message, that starts the transmitter, and only
then the handler of the acknowledgement goes on. So a handler is an operator from a *world* (a
record of all state) to the world after it, calls are nested operators, and `Then` cuts the rest
of a call tree off when the program ends inside it. An action is one event.
`Section` is `explicitCriticalSection`: entering it inside itself ends the program
(`end = "nested lock"`; the code spins for ever). `mtp` chooses between the two builds, which order
`QpCompleteMessage` differently: the single-threaded one announces the completion, with all it
calls, before it sets the start of the next message; the multithreaded one sets it first.
`announced` and `forgotten` are history. Nothing is lost, paused or paced, packets are the unit of sizes and
every packet is acknowledged: the other modules are about these. No start of a client is later than the
first arrival, as the scripts start all at one time.

### MtpBarrier, MtpWorkers, MtpKernel: `src/mtp/model`

*MtpBarrier* is the promise: in each stage every system runs once, in any order and side by side, and
a stage begins only when the one before is over.

*MtpWorkers* is how the threads keep it: three shared counters and flags without a lock, one atomic access
per action. The interesting thread is a worker that has tested `g_globalFinished` and not yet taken its number: it may
stand there across the end of a stage, of a round, and of the simulation, where it takes a number after
`RunAfter` has set the index back. `lp` is the system a thread works on.

*MtpKernel* puts the systems in: each has its events, clock, event number and the handler it is in (`call`). A
handler is the list of calls to schedule it makes; each is a step of its own, so
systems that run in one stage interleave call by call. Schedule on another system appends to the mailbox of the receiver, one
per sender. `Granted` is the window of a round; `First` is the order by time and event number; `ReceiveMessages` takes the
messages sender by sender, as sorted by the sender's time and event number, with every order `std::sort` may give to equal ones. System 0 is the
public one, for events without a node. `Starts` is what `Partition()` may leave (operator
`Partition`): events at time 0 are run in it, each by its own system, which may schedule on itself and put messages in the mailboxes of others; later ones
go to their systems through the mailbox of the public system. `Half` is `Time::Max () / 2`; the model counts time in integers that do not wrap.

## 3. The runs

Each run asks one question. Runs that end in a violation are in section 4.

| run | instance | what it shows |
|---|---|---|
| ThreadBlockDeps | 2 GPUs × 3 blocks, every way to wait: chains of `nop`, a block waited for by two, a receiving step that waits for a block and then for its message, messages both ways that run ahead of the steps that take them; any delay of a scheduled step | dependency order, a message consumed on arrival only by a step that waits for one (`ConsumedWhileWaiting`), no dereference of `end()`, queue pairs finished only when idle, and every collective ends |
| Ring | the ring all-reduce with the step types of the shipped algorithm files on 3 GPUs, delays of the code, messages at least 4 ticks apart | no message comes while a step that has its message is being completed (`ConsumedWhileWaiting`), one completion per step, exactly the sends of the program |
| MmuClasses | 2 ports of different speed × 2 classes, packets of 1 and 2, buffer 13 with a pool of 6, reserve 1, headroom 3 and 2 | pools charged with what is stored, none overdrawn, none below zero, no drop before PAUSE, no empty queue paused |
| SwitchPort | 2 ports, traffic both ways in 2 classes with threshold shared, packets of 1, buffer 4, headroom 1, one PAUSE from a next hop or foreign control packet | queued packets are charged to their port, no idle port, `TransmitStart` finds READY, PAUSE and RESUME in turn |
| RdmaLossless | four messages of 7, 2, 5, 8 bytes, MTU 2, window 6, no loss | the queue pair implements MessageChannel and delivers all |
| RdmaVariants | messages 4 and 8, two losses, go back to chunk 4, acknowledgement interval 3, NACK timer, window 8 | the sender never believes more than the receiver took, no completion of an empty queue |
| NicEgress | 2 queue pairs in 2 classes, window 2, gaps 2 and 5 ticks, messages up to 3 packets, one acknowledgement waiting | a wake-up is scheduled or hidden, acknowledgements are never held, turns are fair |
| ClientOps | 2 hosts; two operators with one of four pairs of lists of up to 3 operations, a flow client with 2 messages and a `PassiveDestroy` client with 1; both builds | no abort, no queue pair finished twice or left in a group, a completed SEND was received, a RECV is completed by its own message, both ends agree on the ends of messages, no packet is left at an idle host, what is undone at the end has one of two known reasons |
| MtpKernel | 3 systems in a row with delays 2 and 1, 2 workers and the main thread, six start situations (packets that tie, one of them sent at time 0, a script in the middle, a Stop with events left, ties before Run, a packet that overtakes a timer) | one thread per system, causality, public events alone and in order, everything runs, the stages of MtpBarrier, every thread ends |

Why the bounds are enough to be of interest:

* *ThreadBlockDeps.* The nested notification loop needs three blocks on one GPU (one
  announces, one is resumed and completes a `nop`, one waits for that). Messages may run
  ahead by the whole program of the sender. Each block receives one message, and the one receiving step with a dependency, of b1, gets its
  message only after the dependency has been announced (b0 announces, then sends to a0, whose block a1 then sends to b1), so
  b1 waits for b0, is resumed without a message, and waits for that. So `ConsumedWhileWaiting` holds of it without timing, and is
  checked as a PROPERTY of the run; the shipped algorithm files have no receiving step with a dependency. What happens to a message that comes too early is section 4.
* *Ring.* `MinGap = 4` is twice the longest step (2 ticks): a message that comes while one step is being completed is taken by the next,
  and the message after it must not come before that one is over. It is the least gap with which the run passes; a shipped chunk of
  1,024,000 bytes takes 20 us at 400 Gb/s. `ConsumedWhileWaiting` is a PROPERTY of the run. Three GPUs make a cycle in which every block both
  waits and is waited for; every step type that receives occurs.
* *MmuClasses.* The pool of 6 is shared by four queues and one port has half the
  threshold, so every pool fills, classes of one port compete, and packets of 2 straddle each
  boundary (reserve and pool, pool and headroom).
* *SwitchPort.* A pool of 2 for three flows pauses and resumes each sender again and again, with the other port busy,
  halted or with a frame queued. `MaxFrames` bounds the frames on their way to a sender that is to send more,
  `MaxDisturbances` the PAUSEs and control packets; one is enough to keep a frame waiting in class 0.
* *Rdma....* Messages that are no multiple of the MTU and some that are, so a chunk boundary
  falls inside, at the end of and between messages. One loss already gives several NACKs, as every
  packet behind the gap is answered. `NoEmptyCompletion` was also checked for the programs
  `<<8,2>>`, `<<12,2>>` and `<<9,1,2>>`. `NoSize` is any number above all sizes.
* *NicEgress.* `MaxMessage` and `MaxAcks` bound the counters; going back makes `left`
  exceed nothing, as it returns what is in flight. One gap is longer than a transmission plus
  the other, one equal to a transmission, so that a wake-up is due before, at and after
  `TransmitComplete`.

* *ClientOps.* The lists have as many SENDs as RECVs of the peer and no circular wait; they have two sends in a row, an
  answer that may pass an acknowledgement, and a list that ends while another client of the host is idle. Messages have one or two packets, so a
  message ends at its first packet and after it. The four clients share two groups, which is what `RemoveFinishedQps` needs to go wrong.
* *MtpKernel.* With fewer threads than systems a thread takes two systems in a stage, and two workers beside the main
  thread are enough for one to lag behind while the other finishes the stage. The delays differ, so windows of neighbours
  differ; each start situation was chosen for one hazard (named in MCMtpKernel). Event numbers make the state space finite, as handlers schedule finitely many events.

**Deadlock** is checked in MmuClasses, SwitchPort and NicEgress. The collective layer and the
transport, the clients and the kernel end (everything delivered, or halted), so their runs do not check it; what must
not stop is stated as `Completes`, `AllDelivered`, `RunsToTheEnd` (of the states where no event is left) and `Terminates`.

**Fairness.** ThreadBlock: weak fairness of `Execute` (a call returns) and of the
events of each block (the simulator executes every scheduled event, and the transport
completes every message, which is what `AllDelivered` shows of it). RdmaTransport: weak fairness of the application's
push, of both receive handlers (a packet not lost arrives after a finite delay) and of
`GetNxtPacket` (the transmitter serves every sendable queue pair; `NoBypass` of NicEgress is
the reason). No fairness is assumed of losses. MtpKernel: weak fairness of the steps of each thread, as the operating system
lets every thread go on; a thread that spins or waits has no step until what it waits for is there. Strong fairness is used nowhere.

## 4. Where the code does not do what it says

| run | what TLC shows |
|---|---|
| FastRing | `thread-block.cc:473`. A message that arrives while the current receiving step, which has its message, is still being completed is consumed by that step a second time, which schedules a second completion and sends a second message. The comment at line 468 asks whether the step is *waiting* for a message; only its type is tested. It needs messages closer than a step takes, that is small chunks. |
| NestedLock | `rdma-hw.cc:759`. In the multithreaded build `QpCompleteMessage` calls `FinishMessage` inside the critical section; the callback of a `PassiveDestroy` client without a further message finishes the queue pair, and `QpComplete` enters the same section, which is not reentrant. The comment four lines above says that callbacks must not be called with the lock held. Users' callbacks are not; this one, of the application, is. |
| SameTime | `logical-process.cc:133`. Two messages of one system to another, sent at one time for one time, have one sort key (the sender's `m_uid` does not move, the event key has none), so `std::sort` and `pop_back` order them as they like, short lists reversed. All events scheduled before `Run` on one system for one time are such messages. `simulator.h:59` promises first in, first out. |

Further configurations reproduce, in the same way, five more traces that the passing runs are set up to
avoid (`tlc -config X.cfg M`):

| configuration, module | what TLC shows |
|---|---|
| DependentRecv, MCThreadBlock | `thread-block.cc:473`. A message that arrives while its receiving step waits for another block starts that step: `m_waitDep` is not looked at. No shipped algorithm file has a receiving step with a dependency. |
| RdmaStaleSize, MCRdmaTransport | `rdma-hw.cc:469`. The size field is taken from any packet that carries it while the receiver has none, a late duplicate of an earlier first packet included; the next message is then counted with the wrong size (assertion at line 475). |
| RdmaTxBeforeRx, MCRdmaTransport | `rdma-hw.cc:790`. The next message starts at `snd_nxt`, which a NACK may have set below what is acknowledged; its bytes are then partly ones the receiver took before, and the sender announces the message first. |
| NicIdle, MCNicEgress | `qbb-net-device.cc:400`. The time of the wake-up is the least `m_nextAvail` of *all* queue pairs; one that is idle, with a time in the past, hides the one that is to come, no wake-up is scheduled, and a rate-limited queue pair waits for an unrelated event. |
| ClientPingPong, MCRdmaClientOps | `rdma-client.cc:317`. A message that arrives while the client is still in a SEND is not expected and forgotten; the RECV that follows never completes. As `ReceiveUdp` announces a message before it enqueues the acknowledgement (`rdma-hw.cc:487`), an answer of one packet passes the acknowledgement when the peer's transmitter is idle. |

The two RDMA traces need a lost packet: the shipped set-up has PFC off, so a switch may
drop, and going back is the only recovery.

## 5. Proofs

TLAPS checks every theorem for all values of the constants that satisfy the
assumption of the module. Every invariant was first checked by TLC. The theorems without
a property in brackets state what no run of section 3 checks: type invariants (`KernelTypeOK` and others), `CountsDown`, `ReceiveAlone`,
that headroom is used only while paused, and that a switch with ports implements `MmuSpec`.

| module | assumption | theorems |
|---|---|---|
| SumLaws | none | lemmas only: induction over finite sets, and the laws of `SumFunctionOnSet` |
| ThreadBlockProofs | `ProgramAssumption`: finitely many blocks, none empty, each receives from at most one | `TypeCorrect` (TypeOK), `QpIdle` (QpIdleWhenFinished) |
| | also of the behaviour `ConsumedWhileWaiting`: a message is consumed on arrival only by a step that waits for one | `OrderIfWaiting` (DependencyOrder), `NoCrashIfWaiting` (NoCrash), `OneCompletionIfWaiting` (OneCompletion), `SendsIfWaiting` (SendsFollowProgram) |
| SwitchMmuProofs | `MmuAssumption`: finitely many ports and classes, headrooms and reserves fit in the buffer | `PoolNeverOverdrawn`, `HeadroomNeverExceeded`, `HeadroomOnlyWhilePaused`, `NoEmptyQueuePaused`, `NoDropBeforePause`, `AccountsBalance` (Accounting), `CountersNeverWrap` (MmuTypeOK), `BufferNeverOverflows` (BufferBound) |
| SwitchPortProofs | `MmuAssumption`, `SwitchPortAssumption`: no route leads back to the port of arrival | `NoPortIdles` (NoIdlePort), `TransmitterReady` (StartsWhenReady), `PacketsStayCharged` (QueuesCharged), `PauseAndResumeAlternate` (FramesAlternate), `PortsKeepTheBuffer` |
| RdmaTransportProofs | `TransportAssumption`; for the last two also `Lossless` (no loss, acknowledgement interval 1, no going back to a chunk) | `TypeCorrect`, `AckedIsTaken` (AckedWasTaken), `CompletionFindsMessage` (NoEmptyCompletion); `CountsExactly`, `ImplementsChannel` (ChannelSpec) |
| RdmaClientOpsProofs | `ClientAssumption`: finitely many clients, the two ends of a connection on different hosts, messages of the script not empty and not of clients with a list of operations | `TypesCorrect` (TypeOK), `HandlersDoNotFail` (NoFailure), `SentIsReceived` (SendDoneMeansReceived), `RecvsMatch` (EachRecvOneMessage), `MessageEndsAgree` (EndsAgree), `WakeupsArrive` (NoLostWakeup) |
| | also `ProgramsMatch`: in each of the lists considered, all clients wait only when all are at their ends | `EventsRunOut` (RunsToTheEnd) |
| NicEgressProofs | `NicAssumption` | `TypeCorrect` (with the window), `WakeScheduled` (WakeUnlessHidden), `AcksLeave` (AcksNotHeld), `FairTurns` (NoBypass) |
| MtpKernelProofs | `WorkersAssumption`: finitely many workers, fewer than systems; every sort is a permutation | `WorkersTypeCorrect`, `WorkersExclude` (Exclusion), `ImplementsBarrier` (BarrierSpec) |
| | also `KernelAssumption`: links have one delay both ways; what a system schedules on another is a packet on a link, no earlier than its delay; only scripts call Stop | `KernelTypeCorrect`, `NoEventOfThePast` (Causality), `PublicAlone` (PublicInOrder), `ReceivesAlone`, `RunsAll` (RunsEverything), `KernelExcludes` (Exclusion), `KernelImplementsBarrier` (BarrierSpec) |

The inductive invariants, and why the properties alone are not inductive:

* **FinishInv** (ThreadBlock). `FinishedTBCallback` decides by a counter,
  `m_tb_complete_count`, and each block decides by another, `m_total_send_message_num_trace`,
  whether it reports now or at its last acknowledgement. `SendCount` ties the second to
  the channel (`sendNum = pushed - acked`), `FlagMeaning` says that a block whose finish flag
  is set is at its end with a send outstanding, `DoneMeaning` and `LeftMeaning` that the first
  counts exactly the blocks of the GPU that have not reported, `FinishedMeaning` that
  destroyed queue pairs imply a counter of 0. The step that decrements needs a set
  argument: removing one element of a finite set lowers its cardinality by one.
* **OrderInv** (ThreadBlock). FastRing and DependentRecv show that the type test of `RecvMessageDone` is too weak; by these theorems
  nothing else can break the three properties: with messages consumed as the comment at `thread-block.cc:468` says, every program, with any delays
  and any nesting of notifications, is executed in order. `ConsumedWhileWaiting` is a condition on behaviours: TLC confirms that the instances of ThreadBlockDeps and Ring
  meet it (a PROPERTY of both runs), and FastRing that the code does not see to it. The argument is a token: a block has one scheduled `CompleteStep` or
  one call in progress, never two (`Tokens`), and none while it waits, is at its end or has not started (`Resting`). So a call that dereferences
  `m_currentStep` finds a step. `Latched` ties what a block waits for to its step, `Status` says that a loop notifies of what is in
  the status table; together they give that a resumed step is ready, which `ReadyNow` carries to its completion.
* **SendInv** (ThreadBlock). That a block is at a sending step does not say whether it has sent. The token decides it: a block has pushed the messages of the sending steps before the current
  one, and one more while the current one is being completed, by a scheduled event or by a call (`Sent`).
* **MmuInv** (SwitchMmu). A departure subtracts in a fixed order from pools that were
  charged by another rule at arrival. `Charged` (bytes stored = reserve and pool + headroom)
  makes the subtraction safe for each queue, and `PausedHolds` needs it to know that an empty queue
  has no headroom in use; `OffUnpaused` covers a switch without PFC, where nothing is ever paused. `PoolCharged` (the pool is charged with the
  sum over all queues of what each holds over its reserve) changes with one queue at a time, by the share that the step takes or gives back; with the bound
  on the pool it bounds the buffer, whose exact excess is a sum over a product of two sets (`SumRows`).
  `DropOnlyAfterPause` is an invariant of the last step (the variable `dropped`).
* **SpInv** (SwitchPort). Both properties speak of the end of nested calls, so the invariant must say what holds inside:
  `Attended` (a READY port that may send is named by one of the calls), `Nested` (at most two calls, the inner one
  finds a packet of class 0 and is of another port, and a packet waiting for its start has a READY transmitter) and `Away` (no
  packet is in the queue of the port it came in by), which is why the inner call is of another port. The switch with ports
  is also shown to implement `MmuSpec`, which carries the theorems on the buffer over. `QueuesCharged` is a sum over ports of sums over
  a queue: an arrival adds a term at one index of one queue, a departure takes the first term away and moves all others down by one (`BytesTail`, by `SumReindex`).
* **LinkInv** (SwitchPort). `FramesAlternate` says that a history of what the sender holds exists, along all frames of a class on the wire and in class 0,
  in which every frame changes something, from what it was told to what the MMU has decided. Kept in two parts, the frames on the wire and those at the port (`InTurnAt`):
  a decision extends the second by one change (`HeardAppend`), a transmission moves a frame from the second to the first (`HeardTail`), a delivery takes one off the first; `HeardJoin` puts them together.
* **AckInv** (RdmaTransport). `snd_una` moves by what an answer says, so what must be invariant is
  that no answer on its way is ahead of the receiver, chunk rounding included; that is preserved
  because the receiver, which may go back itself (`m_backto0`), never goes below the chunk boundary of what it has answered.
* **DoneInv** (RdmaTransport). `NoEmptyCompletion` under loss fails if an answer comes when the queue is empty (`StillOpen` says the opposite): an answer for the last byte
  of a message completes it, so it must be the last one on its way. `EarlierBelow` says just that: every answer but the last is short of `Reach`, as far as the sender can have gone before the next
  message starts. It is kept because the receiver answers what it takes within `Reach` (`WithinReach`), never goes back behind its last answer (`LastBehind`), and gives no answer to a duplicate;
  so once it has answered the last byte, nothing that is still on its way makes it answer again.
* **LosslessInv** (RdmaTransport). The refinement needs to know that the two channels hold consecutive
  numbers: `DataInOrder` (the packets on the way cover `expected .. sndNxt`, each beginning where the one
  before ends), `AcksInOrder` (the same for answers), `OneMessage` (packets
  on the way belong to the first message), `CountsDown` and `Announced` (the receiver has announced the
  messages whose end it has passed, the sender those it was acknowledged). Then the last
  acknowledgement finds its message and follows the announcement.
* **NicInv** (NicEgress). `NoBypass` is a bound on a history variable; `Turns` says why it holds: while a
  queue pair could send, the number of packets that went past it is at most the distance the round-robin
  index has moved since. Two facts carry `WakeUnlessHidden` and `AcksNotHeld`:
  every event but `ReceivePause`, `Tick` and an ACK that ends a message without a successor sets `called`, and
  those three make nothing sendable; an `m_nextAvail` that has passed stays passed until
  its queue pair sends.

* **Inv** (RdmaClientOpsProofs). A handler is one operator from a world to a world, so what holds inside a call tree
  has to be said of its intermediate worlds: `Moving` and `Clients` have as parameters the receivers that owe an acknowledgement, the hosts that are idle
  with something to send and the clients between two operations, and every operator has a lemma that says for which sets it needs and
  leaves them. Between two events all are empty. `Pipe` is the argument of `EndsAgree` and of the check that nothing is out of order: the frames of a client on the wire carry exactly the numbers from what the receiver has to what is
  sent, its acknowledgements those from what the sender knows to what the receiver has (`Carries`, a history along the queue), and only the first message of a queue has a place (`Placed`).
  `Got` covers a deleted receive queue pair, `Groups` says that a finished queue pair is in no group. `AtWork` ties the index of a client to its queue, to what was announced of its messages and
  to what it was told of others, a sum over its senders. `Count` says that the flows still to be pushed, queued and finished are all flows, so the last one, at which the script finishes every
  flow's queue pair, finds all queues empty. The loop over the flow clients is an induction over the clients it has passed. With nothing on its way the two ends of a `Pipe` meet, which leaves only
  the two reasons `RunsToTheEnd` names, and `ProgramsMatch`, which TLC evaluates for the lists of ClientOps (MCRdmaClientOps): without it the lists themselves may wait for each other.

* **WInv** (MtpWorkers). The barrier waits for a number; why is everything done when it comes? `Counted`: within a stage, systems
  done plus threads that hold one are as many as numbers below N have been taken. `Owned`: what a thread holds was taken in this stage by no
  other thread. `Quiet`: between stages the index is at least N, so a worker that lags behind finds
  nothing, and nobody holds a system. `Flags` ties the main thread's place to the shared flags.
* **KInv** (MtpKernel), the argument of conservative synchronisation. `Windows`: no event is earlier than `g_smallestTime`, every clock is
  within its window, and every message of the round is no earlier than the window of its *receiver* (a
  sender is at or after the smallest time and the link has the same delay both ways, so the receiver's shortest link is no longer).
  `Mailboxes`: a system that has received in this stage has an empty mailbox, so at the next `CalculateSmallestTime` all messages are events; here
  the barrier theorem is used. `Handling`: a handler runs only under a thread, within the window, and for the public system at the smallest time.
  `Ends`: what a Stop leaves is not before it.

Only model-checked: liveness (`Completes`, `AllDelivered`, `Terminates`), which is out of the prover's reach as is
`ENABLED`; that the programs of ThreadBlockDeps, and of Ring
with its timing, meet `ConsumedWhileWaiting`, on which the proofs of `DependencyOrder`, `NoCrash`, `OneCompletion` and `SendsFollowProgram` rest.
The sums over queues and over ports are proved, although the library's induction theorems take an operator as parameter: SumLaws does the induction over a *set* of subsets
for which a law holds (`SetInduction`), and shows that the recursive function behind `SumFunctionOnSet` exists.

## 6. Not modelled

* *RdmaClient*: a higher layer that replaces the two completions of a client that also has a list of operations. *RdmaDriver*: the set-up.
* *RdmaHw*: CNP, `RedistributeQp`, the coalescing of congestion control per destination.
* *Links*: the time between PAUSE and its effect, lost PFC frames. Planned: PfcLink.
* *Congestion control*: rate arithmetic in floating point; its effect on the rest is a rate that changes.
  Timers of DCQCN are planned. *PINT* is logarithms: outside what TLC evaluates.
* The NVLS path and the mode DWRR of the transmitter; an *NVSwitch* is in only as a user of SwitchMmu.
* *Routing and scenario set-up*: run before the simulation. CalculateRoute is planned as Routing.
* *Multithreaded kernel*: Cancel and Remove, ScheduleAt from outside of a system, ScheduleDestroy, EnableNew (with MPI only), the search over the
  topology in `Partition()`. Its composition with RdmaClientOps is missing too: the counter `flow_num_finished` that handlers of several systems increment
  without a lock (`QpReuseNetwork.cc:223`) is a data race no module shows.
* *MPI* and the rest of *ns-3*: not changed by this repository.
* Parsing of XML and configuration, packet headers, traces: no behaviour of their own.
* Sizes above 4 GiB in the collective layer (`thread-block.cc:327`), where a product of two `uint32_t` wraps.

## 7. Plan

What would be next, in this order:

1. **PfcLink**: SwitchPort and the transmitter of NicEgress on a link with a delay. Questions: is the headroom
   of `common.h:1105` (and 3·BDP of an NVSwitch port, line 1134) enough for what arrives after PAUSE, packet
   headers included; what a lost PFC frame does to the assertion of `QbbNetDevice::Resume` and to a paused sender.
2. **RdmaClientOps under MtpKernel**: the handlers of one host as handlers of a system, the critical section as a lock between threads, the flow counter.
3. **Routing**, then the timers of DCQCN.
4. **Proofs**: `ConsumedWhileWaiting` from an
   assumption on programs and delays; headroom sufficiency as a theorem on PfcLink's constants.
   RdmaTransport with loss under several settings at once, by a module that chooses the constants in its initial state.
